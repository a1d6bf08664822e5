---------------------------- MODULE CollectProofs ----------------------------
(***************************************************************************)
(* What a fingerprint is collected from: proofs for SMBIOS tables of any   *)
(* length, cut anywhere, for bytes that are no table at all, and for any   *)
(* machines.                                                               *)
(*                                                                         *)
(* The argument for the walk has three parts.  Functions defined by        *)
(* recursion exist and satisfy their equations (Recursion, from the        *)
(* well-foundedness of <), so the length and the bytes of an encoded table *)
(* are known structure by structure and string by string (EncodedShape,    *)
(* BytesOf).  BoundsInv puts the two indices of the walk inside the table. *)
(* WalkInv says where they stand in the structure they are in, and what has*)
(* been collected so far.                                                  *)
(*                                                                         *)
(* The argument for the list: identifiers are in a strict total order      *)
(* (IdOrder), so the place of one is the number of those before it and the *)
(* list has each once, in order (InOrderShape).  SetInv says that what is  *)
(* collected is a finite set of identifiers; SourceInv says which, provider*)
(* by provider.  What canonicalize forgives is SpellingForgiven: texts with*)
(* the same words up to case, however spaced, become the same value; and   *)
(* NothingElseForgiven that no others do, so two machines without a serial *)
(* in common have no identifier in common.                                 *)
(***************************************************************************)
EXTENDS Collect, SequenceTheorems, FiniteSetTheorems, Induction

-----------------------------------------------------------------------------
(* A sequence of sequences put end to end, and where each one ends.         *)
Marks(e, seqs) ==
  /\ e \in [0 .. Len(seqs) -> Nat] /\ e[0] = 0
  /\ \A n \in 1..Len(seqs) : e[n] = e[n - 1] + Len(seqs[n])

Joins(t, e, seqs) ==
  /\ Len(t) = e[Len(seqs)]
  /\ \A n \in 1..Len(seqs) : \A p \in 1..Len(seqs[n]) :
       e[n - 1] + p \in 1..Len(t) /\ t[e[n - 1] + p] = seqs[n][p]

(* Where the sequences end that are put end to end. *)
Ends(seqs) ==
  LET end[n \in 0 .. Len(seqs)] == IF n = 0 THEN 0 ELSE end[n - 1] + Len(seqs[n])
  IN end

(* The marks of a table are one after the other, from 0 on.                 *)
LEMMA EndsDef ==
  ASSUME NEW S, NEW seqs \in Seq(Seq(S))
  PROVE  Marks(Ends(seqs), seqs)
PROOF
<1> DEFINE N == Len(seqs)
           V == Nat
           base == 0
           G == [n \in 1..N |-> [v \in Nat |-> v + Len(seqs[n])]]
           Rec(f) == [n \in 0..N |-> IF n = 0 THEN 0 ELSE f[n - 1] + Len(seqs[n])]
<1>0. \A n \in 1..N : seqs[n] \in Seq(S) /\ Len(seqs[n]) \in Nat
  OBVIOUS
<1>1. G \in [1..N -> [V -> V]] /\ base \in V /\ N \in Nat
  OBVIOUS
<1>2. PICK f \in [0..N -> V] : Recurs(f, base, G, N)
  <2> HIDE DEF G, N, V, base
  <2> QED BY <1>1, Recursion
<1>3. /\ f \in [0..N -> V] /\ f[0] = base
      /\ \A n \in 1..N : f[n] = G[n][f[n - 1]]
  BY <1>2 DEF Recurs
<1>4. \A n \in 1..N : f[n] = f[n - 1] + Len(seqs[n])
  <2> SUFFICES ASSUME NEW n \in 1..N PROVE f[n] = f[n - 1] + Len(seqs[n])
    OBVIOUS
  <2>1. PICK m \in 0..N : m = n - 1
    OBVIOUS
  <2>2. f[n] = G[n][f[m]] /\ f[m] \in Nat
    <3> HIDE DEF G
    <3> QED BY <1>3, <2>1
  <2>3. G[n] = [v \in Nat |-> v + Len(seqs[n])]
    OBVIOUS
  <2> HIDE DEF G
  <2> QED BY <2>1, <2>2, <2>3
<1>5. f = Rec(f)
  BY <1>3, <1>4
<1> DEFINE e == CHOOSE h : h = Rec(h)
<1>6. e = Rec(e)
  <2> HIDE DEF Rec
  <2> QED BY <1>5
<1> HIDE DEF e
<1>7. e[0] = 0 /\ \A n \in 1..N : e[n] = e[n - 1] + Len(seqs[n])
  <2>1. e[0] = Rec(e)[0]
    BY <1>6
  <2>2. ASSUME NEW n \in 1..N PROVE e[n] = e[n - 1] + Len(seqs[n])
    <3>1. e[n] = Rec(e)[n]
      BY <1>6
    <3> QED BY <3>1
  <2> QED BY <2>1, <2>2
<1>8. \A n \in 0..N : e[n] = f[n]
  <2> DEFINE T == {n \in 0..N : e[n] = f[n]}
  <2>1. 0 \in T
    BY <1>3, <1>7
  <2>2. ASSUME NEW n \in 0 .. N - 1, n \in T PROVE n + 1 \in T
    <3>1. N \in Nat
      BY <1>1
    <3> HIDE DEF N
    <3>2. PICK m \in 1..N : m = n + 1 /\ m - 1 = n /\ m \in 0..N
      BY <3>1
    <3>3. e[m] = f[m]
      BY <1>4, <1>7, <2>2, <3>2
    <3> QED BY <3>2, <3>3
  <2> HIDE DEF T
  <2>3. 0..N \subseteq T
    BY <1>1, <2>1, <2>2, NatSetInduction
  <2> QED BY <2>3 DEF T
<1>9. e = f
  BY <1>3, <1>5, <1>6, <1>8
<1>10. Ends(seqs) = e
  BY DEF Ends, e
<1> QED BY <1>3, <1>4, <1>9, <1>10 DEF Marks

(* FlattenSeq puts each sequence between its mark and the next one.         *)
LEMMA FlattenDef ==
  ASSUME NEW S, NEW seqs \in Seq(Seq(S)), NEW e, Marks(e, seqs)
  PROVE  FlattenSeq(seqs) \in Seq(S) /\ Joins(FlattenSeq(seqs), e, seqs)
PROOF
<1> DEFINE N == Len(seqs)
           V == Seq(S)
           base == <<>>
           G == [n \in 1..N |-> [v \in V |-> v \o seqs[n]]]
<1>1. N \in Nat /\ base \in V /\ G \in [1..N -> [V -> V]]
  OBVIOUS
<1>0. PICK f \in [0..N -> V] : Recurs(f, base, G, N)
  <2> HIDE DEF G, N, V, base
  <2> QED BY <1>1, Recursion
<1>2. /\ f \in [0..N -> V] /\ f[0] = base
      /\ \A n \in 1..N : f[n] = G[n][f[n - 1]]
  BY <1>0 DEF Recurs
<1>3. \A n \in 1..N : f[n] = f[n - 1] \o seqs[n]
  <2> SUFFICES ASSUME NEW n \in 1..N PROVE f[n] = f[n - 1] \o seqs[n]
    OBVIOUS
  <2>1. PICK m \in 0..N : m = n - 1
    OBVIOUS
  <2>2. f[n] = G[n][f[m]] /\ f[m] \in V
    <3> HIDE DEF G, V, base
    <3> QED BY <1>2, <2>1
  <2>3. G[n] = [v \in V |-> v \o seqs[n]]
    OBVIOUS
  <2> HIDE DEF G, V
  <2> QED BY <2>1, <2>2, <2>3
<1>x. ASSUME NEW n \in 0..N PROVE f[n] \in Seq(S)
  BY <1>2
<1> HIDE DEF G
<1>4. FlattenSeq(seqs) = f[N]
  <2>1. CASE N = 0
    BY <1>2, <2>1 DEF FlattenSeq
  <2>2. CASE N # 0
    <3> DEFINE Rec(h) == [n \in 1..N |-> IF n = 1 THEN seqs[n] ELSE h[n - 1] \o seqs[n]]
               g == [n \in 1..N |-> f[n]]
               c == CHOOSE h : h = Rec(h)
    <3>1. f[1] = seqs[1]
      <4>1. 1 \in 1..N /\ 1 - 1 = 0 /\ seqs[1] \in Seq(S)
        BY <1>1, <2>2
      <4>2. f[1] = <<>> \o seqs[1]
        BY <1>2, <1>3, <4>1
      <4> QED BY <4>1, <4>2
    <3>2. g = Rec(g)
      <4> SUFFICES ASSUME NEW n \in 1..N
                   PROVE  f[n] = IF n = 1 THEN seqs[n] ELSE g[n - 1] \o seqs[n]
        OBVIOUS
      <4>1. CASE n = 1
        BY <3>1, <4>1
      <4>2. CASE n # 1
        <5>1. PICK m \in 1..N : m = n - 1
          BY <4>2
        <5>2. g[m] = f[m]
          OBVIOUS
        <5>3. f[n] = f[m] \o seqs[n]
          BY <1>3, <5>1
        <5> HIDE DEF g
        <5> QED BY <4>2, <5>1, <5>2, <5>3
      <4> QED BY <4>1, <4>2
    <3>3. c = Rec(c)
      <4> HIDE DEF g, Rec
      <4> QED BY <3>2
    <3> HIDE DEF c
    <3> DEFINE T == {n \in 0..N : n = 0 \/ c[n] = f[n]}
    <3>4. 0 \in T
      OBVIOUS
    <3>5. \A n \in 0 .. N - 1 : n \in T => n + 1 \in T
      <4> SUFFICES ASSUME NEW n \in 0 .. N - 1, n \in T PROVE c[n + 1] = f[n + 1]
        OBVIOUS
      <4>1. CASE n = 0
        BY <3>1, <3>3, <4>1, <2>2
      <4>2. CASE n # 0
        <5>1. n + 1 \in 1..N /\ n + 1 # 1 /\ (n + 1) - 1 = n /\ c[n] = f[n]
          BY <4>2
        <5>2. c[n + 1] = c[n] \o seqs[n + 1]
          BY <3>3, <5>1
        <5>3. f[n + 1] = f[n] \o seqs[n + 1]
          BY <1>3, <5>1
        <5> QED BY <5>1, <5>2, <5>3
      <4> QED BY <4>1, <4>2
    <3> HIDE DEF T
    <3>6. 0..N \subseteq T
      BY <1>1, <3>4, <3>5, NatSetInduction
    <3>7. c[N] = f[N]
      <4>1. N \in 0..N
        BY <1>1
      <4>2. N \in T
        BY <3>6, <4>1
      <4> QED BY <2>2, <4>2 DEF T
    <3>8. FlattenSeq(seqs) = c[N]
      BY <2>2 DEF FlattenSeq, c
    <3> QED BY <3>7, <3>8
  <2> QED BY <2>1, <2>2
<1> DEFINE Good(n) == /\ Len(f[n]) = e[n]
                      /\ \A m \in 1..n : \A p \in 1..Len(seqs[m]) :
                           e[m - 1] + p \in 1..e[n] /\ f[n][e[m - 1] + p] = seqs[m][p]
           T == {n \in 0..N : Good(n)}
<1>5. 0 \in T
  BY <1>2 DEF Marks
<1>6. \A n \in 0 .. N - 1 : n \in T => n + 1 \in T
  <2> SUFFICES ASSUME NEW n \in 0 .. N - 1, n \in T PROVE n + 1 \in T
    OBVIOUS
  <2>1. PICK k \in 1..N : k = n + 1 /\ k - 1 = n
    OBVIOUS
  <2>2. /\ f[k] = f[n] \o seqs[k] /\ f[n] \in Seq(S) /\ seqs[k] \in Seq(S)
        /\ e[k] = e[n] + Len(seqs[k]) /\ e[n] \in Nat /\ Len(f[n]) = e[n]
    <3>1. f[k] = f[n] \o seqs[k] /\ f[n] \in Seq(S)
      BY <1>2, <1>3, <2>1
    <3>2. seqs[k] \in Seq(S) /\ n \in 0 .. N - 1
      BY <2>1
    <3>3. e[k] = e[n] + Len(seqs[k]) /\ e[n] \in Nat
      BY <2>1 DEF Marks
    <3> QED BY <3>1, <3>2, <3>3
  <2>u. PICK u \in Seq(S) : u = f[n]
    BY <2>2
  <2>w. PICK w \in Seq(S) : w = seqs[k]
    BY <2>2
  <2>c. /\ Len(u \o w) = Len(u) + Len(w) /\ Len(u) \in Nat /\ Len(w) \in Nat
        /\ \A q \in 1 .. Len(u) + Len(w) :
             (u \o w)[q] = IF q <= Len(u) THEN u[q] ELSE w[q - Len(u)]
    BY ConcatProperties, LenProperties
  <2>d. f[k] = u \o w /\ Len(u) = e[n] /\ e[k] = Len(u) + Len(w)
    BY <2>2, <2>u, <2>w
  <2>3. Len(f[k]) = e[k]
    BY <2>c, <2>d
  <2>4. ASSUME NEW m \in 1..k, NEW p \in 1..Len(seqs[m])
        PROVE  e[m - 1] + p \in 1..e[k] /\ f[k][e[m - 1] + p] = seqs[m][p]
    <3>1. CASE m = k
      <4>1. e[m - 1] = Len(u) /\ seqs[m] = w /\ p \in 1..Len(w)
        BY <2>1, <2>d, <2>w, <3>1
      <4>2. Len(u) + p \in 1 .. Len(u) + Len(w) /\ (Len(u) + p) - Len(u) = p
            /\ ~(Len(u) + p <= Len(u))
        BY <2>c, <4>1
      <4>3. (u \o w)[Len(u) + p] = w[p]
        BY <2>c, <4>2
      <4> QED BY <2>d, <4>1, <4>2, <4>3
    <3>2. CASE m # k
      <4>1. m \in 1..n
        BY <2>1, <3>2
      <4>2. e[m - 1] + p \in 1..e[n] /\ f[n][e[m - 1] + p] = seqs[m][p]
        BY <4>1
      <4>3. PICK q \in 1..Len(u) : q = e[m - 1] + p
        BY <2>d, <4>2
      <4>4. q \in 1 .. Len(u) + Len(w) /\ (u \o w)[q] = u[q]
        BY <2>c, <4>3
      <4> QED BY <2>d, <2>u, <4>2, <4>3, <4>4
    <3> QED BY <3>1, <3>2
  <2> QED BY <2>1, <2>3, <2>4
<1>7. 0..N \subseteq T
  <2> HIDE DEF T
  <2> QED BY <1>1, <1>5, <1>6, NatSetInduction
<1>8. Good(N) /\ f[N] \in Seq(S)
  BY <1>1, <1>2, <1>7
<1> QED BY <1>4, <1>8 DEF Joins
-----------------------------------------------------------------------------
(* Two sequences put end to end. *)
Joined(t, u, w) ==
  /\ Len(u) \in Nat /\ Len(w) \in Nat /\ Len(t) = Len(u) + Len(w)
  /\ \A p \in 1..Len(u) : t[p] = u[p]
  /\ \A p \in 1..Len(w) : t[Len(u) + p] = w[p]

(* Three pieces end to end: the header, the area and the strings.           *)
LEMMA Concatenated ==
  ASSUME NEW S, NEW u \in Seq(S), NEW w \in Seq(S)
  PROVE  u \o w \in Seq(S) /\ Joined(u \o w, u, w)
PROOF
<1>1. /\ u \o w \in Seq(S) /\ Len(u \o w) = Len(u) + Len(w)
      /\ Len(u) \in Nat /\ Len(w) \in Nat
  BY ConcatProperties, LenProperties
<1>2. \A p \in 1 .. Len(u) + Len(w) :
        (u \o w)[p] = IF p <= Len(u) THEN u[p] ELSE w[p - Len(u)]
  BY ConcatProperties
<1>3. ASSUME NEW p \in 1..Len(u) PROVE (u \o w)[p] = u[p]
  BY <1>1, <1>2
<1>4. ASSUME NEW p \in 1..Len(w) PROVE (u \o w)[Len(u) + p] = w[p]
  <2>1. Len(u) + p \in 1 .. Len(u) + Len(w) /\ ~(Len(u) + p <= Len(u))
        /\ (Len(u) + p) - Len(u) = p
    BY <1>1
  <2> QED BY <1>2, <2>1
<1> QED BY <1>1, <1>3, <1>4 DEF Joined

(* A byte is a number up to 255.                                            *)
LEMMA OctetDef == 0 \in Octet /\ \A x : x \in Octet <=> x \in Nat /\ x <= 255
PROOF
<1>1. \A x : x \in Octet <=> x \in Nat /\ x <= 255
  <2> DEFINE top == 255
  <2>1. top \in Nat /\ Octet = 0..top
    BY DEF Octet
  <2> HIDE DEF top
  <2>2. \A x : x \in Octet <=> x \in Nat /\ x <= top
    BY <2>1
  <2> QED BY <2>2 DEF top
<1> QED BY <1>1

(* The strings of a structure, each with the NUL that ends it; where the    *)
(* m-th ends in the encoding of the structure; a list, structure by         *)
(* structure.                                                               *)
Pieces(s)        == [n \in DOMAIN s.strings |-> Append(s.strings[n], 0)]
StringEnd(s, m)  == 4 + Len(s.area) + Ends(Pieces(s))[m]
Encoded(l)       == [n \in DOMAIN l |-> Encoding(l[n])]

(* What the strings of a structure are made of. *)
LEMMA StringsShape ==
  ASSUME NEW s, WellFormed(s)
  PROVE  /\ Len(s.strings) \in Nat
         /\ \A m \in 1..Len(s.strings) :
              /\ s.strings[m] \in Seq(Octet) /\ Len(s.strings[m]) \in Nat \ {0}
              /\ \A p \in 1..Len(s.strings[m]) : s.strings[m][p] \in Octet \ {0}
PROOF
<1>1. s.strings \in Seq(Seq(Octet \ {0})) /\ \A n \in DOMAIN s.strings : s.strings[n] # <<>>
  BY DEF WellFormed
<1>2. ASSUME NEW m \in 1..Len(s.strings)
      PROVE  /\ s.strings[m] \in Seq(Octet) /\ Len(s.strings[m]) \in Nat \ {0}
             /\ \A p \in 1..Len(s.strings[m]) : s.strings[m][p] \in Octet \ {0}
  <2>1. PICK v \in Seq(Octet \ {0}) : v = s.strings[m] /\ v # <<>>
    BY <1>1
  <2>2. v \in Seq(Octet)
    BY SeqMonotonic
  <2>3. Len(v) \in Nat \ {0}
    BY <2>1, EmptySeq
  <2>4. \A p \in 1..Len(v) : v[p] \in Octet \ {0}
    BY ElementOfSeq
  <2> QED BY <2>1, <2>2, <2>3, <2>4
<1> QED BY <1>1, <1>2

(* The strings of a structure, each with its NUL, one after the other.      *)
LEMMA PiecesShape ==
  ASSUME NEW s, WellFormed(s)
  PROVE  /\ Pieces(s) \in Seq(Seq(Octet)) /\ Len(Pieces(s)) = Len(s.strings)
         /\ \A m \in 1..Len(s.strings) :
              /\ Len(Pieces(s)[m]) = Len(s.strings[m]) + 1
              /\ \A p \in 1..Len(s.strings[m]) : Pieces(s)[m][p] = s.strings[m][p]
              /\ Pieces(s)[m][Len(s.strings[m]) + 1] = 0
PROOF
<1>1. DOMAIN s.strings = 1..Len(s.strings) /\ Len(s.strings) \in Nat
  BY LenProperties DEF WellFormed
<1>2. ASSUME NEW m \in 1..Len(s.strings)
      PROVE  /\ Pieces(s)[m] \in Seq(Octet)
             /\ Len(Pieces(s)[m]) = Len(s.strings[m]) + 1
             /\ \A p \in 1..Len(s.strings[m]) : Pieces(s)[m][p] = s.strings[m][p]
             /\ Pieces(s)[m][Len(s.strings[m]) + 1] = 0
  <2>1. PICK v \in Seq(Octet) : v = s.strings[m]
    BY StringsShape
  <2>2. Pieces(s)[m] = Append(v, 0)
    BY <1>1, <2>1 DEF Pieces
  <2>3. 0 \in Octet
    BY OctetDef
  <2> QED BY <2>1, <2>2, <2>3, AppendProperties
<1>3. Pieces(s) \in Seq(Seq(Octet)) /\ Len(Pieces(s)) = Len(s.strings)
  <2>1. DOMAIN Pieces(s) = 1..Len(s.strings)
    BY <1>1 DEF Pieces
  <2>2. Pieces(s) = [n \in 1..Len(s.strings) |-> Pieces(s)[n]]
    BY <1>1 DEF Pieces
  <2>3. Pieces(s) \in [1..Len(s.strings) -> Seq(Octet)]
    BY <1>2, <2>2
  <2> QED BY <1>1, <2>3, SeqDef
<1> QED BY <1>2, <1>3

(* The bytes a structure is encoded in. *)
HeaderShape(E, s) ==
  /\ E[1] = s.type /\ E[2] = 4 + Len(s.area)
  /\ \A p \in 1..Len(s.area) : E[4 + p] = s.area[p]

StringsAt(E, s) ==
  \A m \in 1..Len(s.strings) :
    /\ StringEnd(s, m) = StringEnd(s, m - 1) + Len(s.strings[m]) + 1
    /\ \A p \in 1..Len(s.strings[m]) : E[StringEnd(s, m - 1) + p] = s.strings[m][p]
    /\ E[StringEnd(s, m)] = 0

Ending(s) == IF s.strings = <<>> THEN <<0, 0>> ELSE <<0>>

Shape(E, s) ==
  /\ E \in Seq(Octet)
  /\ Len(E) = StringEnd(s, Len(s.strings)) + Len(Ending(s))
  /\ \A m \in 0..Len(s.strings) :
       StringEnd(s, m) \in 4 + Len(s.area) .. StringEnd(s, Len(s.strings))
  /\ StringEnd(s, 0) = 4 + Len(s.area)
  /\ HeaderShape(E, s) /\ StringsAt(E, s)
  /\ \A p \in 1..Len(Ending(s)) : E[StringEnd(s, Len(s.strings)) + p] = 0

(* The marks of a sequence of sequences grow. *)
LEMMA MarksGrow ==
  ASSUME NEW S, NEW seqs \in Seq(Seq(S)), NEW e, Marks(e, seqs)
  PROVE  \A n \in 0..Len(seqs) : \A m \in 0..n : e[m] <= e[n]
PROOF
<1> DEFINE N == Len(seqs)
           T == {n \in 0..N : \A m \in 0..n : e[m] <= e[n]}
<1>1. N \in Nat /\ \A n \in 1..N : Len(seqs[n]) \in Nat
  OBVIOUS
<1>2. /\ \A n \in 0..N : e[n] \in Nat
      /\ \A n \in 1..N : e[n] = e[n - 1] + Len(seqs[n])
  BY DEF Marks
<1>3. 0 \in T
  BY <1>1, <1>2
<1>4. \A n \in 0 .. N - 1 : n \in T => n + 1 \in T
  <2> SUFFICES ASSUME NEW n \in 0 .. N - 1, n \in T PROVE n + 1 \in T
    OBVIOUS
  <2>1. PICK k \in 1..N : k = n + 1 /\ k - 1 = n
    OBVIOUS
  <2>2. e[k] = e[n] + Len(seqs[k]) /\ Len(seqs[k]) \in Nat
    BY <1>1, <1>2, <2>1
  <2>3. e[n] <= e[k] /\ e[n] \in Nat /\ e[k] \in Nat
    BY <1>1, <1>2, <2>1, <2>2
  <2>4. ASSUME NEW m \in 0..k PROVE e[m] <= e[k]
    <3>1. CASE m = k
      BY <2>3, <3>1
    <3>2. CASE m # k
      <4>1. m \in 0..n /\ e[m] <= e[n] /\ e[m] \in Nat
        BY <1>2, <2>1, <3>2
      <4> QED BY <2>3, <4>1
    <3> QED BY <3>1, <3>2
  <2> QED BY <2>1, <2>4
<1> HIDE DEF T, N
<1>5. 0..N \subseteq T
  BY <1>1, <1>3, <1>4, NatSetInduction
<1> QED BY <1>5 DEF T, N

(* The bytes of one structure: header, area, strings and a last NUL.        *)
LEMMA EncodingShape ==
  ASSUME NEW s, WellFormed(s)
  PROVE  Shape(Encoding(s), s)
PROOF
<1>1. PICK area \in Seq(Octet) : area = s.area
  BY DEF WellFormed
<1>2. PICK head \in Seq(Octet) : /\ head = <<s.type, 4 + Len(area), 0, 0>> /\ Len(head) = 4
                                /\ head[1] = s.type /\ head[2] = 4 + Len(area)
  <2>1. PICK type \in Octet : type = s.type
    BY DEF WellFormed
  <2>2. PICK length \in Octet : length = 4 + Len(area)
    BY <1>1 DEF WellFormed
  <2>3. <<type, length, 0, 0>> \in Seq(Octet) /\ Len(<<type, length, 0, 0>>) = 4
    BY OctetDef
  <2> QED BY <2>1, <2>2, <2>3
<1>3. PICK N \in Nat : N = Len(s.strings)
  BY StringsShape
<1>5. Pieces(s) \in Seq(Seq(Octet)) /\ Len(Pieces(s)) = N
  BY <1>3, PiecesShape
<1>4. PICK e \in [0..N -> Nat] : e = Ends(Pieces(s)) /\ Marks(e, Pieces(s))
  <2>1. Marks(Ends(Pieces(s)), Pieces(s))
    BY <1>5, EndsDef
  <2>2. Ends(Pieces(s)) \in [0..N -> Nat]
    BY <1>5, <2>1 DEF Marks
  <2> QED BY <2>1, <2>2
<1>6. PICK flat \in Seq(Octet) : flat = FlattenSeq(Pieces(s)) /\ Joins(flat, e, Pieces(s))
  BY <1>4, <1>5, FlattenDef
<1>7. PICK tail \in Seq(Octet) : tail = Ending(s) /\ \A p \in 1..Len(tail) : tail[p] = 0
  <2>1. CASE s.strings = <<>>
    <3>1. <<0, 0>> \in Seq(Octet) /\ Len(<<0, 0>>) = 2 /\ \A p \in 1..2 : <<0, 0>>[p] = 0
      BY OctetDef
    <3> QED BY <2>1, <3>1 DEF Ending
  <2>2. CASE s.strings # <<>>
    <3>1. <<0>> \in Seq(Octet) /\ Len(<<0>>) = 1 /\ \A p \in 1..1 : <<0>>[p] = 0
      BY OctetDef
    <3> QED BY <2>2, <3>1 DEF Ending
  <2> QED BY <2>1, <2>2
<1>8. Encoding(s) = ((head \o area) \o flat) \o tail
  BY <1>1, <1>2, <1>6, <1>7 DEF Encoding, Ending, Pieces
<1>9. PICK A \in Seq(Octet) : A = head \o area /\ Joined(A, head, area)
  BY Concatenated
<1>10. PICK B \in Seq(Octet) : B = A \o flat /\ Joined(B, A, flat)
  BY Concatenated
<1>11. PICK E \in Seq(Octet) : E = B \o tail /\ Joined(E, B, tail)
  BY Concatenated
<1>12. Encoding(s) = E
  BY <1>8, <1>9, <1>10, <1>11
<1>13. PICK a \in Nat : a = 4 + Len(area) /\ a = Len(A) /\ Len(area) \in Nat
  BY <1>2, <1>9 DEF Joined
<1>14. e[0] = 0 /\ Len(flat) = e[N] /\ \A m \in 0..N : e[m] <= e[N] /\ e[m] \in Nat
  <2>1. \A m \in 0..N : e[m] <= e[N]
    <3>1. N \in 0..N
      OBVIOUS
    <3> QED BY <1>4, <1>5, <3>1, MarksGrow
  <2>2. e[0] = 0 /\ Len(flat) = e[N]
    BY <1>4, <1>5, <1>6 DEF Marks, Joins
  <2> QED BY <2>1, <2>2
<1>15. \A m \in 0..N : StringEnd(s, m) = a + e[m]
  BY <1>1, <1>4, <1>13 DEF StringEnd
<1>16. Len(B) = a + e[N] /\ e[N] \in Nat
  BY <1>10, <1>13, <1>14 DEF Joined
<1>17. StringEnd(s, N) = Len(B) /\ StringEnd(s, 0) = 4 + Len(s.area)
  <2>1. 0 \in 0..N /\ N \in 0..N
    OBVIOUS
  <2> QED BY <1>1, <1>13, <1>14, <1>15, <1>16, <2>1
<1>18. \A m \in 0..N : StringEnd(s, m) \in 4 + Len(s.area) .. StringEnd(s, N)
  BY <1>1, <1>13, <1>14, <1>15, <1>16, <1>17
<1>19. \A p \in 1..a : E[p] = A[p]
  <2> SUFFICES ASSUME NEW p \in 1..a PROVE E[p] = A[p]
    OBVIOUS
  <2>1. p \in 1..Len(A) /\ p \in 1..Len(B)
    BY <1>13, <1>16
  <2> QED BY <1>10, <1>11, <2>1 DEF Joined
<1>20. HeaderShape(E, s)
  <2>1. E[1] = s.type /\ E[2] = 4 + Len(s.area)
    <3>1. 1 \in 1..Len(head) /\ 2 \in 1..Len(head) /\ 1 \in 1..a /\ 2 \in 1..a
      BY <1>2, <1>13
    <3>2. A[1] = head[1] /\ A[2] = head[2]
      BY <1>9, <3>1 DEF Joined
    <3> QED BY <1>1, <1>2, <1>19, <3>1, <3>2
  <2>2. ASSUME NEW p \in 1..Len(area) PROVE E[4 + p] = area[p]
    <3>1. 4 + p \in 1..a
      BY <1>13
    <3>2. A[4 + p] = area[p]
      BY <1>2, <1>9 DEF Joined
    <3> QED BY <1>19, <3>1, <3>2
  <2> QED BY <1>1, <2>1, <2>2 DEF HeaderShape
<1>21. \A p \in 1..Len(flat) : E[a + p] = flat[p]
  <2> SUFFICES ASSUME NEW p \in 1..Len(flat) PROVE E[a + p] = flat[p]
    OBVIOUS
  <2>1. PICK l \in Nat : l = Len(flat) /\ Len(B) = a + l
    BY <1>10, <1>13 DEF Joined
  <2>2. a + p \in 1..Len(B)
    BY <2>1
  <2>3. B[a + p] = flat[p]
    BY <1>10, <1>13 DEF Joined
  <2> QED BY <1>11, <2>2, <2>3 DEF Joined
<1>22. StringsAt(E, s)
  <2> SUFFICES ASSUME NEW m \in 1..N
               PROVE  /\ StringEnd(s, m) = StringEnd(s, m - 1) + Len(s.strings[m]) + 1
                      /\ \A p \in 1..Len(s.strings[m]) :
                           E[StringEnd(s, m - 1) + p] = s.strings[m][p]
                      /\ E[StringEnd(s, m)] = 0
    BY <1>3 DEF StringsAt
  <2>1. PICK L \in Nat : L = Len(s.strings[m])
    BY <1>3, StringsShape
  <2>2. PICK w \in Seq(Octet) : w = Pieces(s)[m]
    BY <1>5
  <2>3. PICK M \in Nat : M = L + 1
    OBVIOUS
  <2>4. Len(w) = M /\ w[M] = 0 /\ \A p \in 1..L : w[p] = s.strings[m][p]
    <3>1. /\ Len(Pieces(s)[m]) = Len(s.strings[m]) + 1
          /\ \A p \in 1..Len(s.strings[m]) : Pieces(s)[m][p] = s.strings[m][p]
          /\ Pieces(s)[m][Len(s.strings[m]) + 1] = 0
      BY <1>3, PiecesShape
    <3> QED BY <2>1, <2>2, <2>3, <3>1
  <2>5. PICK k \in 0..N : k = m - 1
    OBVIOUS
  <2>6. PICK x \in Nat : x = e[k] /\ e[m] = x + M
    <3>1. e[m] = e[m - 1] + Len(Pieces(s)[m])
      BY <1>4, <1>5 DEF Marks
    <3> QED BY <1>14, <2>2, <2>4, <2>5, <3>1
  <2>7. StringEnd(s, k) = a + x /\ StringEnd(s, m) = a + x + M
    BY <1>15, <2>5, <2>6
  <2>8. \A p \in 1..M : x + p \in 1..Len(flat) /\ flat[x + p] = w[p]
    <3>1. \A p \in 1..Len(Pieces(s)[m]) :
            e[m - 1] + p \in 1..Len(flat) /\ flat[e[m - 1] + p] = Pieces(s)[m][p]
      BY <1>5, <1>6 DEF Joins
    <3>2. e[m - 1] = x /\ Len(Pieces(s)[m]) = M
      BY <2>2, <2>4, <2>5, <2>6
    <3> QED BY <2>2, <3>1, <3>2
  <2>9. ASSUME NEW p \in 1..M PROVE E[a + x + p] = w[p]
    <3>1. PICK q \in 1..Len(flat) : q = x + p
      BY <2>8
    <3>2. a + q = a + x + p
      BY <3>1
    <3>3. flat[q] = w[p]
      BY <2>8, <3>1
    <3> QED BY <1>21, <3>2, <3>3
  <2>10. M \in 1..M /\ \A p \in 1..L : p \in 1..M
    BY <2>3
  <2>11. E[a + x + M] = 0
    BY <2>4, <2>9, <2>10
  <2>12. \A p \in 1..L : E[a + x + p] = s.strings[m][p]
    BY <2>4, <2>9, <2>10
  <2>13. StringEnd(s, m) = StringEnd(s, k) + L + 1
    BY <2>3, <2>7
  <2> QED BY <2>1, <2>5, <2>7, <2>11, <2>12, <2>13
<1>23. \A p \in 1..Len(tail) : E[StringEnd(s, N) + p] = 0
  BY <1>7, <1>11, <1>17 DEF Joined
<1>24. Len(E) = StringEnd(s, N) + Len(tail)
  BY <1>11, <1>17 DEF Joined
<1> QED BY <1>3, <1>7, <1>12, <1>17, <1>18, <1>20, <1>22, <1>23, <1>24 DEF Shape
-----------------------------------------------------------------------------
(* Lists of structures, and their tables. *)
ListOK(l) ==
  /\ Len(l) \in Nat /\ DOMAIN l = 1..Len(l)
  /\ \A n \in 1..Len(l) : WellFormed(l[n])

(* The bytes of a list of structures.                                       *)
LEMMA EncodedShape ==
  ASSUME NEW l, ListOK(l)
  PROVE  /\ Encoded(l) \in Seq(Seq(Octet)) /\ Len(Encoded(l)) = Len(l)
         /\ \A n \in 1..Len(l) : Encoded(l)[n] = Encoding(l[n])
         /\ Encodings(l) \in Seq(Octet)
         /\ Marks(Ends(Encoded(l)), Encoded(l))
         /\ Joins(Encodings(l), Ends(Encoded(l)), Encoded(l))
PROOF
<1>1. PICK N \in Nat : N = Len(l) /\ DOMAIN l = 1..N
  BY DEF ListOK
<1>2. \A n \in 1..N : Encoding(l[n]) \in Seq(Octet)
  BY <1>1, EncodingShape DEF ListOK, Shape
<1>3. Encoded(l) = [n \in 1..N |-> Encoding(l[n])]
  BY <1>1 DEF Encoded
<1>4. Encoded(l) \in [1..N -> Seq(Octet)]
  BY <1>2, <1>3
<1>5. Encoded(l) \in Seq(Seq(Octet)) /\ Len(Encoded(l)) = N
  BY <1>4, SeqDef
<1>6. Marks(Ends(Encoded(l)), Encoded(l))
  BY <1>5, EndsDef
<1>7. FlattenSeq(Encoded(l)) \in Seq(Octet) /\ Joins(FlattenSeq(Encoded(l)), Ends(Encoded(l)), Encoded(l))
  BY <1>5, <1>6, FlattenDef
<1>8. Encodings(l) = FlattenSeq(Encoded(l))
  BY DEF Encodings, Encoded
<1> QED BY <1>1, <1>3, <1>5, <1>6, <1>7, <1>8

(* A table starts with a prefix of what its list encodes to. *)
StructureEnd(l, n) == Ends(Encoded(l))[n]

TableOf(bytes, l, complete) ==
  /\ ListOK(l) /\ bytes \in Seq(Octet) /\ complete \in BOOLEAN
  /\ Len(bytes) <= StructureEnd(l, Len(l))
  /\ complete <=> Len(bytes) = StructureEnd(l, Len(l))
  /\ \A p \in 1..Len(bytes) : bytes[p] = Encodings(l)[p]

(* A table that is cut anywhere still starts as its structures do.          *)
LEMMA CutTable ==
  ASSUME NEW l, ListOK(l), NEW cut \in 0..Len(Encodings(l)), NEW bytes,
         bytes = SubSeq(Encodings(l), 1, cut)
  PROVE  TableOf(bytes, l, cut = Len(Encodings(l)))
PROOF
<1>1. PICK whole_table \in Seq(Octet) : whole_table = Encodings(l)
  BY EncodedShape
<1>2. PICK total \in Nat : total = Len(whole_table)
  BY LenProperties
<1>3. total = StructureEnd(l, Len(l))
  BY <1>1, <1>2, EncodedShape DEF Joins, StructureEnd
<1>4. cut \in 0..total
  BY <1>1, <1>2
<1>5. \A p \in 1..cut : whole_table[p] \in Octet
  <2>1. \A p \in 1..total : whole_table[p] \in Octet
    BY <1>2, ElementOfSeq
  <2> QED BY <1>4, <2>1
<1>6. /\ bytes \in Seq(Octet) /\ Len(bytes) = cut
      /\ \A p \in 1..cut : bytes[p] = whole_table[p]
  <2>1. PICK b : b = SubSeq(whole_table, 1, cut)
    OBVIOUS
  <2>2. /\ b \in Seq(Octet) /\ Len(b) = IF 1 <= cut THEN cut - 1 + 1 ELSE 0
        /\ \A p \in 1 .. cut - 1 + 1 : b[p] = whole_table[1 + p - 1]
    <3>1. 1 \in Int /\ cut \in Int
      BY <1>4
    <3> QED BY <1>5, <2>1, <3>1, SubSeqProperties
  <2>3. (IF 1 <= cut THEN cut - 1 + 1 ELSE 0) = cut /\ cut - 1 + 1 = cut
        /\ \A p \in 1..cut : 1 + p - 1 = p
    BY <1>4
  <2>4. Len(b) = cut /\ \A p \in 1..cut : b[p] = whole_table[p]
    BY <2>2, <2>3
  <2> QED BY <1>1, <2>1, <2>2, <2>4
<1> QED BY <1>1, <1>2, <1>3, <1>4, <1>6 DEF TableOf

(* A whole one. *)
LEMMA WholeTable ==
  ASSUME NEW l, ListOK(l)
  PROVE  TableOf(Encodings(l), l, TRUE)
PROOF
<1>1. PICK bytes \in Seq(Octet) : bytes = Encodings(l)
  BY EncodedShape
<1>2. Len(bytes) \in Nat
  BY LenProperties
<1>3. Len(bytes) = StructureEnd(l, Len(l))
  BY <1>1, EncodedShape DEF Joins, StructureEnd
<1>4. Len(bytes) <= StructureEnd(l, Len(l))
  BY <1>2, <1>3
<1> QED BY <1>1, <1>3, <1>4 DEF TableOf

(* The bytes of the n-th structure, as far as the table goes. *)
LEMMA BytesOf ==
  ASSUME NEW bytes, NEW l, NEW complete, TableOf(bytes, l, complete), NEW n \in 1..Len(l)
  PROVE  /\ StructureEnd(l, n - 1) \in Nat /\ StructureEnd(l, n) \in Nat
         /\ StructureEnd(l, n) = StructureEnd(l, n - 1) + Len(Encoding(l[n]))
         /\ StructureEnd(l, n) <= StructureEnd(l, Len(l))
         /\ StructureEnd(l, Len(l)) \in Nat /\ Len(bytes) \in Nat
         /\ \A p \in 1..Len(Encoding(l[n])) :
              StructureEnd(l, n - 1) + p <= Len(bytes) =>
                bytes[StructureEnd(l, n - 1) + p] = Encoding(l[n])[p]
PROOF
<1>1. ListOK(l)
  BY DEF TableOf
<1>2. PICK N \in Nat : N = Len(l)
  BY <1>1 DEF ListOK
<1>3. PICK E \in Seq(Octet) : E = Encoding(l[n]) /\ Encoded(l)[n] = E
  BY <1>1, EncodedShape, EncodingShape DEF ListOK, Shape
<1>4. PICK size \in Nat : size = Len(bytes)
  BY LenProperties DEF TableOf
<1>5. PICK k \in 0..N : k = n - 1
  BY <1>2
<1>6. PICK e \in [0..N -> Nat] : e = Ends(Encoded(l)) /\ Marks(e, Encoded(l))
  <2>1. Marks(Ends(Encoded(l)), Encoded(l)) /\ Len(Encoded(l)) = N
    BY <1>1, <1>2, EncodedShape
  <2>2. Ends(Encoded(l)) \in [0..N -> Nat]
    BY <2>1 DEF Marks
  <2> QED BY <2>1, <2>2
<1>7. e[n] = e[k] + Len(E) /\ e[k] \in Nat /\ e[n] \in Nat /\ e[N] \in Nat
  <2>1. Len(Encoded(l)) = N
    BY <1>1, <1>2, EncodedShape
  <2>2. e[n] = e[n - 1] + Len(Encoded(l)[n])
    BY <1>2, <1>6, <2>1 DEF Marks
  <2>3. n \in 0..N /\ N \in 0..N
    BY <1>2
  <2> QED BY <1>3, <1>5, <2>2, <2>3
<1>8. e[n] <= e[N]
  <2>1. Encoded(l) \in Seq(Seq(Octet)) /\ Len(Encoded(l)) = N
    BY <1>1, <1>2, EncodedShape
  <2>2. N \in 0..N /\ n \in 0..N
    BY <1>2
  <2> QED BY <1>6, <2>1, <2>2, MarksGrow
<1>9. ASSUME NEW p \in 1..Len(E), e[k] + p <= size
      PROVE  bytes[e[k] + p] = E[p]
  <2>1. Len(Encoded(l)) = N /\ Joins(Encodings(l), e, Encoded(l))
    BY <1>1, <1>2, <1>6, EncodedShape
  <2>2. Encodings(l)[e[k] + p] = E[p]
    BY <1>2, <1>3, <1>5, <2>1 DEF Joins
  <2>3. PICK q \in 1..size : q = e[k] + p
    BY <1>7, <1>9
  <2>4. bytes[q] = Encodings(l)[q]
    BY <1>4 DEF TableOf
  <2> QED BY <2>2, <2>3, <2>4
<1>10. StructureEnd(l, n - 1) = e[k] /\ StructureEnd(l, n) = e[n] /\ StructureEnd(l, Len(l)) = e[N]
  BY <1>2, <1>5, <1>6 DEF StructureEnd
<1> QED BY <1>3, <1>4, <1>7, <1>8, <1>9, <1>10
-----------------------------------------------------------------------------
(* A structure s lies in the table from the offset o on.                    *)
Placed(bytes, s, o) ==
  \A p \in 1..Len(Encoding(s)) : o + p <= Len(bytes) => bytes[o + p] = Encoding(s)[p]

(* Its header and its formatted area, of a bytes.                           *)
HeaderAt(bytes, s, o, a, len) ==
  /\ a = Len(s.area) /\ StringEnd(s, 0) = 4 + a
  /\ len = Len(Encoding(s)) /\ 4 + a < len
  /\ o + 4 <= Len(bytes) => bytes[o + 1] = s.type /\ bytes[o + 2] = 4 + a
  /\ \A p \in 1..a : o + 4 + p <= Len(bytes) => bytes[o + 4 + p] = s.area[p]

(* They are there. *)
LEMMA HeaderPlaced ==
  ASSUME NEW bytes \in Seq(Octet), NEW s, WellFormed(s), NEW o \in Nat, Placed(bytes, s, o)
  PROVE  \E a, len \in Nat : HeaderAt(bytes, s, o, a, len)
PROOF
<1>1. PICK a \in Nat : a = Len(s.area)
  BY LenProperties DEF WellFormed
<1>2. PICK z \in Nat : z = Len(bytes)
  BY LenProperties
<1>3. PICK E \in Seq(Octet) : E = Encoding(s) /\ Shape(E, s)
  BY EncodingShape DEF Shape
<1>4. PICK N \in Nat : N = Len(s.strings)
  BY StringsShape
<1>5. PICK end \in Nat : end = StringEnd(s, N) /\ 4 + a <= end
  <2>1. N \in 0..N
    OBVIOUS
  <2>2. StringEnd(s, N) \in 4 + a .. StringEnd(s, N)
    BY <1>1, <1>3, <1>4, <2>1 DEF Shape
  <2> QED BY <2>2
<1>6. PICK h \in Nat \ {0} : h = Len(Ending(s))
  BY DEF Ending
<1>7. PICK L \in Nat : L = Len(E) /\ L = end + h
  BY <1>3, <1>4, <1>5, <1>6 DEF Shape
<1>8. StringEnd(s, 0) = 4 + a
  BY <1>1, <1>3 DEF Shape
<1>9. \A p \in 1..L : o + p <= z => bytes[o + p] = E[p]
  BY <1>2, <1>3, <1>7 DEF Placed
<1>10. E[1] = s.type /\ E[2] = 4 + a /\ \A p \in 1..a : E[4 + p] = s.area[p]
  BY <1>1, <1>3 DEF Shape, HeaderShape
<1>11. o + 4 <= z => bytes[o + 1] = s.type /\ bytes[o + 2] = 4 + a
  <2>1. 1 \in 1..L /\ 2 \in 1..L
    BY <1>5, <1>6, <1>7
  <2>2. o + 4 <= z => o + 1 <= z /\ o + 2 <= z
    OBVIOUS
  <2> QED BY <1>9, <1>10, <2>1, <2>2
<1>12. ASSUME NEW p \in 1..a, o + 4 + p <= z PROVE bytes[o + 4 + p] = s.area[p]
  <2>1. PICK q \in 1..L : q = 4 + p
    BY <1>5, <1>6, <1>7
  <2>2. o + q <= z /\ o + q = o + 4 + p
    BY <1>12, <2>1
  <2>3. bytes[o + q] = E[q] /\ E[q] = s.area[p]
    BY <1>9, <1>10, <2>1, <2>2
  <2> QED BY <2>2, <2>3
<1>13. 4 + a < L
  BY <1>5, <1>6, <1>7
<1>14. HeaderAt(bytes, s, o, a, L)
  BY <1>1, <1>2, <1>3, <1>7, <1>8, <1>11, <1>12, <1>13 DEF HeaderAt
<1> QED BY <1>14

(* The string after the m-th, which starts at a.                            *)
NextAt(bytes, s, o, m, a, L, v) ==
  /\ v = s.strings[m + 1] /\ L = Len(v) /\ L # 0
  /\ a = o + StringEnd(s, m) /\ a + L + 1 = o + StringEnd(s, m + 1)
  /\ a + L + 1 < o + Len(Encoding(s))
  /\ \A p \in 1..L : a + p <= Len(bytes) => bytes[a + p] = v[p] /\ v[p] # 0
  /\ a + L + 1 <= Len(bytes) => bytes[a + L + 1] = 0

(* At a string that is not the last: what its bytes are.                    *)
LEMMA NextString ==
  ASSUME NEW bytes \in Seq(Octet), NEW s, WellFormed(s), NEW o \in Nat, Placed(bytes, s, o),
         NEW m \in Nat, m < Len(s.strings)
  PROVE  \E a, L \in Nat, v \in Seq(Octet) : NextAt(bytes, s, o, m, a, L, v)
PROOF
<1>1. PICK N \in Nat : N = Len(s.strings)
  BY StringsShape
<1>2. PICK n \in 1..N : n = m + 1 /\ n - 1 = m
  BY <1>1
<1>3. PICK z \in Nat : z = Len(bytes)
  BY LenProperties
<1>4. PICK E \in Seq(Octet) : E = Encoding(s) /\ Shape(E, s)
  BY EncodingShape DEF Shape
<1>5. PICK v \in Seq(Octet) : v = s.strings[n]
  BY <1>1, StringsShape
<1>6. PICK L \in Nat \ {0} : L = Len(v) /\ \A p \in 1..L : v[p] # 0
  <2>1. Len(v) \in Nat \ {0} /\ \A p \in 1..Len(v) : v[p] # 0
    BY <1>1, <1>5, StringsShape
  <2> QED BY <2>1
<1>7. PICK c \in Nat : c = StringEnd(s, m) /\ StringEnd(s, n) = c + L + 1
  <2>1. StringEnd(s, m) \in 4 + Len(s.area) .. StringEnd(s, N) /\ Len(s.area) \in Nat
    <3>1. m \in 0..N
      BY <1>1
    <3> QED BY <1>1, <1>4, <3>1, LenProperties DEF Shape, WellFormed
  <2>2. StringEnd(s, n) = StringEnd(s, n - 1) + Len(s.strings[n]) + 1
    BY <1>1, <1>4 DEF Shape, StringsAt
  <2>3. PICK d \in Nat : d = StringEnd(s, m) /\ StringEnd(s, n - 1) = d
    BY <1>2, <2>1
  <2>4. StringEnd(s, n) = d + L + 1
    BY <1>5, <1>6, <2>2, <2>3
  <2> QED BY <2>3, <2>4
<1>8. PICK len \in Nat : len = Len(E) /\ c + L + 1 < len
  <2>1. PICK end \in Nat : end = StringEnd(s, N) /\ c + L + 1 <= end
    <3>1. n \in 0..N /\ N \in 0..N
      BY <1>1
    <3>2. StringEnd(s, n) \in 4 + Len(s.area) .. StringEnd(s, N) /\ Len(s.area) \in Nat
          /\ StringEnd(s, N) \in 4 + Len(s.area) .. StringEnd(s, N)
      BY <1>1, <1>4, <3>1, LenProperties DEF Shape, WellFormed
    <3> QED BY <1>7, <3>2
  <2>2. PICK h \in Nat \ {0} : h = Len(Ending(s))
    BY DEF Ending
  <2>3. Len(E) = end + h
    BY <1>1, <1>4, <2>1, <2>2 DEF Shape
  <2> QED BY <2>1, <2>3
<1>9. \A p \in 1..len : o + p <= z => bytes[o + p] = E[p]
  BY <1>3, <1>4, <1>8 DEF Placed
<1>10. (\A p \in 1..L : E[c + p] = v[p]) /\ E[c + L + 1] = 0
  <2>1. /\ \A p \in 1..Len(s.strings[n]) : E[StringEnd(s, n - 1) + p] = s.strings[n][p]
        /\ E[StringEnd(s, n)] = 0
    BY <1>1, <1>4 DEF Shape, StringsAt
  <2>2. StringEnd(s, n - 1) = c
    BY <1>2, <1>7
  <2>3. \A p \in 1..L : E[c + p] = v[p]
    BY <1>5, <1>6, <2>1, <2>2
  <2>4. PICK q \in Nat : q = c + L + 1
    OBVIOUS
  <2>5. E[q] = 0
    BY <1>7, <2>1, <2>4
  <2> QED BY <2>3, <2>4, <2>5
<1>11. PICK a \in Nat : a = o + c
  OBVIOUS
<1>12. ASSUME NEW p \in 1..L, a + p <= z PROVE bytes[a + p] = v[p]
  <2>1. PICK q \in 1..len : q = c + p
    BY <1>8
  <2>2. o + q = a + p
    BY <1>11, <2>1
  <2> QED BY <1>9, <1>10, <1>12, <2>1, <2>2
<1>13. ASSUME a + L + 1 <= z PROVE bytes[a + L + 1] = 0
  <2>1. PICK q \in 1..len : q = c + L + 1
    BY <1>8
  <2>2. o + q = a + L + 1
    BY <1>11, <2>1
  <2> QED BY <1>9, <1>10, <1>13, <2>1, <2>2
<1>14. /\ a = o + StringEnd(s, m) /\ a + L + 1 = o + StringEnd(s, m + 1)
       /\ a + L + 1 < o + Len(Encoding(s))
  <2>1. StringEnd(s, m) = c /\ StringEnd(s, m + 1) = c + L + 1
    BY <1>2, <1>7
  <2>2. Len(Encoding(s)) = len
    BY <1>4, <1>8
  <2>3. a + L + 1 = o + (c + L + 1) /\ o + (c + L + 1) < o + len
    BY <1>8, <1>11
  <2> QED BY <1>11, <2>1, <2>2, <2>3
<1>15. v = s.strings[m + 1]
  BY <1>2, <1>5
<1>16. NextAt(bytes, s, o, m, a, L, v)
  BY <1>3, <1>6, <1>12, <1>13, <1>14, <1>15 DEF NextAt
<1> QED BY <1>16

(* What follows the last one. *)
LastAt(bytes, s, o, a) ==
  /\ a = o + StringEnd(s, Len(s.strings))
  /\ a + 1 <= Len(bytes) => bytes[a + 1] = 0
  /\ s.strings # <<>> => o + Len(Encoding(s)) = a + 1
  /\ s.strings = <<>> => /\ o + Len(Encoding(s)) = a + 2
                         /\ a + 2 <= Len(bytes) => bytes[a + 2] = 0

(* After the last string: a NUL where a string would start.                 *)
LEMMA LastString ==
  ASSUME NEW bytes \in Seq(Octet), NEW s, WellFormed(s), NEW o \in Nat, Placed(bytes, s, o)
  PROVE  \E a \in Nat : LastAt(bytes, s, o, a)
PROOF
<1>1. PICK N \in Nat : N = Len(s.strings)
  BY StringsShape
<1>2. PICK z \in Nat : z = Len(bytes)
  BY LenProperties
<1>3. PICK E \in Seq(Octet) : E = Encoding(s) /\ Shape(E, s)
  BY EncodingShape DEF Shape
<1>4. PICK c \in Nat : c = StringEnd(s, N)
  <2>1. StringEnd(s, N) \in 4 + Len(s.area) .. StringEnd(s, N) /\ Len(s.area) \in Nat
    <3>1. N \in 0..N
      OBVIOUS
    <3> QED BY <1>1, <1>3, <3>1, LenProperties DEF Shape, WellFormed
  <2> QED BY <2>1
<1>5. PICK h \in Nat \ {0} : /\ h = Len(Ending(s)) /\ (s.strings = <<>> => h = 2)
                             /\ (s.strings # <<>> => h = 1)
  BY DEF Ending
<1>6. PICK len \in Nat : len = Len(E) /\ len = c + h
  BY <1>1, <1>3, <1>4, <1>5 DEF Shape
<1>7. \A p \in 1..len : o + p <= z => bytes[o + p] = E[p]
  BY <1>2, <1>3, <1>6 DEF Placed
<1>8. \A p \in 1..h : E[c + p] = 0
  BY <1>1, <1>3, <1>4, <1>5 DEF Shape
<1>9. PICK a \in Nat : a = o + c
  OBVIOUS
<1>10. ASSUME NEW p \in 1..h, a + p <= z PROVE bytes[a + p] = 0
  <2>1. PICK q \in 1..len : q = c + p
    BY <1>6
  <2>2. o + q = a + p
    BY <1>9, <2>1
  <2> QED BY <1>7, <1>8, <1>10, <2>1, <2>2
<1>11. a + 1 <= z => bytes[a + 1] = 0
  <2>1. 1 \in 1..h
    OBVIOUS
  <2> QED BY <1>10, <2>1
<1>12. s.strings = <<>> /\ a + 2 <= z => bytes[a + 2] = 0
  <2>1. h = 2 => 2 \in 1..h
    OBVIOUS
  <2> QED BY <1>5, <1>10, <2>1
<1>13. /\ s.strings # <<>> => o + len = a + 1
       /\ s.strings = <<>> => o + len = a + 2
  <2>1. h = 1 => o + len = a + 1
    BY <1>6, <1>9
  <2>2. h = 2 => o + len = a + 2
    BY <1>6, <1>9
  <2> QED BY <1>5, <2>1, <2>2
<1>14. LastAt(bytes, s, o, a)
  BY <1>1, <1>2, <1>3, <1>4, <1>6, <1>9, <1>11, <1>12, <1>13 DEF LastAt
<1> QED BY <1>14
-----------------------------------------------------------------------------
(* The walk has read m strings of s and stands at q.                        *)
HasRead(bytes, s, o, q, m) ==
  /\ m \in Nat /\ m <= Len(s.strings) /\ q = o + StringEnd(s, m)
  /\ m = Len(s.strings) /\ m # 0 => q = Len(bytes)

(* There is a string to read: it is the next one, and after it there are    *)
(* more unless a second NUL follows.                                        *)
LEMMA OneMoreString ==
  ASSUME NEW bytes \in Seq(Octet), NEW s, WellFormed(s), NEW o \in Nat, Placed(bytes, s, o),
         NEW q \in Nat, NEW m, HasRead(bytes, s, o, q, m),
         NEW e \in Nat, q <= e, e < Len(bytes), bytes[e + 1] = 0, bytes[q + 1] # 0,
         \A p \in q .. e - 1 : bytes[p + 1] # 0
  PROVE  /\ m < Len(s.strings) /\ SubSeq(bytes, q + 1, e) = s.strings[m + 1]
         /\ e + 1 < Len(bytes) /\ bytes[e + 2] = 0 =>
              m + 1 = Len(s.strings) /\ e + 2 = o + Len(Encoding(s))
         /\ ~(e + 1 < Len(bytes) /\ bytes[e + 2] = 0) =>
              HasRead(bytes, s, o, e + 1, m + 1)
PROOF
<1>1. PICK N \in Nat : N = Len(s.strings) /\ m \in 0..N
  <2>1. PICK N \in Nat : N = Len(s.strings)
    BY StringsShape
  <2>2. m \in 0..N
    BY <2>1 DEF HasRead
  <2> QED BY <2>1, <2>2
<1>2. PICK z \in Nat : z = Len(bytes)
  BY LenProperties
<1>3. m < N
  <2> SUFFICES ASSUME m = N PROVE FALSE
    BY <1>1
  <2>1. PICK a \in Nat : LastAt(bytes, s, o, a)
    BY LastString
  <2>2. a = q
    BY <1>1, <2>1 DEF LastAt, HasRead
  <2>3. q + 1 <= z
    BY <1>2
  <2> QED BY <1>2, <2>1, <2>2, <2>3 DEF LastAt
<1>4. PICK a, L \in Nat, v \in Seq(Octet) : NextAt(bytes, s, o, m, a, L, v)
  BY <1>1, <1>3, NextString
<1>5. /\ v = s.strings[m + 1] /\ L = Len(v) /\ L # 0 /\ a = q
      /\ a + L + 1 = o + StringEnd(s, m + 1)
      /\ \A p \in 1..L : a + p <= z => bytes[a + p] = v[p] /\ v[p] # 0
      /\ a + L + 1 <= z => bytes[a + L + 1] = 0
  BY <1>2, <1>4 DEF NextAt, HasRead
<1>6. e = a + L
  <2>1. ~(e < a + L)
    <3> SUFFICES ASSUME e < a + L PROVE FALSE
      OBVIOUS
    <3>1. PICK p \in 1..L : p = e - a + 1
      BY <1>5
    <3>2. a + p = e + 1 /\ a + p <= z
      BY <1>2, <3>1
    <3> QED BY <1>5, <3>1, <3>2
  <2>2. ~(a + L < e)
    <3> SUFFICES ASSUME a + L < e PROVE FALSE
      OBVIOUS
    <3>1. PICK p \in q .. e - 1 : p = a + L
      BY <1>5
    <3>2. p + 1 = a + L + 1 /\ a + L + 1 <= z
      BY <1>2, <3>1
    <3> QED BY <1>5, <3>1, <3>2
  <2> QED BY <2>1, <2>2
<1>7. SubSeq(bytes, q + 1, e) = v
  <2>1. PICK f, t \in Nat : f = q + 1 /\ t = e
    OBVIOUS
  <2>2. \A p \in f..t : bytes[p] \in Octet
    <3>1. \A p \in 1..z : bytes[p] \in Octet
      BY <1>2, ElementOfSeq
    <3> QED BY <1>2, <2>1, <3>1
  <2>3. PICK w : w = SubSeq(bytes, f, t)
    OBVIOUS
  <2>4. /\ w \in Seq(Octet) /\ Len(w) = IF f <= t THEN t - f + 1 ELSE 0
        /\ \A p \in 1 .. t - f + 1 : w[p] = bytes[f + p - 1]
    BY <2>2, <2>3, SubSeqProperties
  <2>5. t - f + 1 = L /\ f <= t
    BY <1>5, <1>6, <2>1
  <2>6. Len(w) = L
    BY <2>4, <2>5
  <2>7. ASSUME NEW p \in 1..L PROVE w[p] = v[p]
    <3>1. w[p] = bytes[f + p - 1]
      BY <2>4, <2>5
    <3>2. f + p - 1 = a + p /\ a + p <= z
      BY <1>2, <1>5, <1>6, <2>1
    <3> QED BY <1>5, <3>1, <3>2
  <2>8. w = v
    BY <1>5, <2>4, <2>6, <2>7, SeqEqual
  <2> QED BY <2>1, <2>3, <2>8
<1>8. e + 1 = o + StringEnd(s, m + 1)
  BY <1>5, <1>6
<1>9. CASE m + 1 = N
  <2>1. PICK b \in Nat : LastAt(bytes, s, o, b)
    BY LastString
  <2>2. b = e + 1
    BY <1>1, <1>8, <1>9, <2>1 DEF LastAt
  <2>3. s.strings # <<>>
    BY <1>1, <1>9
  <2>4. b + 1 = o + Len(Encoding(s)) /\ (b + 1 <= z => bytes[b + 1] = 0)
    BY <1>2, <2>1, <2>3 DEF LastAt
  <2>5. e + 2 = o + Len(Encoding(s)) /\ (e + 2 <= z => bytes[e + 2] = 0)
    BY <2>2, <2>4
  <2>6. ~(e + 1 < z /\ bytes[e + 2] = 0) => e + 1 = z
    BY <1>2, <2>5
  <2>7. m + 1 \in Nat /\ m + 1 <= N
    BY <1>9
  <2>8. ~(e + 1 < z /\ bytes[e + 2] = 0) => HasRead(bytes, s, o, e + 1, m + 1)
    BY <1>1, <1>2, <1>8, <2>6, <2>7 DEF HasRead
  <2>9. m < N /\ SubSeq(bytes, q + 1, e) = s.strings[m + 1]
    BY <1>3, <1>5, <1>7
  <2> QED BY <1>1, <1>2, <1>9, <2>5, <2>8, <2>9
<1>10. CASE m + 1 # N
  <2>1. PICK n \in Nat : n = m + 1 /\ n < N
    BY <1>1, <1>3, <1>10
  <2>2. PICK b, K \in Nat, u \in Seq(Octet) : NextAt(bytes, s, o, n, b, K, u)
    BY <1>1, <2>1, NextString
  <2>3. /\ b = e + 1 /\ K # 0
        /\ \A p \in 1..K : b + p <= z => bytes[b + p] = u[p] /\ u[p] # 0
    BY <1>2, <1>8, <2>1, <2>2 DEF NextAt
  <2>4. ~(e + 1 < z /\ bytes[e + 2] = 0)
    <3>1. 1 \in 1..K /\ b + 1 = e + 2
      BY <2>3
    <3>2. e + 1 < z => b + 1 <= z
      BY <3>1
    <3> QED BY <2>3, <3>1, <3>2
  <2>5. HasRead(bytes, s, o, e + 1, m + 1)
    BY <1>1, <1>8, <2>1 DEF HasRead
  <2>6. m < N /\ SubSeq(bytes, q + 1, e) = s.strings[m + 1]
    BY <1>3, <1>5, <1>7
  <2> QED BY <1>1, <1>2, <2>4, <2>5, <2>6
<1> QED BY <1>9, <1>10

(* There is no NUL any more: the table is cut. *)
LEMMA NoMoreString ==
  ASSUME NEW bytes \in Seq(Octet), NEW s, WellFormed(s), NEW o \in Nat, Placed(bytes, s, o),
         NEW q \in Nat, NEW m, HasRead(bytes, s, o, q, m), q <= Len(bytes),
         \A p \in q .. Len(bytes) - 1 : bytes[p + 1] # 0
  PROVE  Len(bytes) < o + Len(Encoding(s))
PROOF
<1>1. PICK N \in Nat : N = Len(s.strings) /\ m \in 0..N
  <2>1. PICK N \in Nat : N = Len(s.strings)
    BY StringsShape
  <2>2. m \in 0..N
    BY <2>1 DEF HasRead
  <2> QED BY <2>1, <2>2
<1>2. PICK z \in Nat : z = Len(bytes)
  BY LenProperties
<1>3. CASE m = N
  <2>1. PICK a \in Nat : LastAt(bytes, s, o, a)
    BY LastString
  <2>2. a = q
    BY <1>1, <1>3, <2>1 DEF LastAt, HasRead
  <2>3. ~(q < z)
    <3> SUFFICES ASSUME q < z PROVE FALSE
      OBVIOUS
    <3>1. q \in q .. z - 1 /\ q + 1 <= z
      BY <1>2
    <3> QED BY <1>2, <2>1, <2>2, <3>1 DEF LastAt
  <2>4. a + 1 = o + Len(Encoding(s)) \/ a + 2 = o + Len(Encoding(s))
    BY <2>1 DEF LastAt
  <2> QED BY <1>2, <2>2, <2>3, <2>4
<1>4. CASE m # N
  <2>1. PICK a, L \in Nat, v \in Seq(Octet) : NextAt(bytes, s, o, m, a, L, v)
    BY <1>1, <1>4, NextString
  <2>2. a = q /\ (a + L + 1 <= z => bytes[a + L + 1] = 0) /\ a + L + 1 < o + Len(Encoding(s))
    BY <1>2, <2>1 DEF NextAt, HasRead
  <2>3. PICK len \in Nat : len = Len(Encoding(s))
    BY HeaderPlaced DEF HeaderAt
  <2>4. ~(a + L + 1 <= z)
    <3> SUFFICES ASSUME a + L + 1 <= z PROVE FALSE
      OBVIOUS
    <3>1. PICK p \in q .. z - 1 : p = a + L
      BY <2>2
    <3>2. p + 1 = a + L + 1
      BY <3>1
    <3> QED BY <1>2, <2>2, <3>1, <3>2
  <2> QED BY <1>2, <2>2, <2>3, <2>4
<1> QED BY <1>3, <1>4

(* The m strings of s are read at q, and the structure ends after two NULs, *)
(* or the table is cut between them.                                        *)
EndsEmpty(bytes, s, o, q, m) ==
  /\ m = Len(s.strings)
  /\ q + 1 < Len(bytes) /\ bytes[q + 2] = 0 => q + 2 = o + Len(Encoding(s))
  /\ ~(q + 1 < Len(bytes) /\ bytes[q + 2] = 0) =>
       q + 1 = Len(bytes) /\ Len(bytes) < o + Len(Encoding(s))

(* A NUL where a string would start: there is none. *)
LEMMA NoStringAtAll ==
  ASSUME NEW bytes \in Seq(Octet), NEW s, WellFormed(s), NEW o \in Nat, Placed(bytes, s, o),
         NEW q \in Nat, NEW m, HasRead(bytes, s, o, q, m), q < Len(bytes), bytes[q + 1] = 0
  PROVE  EndsEmpty(bytes, s, o, q, m)
PROOF
<1>1. PICK N \in Nat : N = Len(s.strings) /\ m \in 0..N
  <2>1. PICK N \in Nat : N = Len(s.strings)
    BY StringsShape
  <2>2. m \in 0..N
    BY <2>1 DEF HasRead
  <2> QED BY <2>1, <2>2
<1>2. PICK z \in Nat : z = Len(bytes)
  BY LenProperties
<1>3. m = N
  <2> SUFFICES ASSUME m # N PROVE FALSE
    OBVIOUS
  <2>1. PICK a, L \in Nat, v \in Seq(Octet) : NextAt(bytes, s, o, m, a, L, v)
    BY <1>1, NextString
  <2>2. a = q /\ L # 0 /\ \A p \in 1..L : a + p <= z => bytes[a + p] = v[p] /\ v[p] # 0
    BY <1>2, <2>1 DEF NextAt, HasRead
  <2>3. 1 \in 1..L /\ a + 1 <= z
    BY <1>2, <2>2
  <2> QED BY <2>2, <2>3
<1>4. N = 0 /\ s.strings = <<>>
  <2>1. N = 0
    BY <1>1, <1>2, <1>3 DEF HasRead
  <2>2. s.strings \in Seq(Seq(Octet \ {0}))
    BY DEF WellFormed
  <2> QED BY <1>1, <2>1, <2>2, EmptySeq
<1>5. PICK a \in Nat : LastAt(bytes, s, o, a)
  BY LastString
<1>6. a = q /\ a + 2 = o + Len(Encoding(s)) /\ (a + 2 <= z => bytes[a + 2] = 0)
  BY <1>1, <1>2, <1>3, <1>4, <1>5 DEF LastAt, HasRead
<1>7. ~(q + 1 < z /\ bytes[q + 2] = 0) => q + 1 = z /\ z < o + Len(Encoding(s))
  BY <1>2, <1>6
<1>8. q + 1 < z /\ bytes[q + 2] = 0 => q + 2 = o + Len(Encoding(s))
  BY <1>6
<1> QED BY <1>1, <1>2, <1>3, <1>7, <1>8 DEF EndsEmpty
-----------------------------------------------------------------------------
(* The serial numbers of a list, structure by structure. *)
SerialOf(s) == s.strings[s.area[TYPE17_SERIAL_OFFSET - 3]]

SerialMarks(u, l) ==
  /\ u \in [0 .. Len(l) -> Seq(Seq(Octet))] /\ u[0] = <<>>
  /\ \A n \in 1..Len(l) :
       u[n] = IF Counts(l, n) THEN Append(u[n - 1], SerialOf(l[n])) ELSE u[n - 1]

(* Serials, structure by structure.                                         *)
LEMMA SerialsDef ==
  ASSUME NEW l, ListOK(l)
  PROVE  SerialMarks(SerialsUpTo(l), l)
PROOF
<1> DEFINE N == Len(l)
           V == Seq(Seq(Octet))
           base == <<>>
           G == [n \in 1..N |-> [v \in V |-> IF Counts(l, n) THEN Append(v, SerialOf(l[n])) ELSE v]]
           Rec(f) == [n \in 0..N |-> IF n = 0 THEN <<>>
                                     ELSE IF Counts(l, n) THEN Append(f[n - 1], SerialOf(l[n]))
                                     ELSE f[n - 1]]
<1>1. N \in Nat /\ base \in V
  BY DEF ListOK
<1>2. ASSUME NEW n \in 1..N, Counts(l, n) PROVE SerialOf(l[n]) \in Seq(Octet)
  <2>1. WellFormed(l[n]) /\ l[n].area[TYPE17_SERIAL_OFFSET - 3] \in DOMAIN l[n].strings
    BY <1>2 DEF ListOK, Counts, HasSerial
  <2>2. DOMAIN l[n].strings = 1..Len(l[n].strings)
    BY <2>1, LenProperties DEF WellFormed
  <2> QED BY <2>1, <2>2, StringsShape DEF SerialOf
<1>3. G \in [1..N -> [V -> V]]
  <2> SUFFICES ASSUME NEW n \in 1..N, NEW v \in V
               PROVE  (IF Counts(l, n) THEN Append(v, SerialOf(l[n])) ELSE v) \in V
    OBVIOUS
  <2>1. CASE Counts(l, n)
    <3>1. SerialOf(l[n]) \in Seq(Octet)
      BY <1>2, <2>1
    <3> QED BY <2>1, <3>1, AppendProperties
  <2>2. CASE ~Counts(l, n)
    BY <2>2
  <2> QED BY <2>1, <2>2
<1>4. PICK f \in [0..N -> V] : Recurs(f, base, G, N)
  <2> HIDE DEF G, N, V, base
  <2> QED BY <1>1, <1>3, Recursion
<1>5. /\ f \in [0..N -> V] /\ f[0] = base
      /\ \A n \in 1..N : f[n] = G[n][f[n - 1]]
  BY <1>4 DEF Recurs
<1>6. \A n \in 1..N : f[n] = IF Counts(l, n) THEN Append(f[n - 1], SerialOf(l[n])) ELSE f[n - 1]
  <2> SUFFICES ASSUME NEW n \in 1..N
               PROVE  f[n] = IF Counts(l, n) THEN Append(f[n - 1], SerialOf(l[n])) ELSE f[n - 1]
    OBVIOUS
  <2>1. PICK m \in 0..N : m = n - 1
    BY <1>1
  <2>2. f[n] = G[n][f[m]] /\ f[m] \in V
    <3> HIDE DEF G, V, N
    <3> QED BY <1>5, <2>1
  <2>3. G[n] = [v \in V |-> IF Counts(l, n) THEN Append(v, SerialOf(l[n])) ELSE v]
    OBVIOUS
  <2> HIDE DEF G, V
  <2> QED BY <2>1, <2>2, <2>3
<1>7. f = Rec(f)
  <2>1. \A n \in 0..N : n # 0 => n \in 1..N
    BY <1>1
  <2> HIDE DEF G, V, N
  <2>2. \A n \in 0..N : f[n] = Rec(f)[n]
    BY <1>5, <1>6, <2>1
  <2>3. f = [n \in 0..N |-> f[n]]
    BY <1>5
  <2> QED BY <2>2, <2>3
<1> DEFINE u == CHOOSE h : h = Rec(h)
<1>8. u = Rec(u)
  <2> HIDE DEF Rec
  <2> QED BY <1>7
<1> HIDE DEF u
<1>9. /\ u = [n \in 0..N |-> u[n]] /\ u[0] = <<>>
      /\ \A n \in 1..N : u[n] = IF Counts(l, n) THEN Append(u[n - 1], SerialOf(l[n])) ELSE u[n - 1]
  <2>1. u[0] = Rec(u)[0] /\ \A n \in 1..N : u[n] = Rec(u)[n]
    BY <1>8
  <2>2. u = [n \in 0..N |-> u[n]]
    BY <1>8
  <2>3. 0 \in 0..N /\ \A n \in 1..N : n \in 0..N /\ n # 0
    BY <1>1
  <2> HIDE DEF N
  <2> QED BY <2>1, <2>2, <2>3
<1>10. \A n \in 0..N : u[n] = f[n]
  <2> DEFINE T == {n \in 0..N : u[n] = f[n]}
  <2>1. 0 \in T
    BY <1>1, <1>5, <1>9
  <2>2. \A n \in 0 .. N - 1 : n \in T => n + 1 \in T
    <3> SUFFICES ASSUME NEW n \in 0 .. N - 1, u[n] = f[n] PROVE u[n + 1] = f[n + 1]
      BY <1>1
    <3>1. PICK k \in 1..N : k = n + 1 /\ k - 1 = n
      BY <1>1
    <3> HIDE DEF N, G
    <3> QED BY <1>6, <1>9, <3>1
  <2> HIDE DEF T, N
  <2>3. 0..N \subseteq T
    BY <1>1, <2>1, <2>2, NatSetInduction
  <2> QED BY <2>3 DEF T
<1>11. u = f
  <2> HIDE DEF V, N, G
  <2> QED BY <1>5, <1>9, <1>10
<1>12. SerialsUpTo(l) = u
  BY DEF SerialsUpTo, u, SerialOf
<1> QED BY <1>5, <1>6, <1>11, <1>12 DEF SerialMarks

(* They only grow. *)
Extends(b, a) == Len(a) <= Len(b) /\ \A p \in 1..Len(a) : a[p] = b[p]

(* The serials of the first structures are a prefix of those of all.        *)
LEMMA SerialsGrow ==
  ASSUME NEW l, ListOK(l), NEW n \in 0..Len(l)
  PROVE  IsPrefix(SerialsUpTo(l)[n], SerialsUpTo(l)[Len(l)])
PROOF
<1>1. PICK N \in Nat : N = Len(l)
  BY DEF ListOK
<1>2. PICK u \in [0..N -> Seq(Seq(Octet))] : u = SerialsUpTo(l) /\ SerialMarks(u, l)
  <2>1. SerialMarks(SerialsUpTo(l), l)
    BY SerialsDef
  <2> QED BY <1>1, <2>1 DEF SerialMarks
<1> DEFINE T == {k \in 0..N : n <= k => Extends(u[k], u[n])}
<1>3. 0 \in T
  BY <1>1 DEF Extends
<1>4. \A k \in 0 .. N - 1 : k \in T => k + 1 \in T
  <2> SUFFICES ASSUME NEW k \in 0 .. N - 1, k \in T, n <= k + 1
               PROVE  Extends(u[k + 1], u[n])
    BY <1>1
  <2>1. CASE n = k + 1
    BY <2>1 DEF Extends
  <2>2. CASE n # k + 1
    <3>1. Extends(u[k], u[n])
      BY <1>1, <2>2
    <3>2. PICK m \in 1..N : m = k + 1 /\ m - 1 = k
      OBVIOUS
    <3>3. PICK a \in Seq(Seq(Octet)) : a = u[k]
      OBVIOUS
    <3>4. CASE Counts(l, m)
      <4>1. SerialOf(l[m]) \in Seq(Octet)
        <5>1. WellFormed(l[m]) /\ l[m].area[TYPE17_SERIAL_OFFSET - 3] \in DOMAIN l[m].strings
          BY <1>1, <3>4 DEF ListOK, Counts, HasSerial
        <5>2. DOMAIN l[m].strings = 1..Len(l[m].strings)
          BY <5>1, LenProperties DEF WellFormed
        <5> QED BY <5>1, <5>2, StringsShape DEF SerialOf
      <4>2. u[m] = Append(a, SerialOf(l[m]))
        BY <1>1, <1>2, <3>2, <3>3, <3>4 DEF SerialMarks
      <4>3. Len(u[m]) = Len(a) + 1 /\ Len(a) \in Nat /\ \A p \in 1..Len(a) : u[m][p] = a[p]
        BY <4>1, <4>2, AppendProperties, LenProperties
      <4>4. PICK b \in Seq(Seq(Octet)) : b = u[n]
        BY <1>1
      <4>5. Len(b) \in Nat
        BY LenProperties
      <4>6. Len(b) <= Len(a) /\ \A p \in 1..Len(b) : b[p] = a[p]
        BY <3>1, <3>3, <4>4 DEF Extends
      <4>7. \A p \in 1..Len(b) : p \in 1..Len(a)
        BY <4>3, <4>5, <4>6
      <4> QED BY <3>2, <4>3, <4>4, <4>5, <4>6, <4>7 DEF Extends
    <3>5. CASE ~Counts(l, m)
      <4>1. u[m] = u[k]
        BY <1>1, <1>2, <3>2, <3>5 DEF SerialMarks
      <4> QED BY <3>1, <3>2, <4>1
    <3> QED BY <3>4, <3>5
  <2> QED BY <2>1, <2>2
<1> HIDE DEF T
<1>5. 0..N \subseteq T
  BY <1>1, <1>3, <1>4, NatSetInduction
<1>6. Extends(u[N], u[n])
  <2>1. N \in T
    BY <1>1, <1>5
  <2> QED BY <1>1, <2>1 DEF T
<1>7. PICK a, b \in Seq(Seq(Octet)) : a = u[n] /\ b = u[N]
  BY <1>1
<1>8. PICK x, y \in Nat : x = Len(a) /\ y = Len(b) /\ x <= y /\ \A p \in 1..x : a[p] = b[p]
  BY <1>6, <1>7, LenProperties DEF Extends
<1>9. SubSeq(a, 1, x) = SubSeq(b, 1, x)
  BY <1>8
<1>10. IsPrefix(a, b)
  BY <1>8, <1>9 DEF IsPrefix
<1> QED BY <1>1, <1>2, <1>7, <1>10

(* Nothing counts after the end of the table. *)
LEMMA NothingAfterEnd ==
  ASSUME NEW l, ListOK(l), NEW n \in 1..Len(l), l[n].type = EndOfTable
  PROVE  SerialsUpTo(l)[Len(l)] = SerialsUpTo(l)[n]
PROOF
<1>1. PICK N \in Nat : N = Len(l)
  BY DEF ListOK
<1>2. PICK u \in [0..N -> Seq(Seq(Octet))] : u = SerialsUpTo(l) /\ SerialMarks(u, l)
  <2>1. SerialMarks(SerialsUpTo(l), l)
    BY SerialsDef
  <2> QED BY <1>1, <2>1 DEF SerialMarks
<1> DEFINE T == {k \in 0..N : n <= k => u[k] = u[n]}
<1>3. 0 \in T
  BY <1>1
<1>4. \A k \in 0 .. N - 1 : k \in T => k + 1 \in T
  <2> SUFFICES ASSUME NEW k \in 0 .. N - 1, k \in T, n <= k + 1, n # k + 1
               PROVE  u[k + 1] = u[n]
    BY <1>1
  <2>1. PICK m \in 1..N : m = k + 1 /\ m - 1 = k
    OBVIOUS
  <2>2. n \in 1 .. m - 1
    BY <1>1, <2>1
  <2>3. ~Counts(l, m)
    BY <2>2 DEF Counts
  <2>4. u[m] = u[k]
    BY <1>1, <1>2, <2>1, <2>3 DEF SerialMarks
  <2>5. u[k] = u[n]
    BY <1>1
  <2> QED BY <2>1, <2>4, <2>5
<1> HIDE DEF T
<1>5. 0..N \subseteq T
  BY <1>1, <1>3, <1>4, NatSetInduction
<1>6. u[N] = u[n]
  <2>1. N \in T
    BY <1>1, <1>5
  <2> QED BY <1>1, <2>1 DEF T
<1> QED BY <1>1, <1>2, <1>6
-----------------------------------------------------------------------------
(* The walk never leaves the table. *)
BoundsInv ==
  /\ data \in Seq(Octet) /\ at \in {"structure", "strings", "record", "done"}
  /\ i \in Nat /\ j \in Nat /\ i <= Size
  /\ at \in {"strings", "record"} =>
       /\ i + 4 <= Size /\ flen \in Nat /\ flen >= 4
       /\ i + flen <= j /\ j <= Size

(* No step of the walk takes its indices out of the table.                  *)
LEMMA BoundsStep ==
  ASSUME BoundsInv, Walk
  PROVE  BoundsInv'
PROOF
<1>1. PICK z \in Nat : z = Size
  BY LenProperties DEF BoundsInv, Size
<1>2. i \in Nat /\ j \in Nat /\ i <= z
  BY <1>1 DEF BoundsInv
<1>3. data' = data /\ Size' = Size
  BY DEF Walk, BeginStructure, StopWalk, ReadString, Unterminated, EmptySet, Record, table, Size
<1>4. i + 4 <= z => flen \in Nat
  <2> SUFFICES ASSUME i + 4 <= z PROVE flen \in Nat
    OBVIOUS
  <2>1. PICK p \in 1..z : p = i + 1 + 1
    BY <1>2
  <2>2. data[p] \in Octet
    BY <1>1, <2>1, ElementOfSeq DEF BoundsInv, Size
  <2> QED BY <2>1, <2>2, OctetDef DEF flen, Byte
<1>5. ASSUME BeginStructure PROVE BoundsInv'
  <2>1. i + 4 <= z /\ flen >= 4 /\ i + flen <= z /\ flen \in Nat
    BY <1>1, <1>4, <1>5 DEF BeginStructure, Readable
  <2>2. j' = i + flen /\ i' = i /\ flen' = flen /\ at' = "strings"
    BY <1>3, <1>5 DEF BeginStructure, flen, Byte
  <2>3. j' \in Nat
    BY <1>2, <2>1, <2>2
  <2> QED BY <1>1, <1>2, <1>3, <2>1, <2>2, <2>3 DEF BoundsInv
<1>6. ASSUME StopWalk PROVE BoundsInv'
  BY <1>3, <1>6 DEF StopWalk, BoundsInv
<1>7. ASSUME at = "strings", i' = i, j' \in Nat, j <= j', j' <= z, at' \in {"strings", "record"}
      PROVE  BoundsInv'
  <2>1. i + 4 <= z /\ flen \in Nat /\ flen >= 4 /\ i + flen <= j
    BY <1>1, <1>7 DEF BoundsInv
  <2>2. flen' = flen
    BY <1>3, <1>7 DEF flen, Byte
  <2>3. i + flen <= j'
    BY <1>2, <1>7, <2>1
  <2> QED BY <1>1, <1>2, <1>3, <1>7, <2>1, <2>2, <2>3 DEF BoundsInv
<1>8. ASSUME ReadString PROVE BoundsInv'
  <2>1. PICK e \in j .. Size - 1 :
          IF IsNul(e + 1) THEN j' = e + 2 /\ at' = "record" ELSE j' = e + 1 /\ at' = "strings"
    BY <1>8 DEF ReadString
  <2>2. e \in Nat /\ j <= e /\ e < z
    BY <1>1, <1>2, <2>1
  <2>3. IsNul(e + 1) => e + 1 < z
    BY <1>1 DEF IsNul
  <2>4. j' \in Nat /\ j <= j' /\ j' <= z /\ at' \in {"strings", "record"}
    BY <1>1, <1>2, <2>1, <2>2, <2>3
  <2>5. at = "strings" /\ i' = i
    BY <1>8 DEF ReadString
  <2> QED BY <1>7, <2>4, <2>5
<1>9. ASSUME Unterminated PROVE BoundsInv'
  <2>1. at = "strings" /\ i' = i /\ j' = z /\ at' = "record"
    BY <1>1, <1>9 DEF Unterminated
  <2>2. j <= z
    BY <1>1, <2>1 DEF BoundsInv
  <2> QED BY <1>2, <1>7, <2>1, <2>2
<1>10. ASSUME EmptySet PROVE BoundsInv'
  <2>1. at = "strings" /\ i' = i /\ at' = "record" /\ j < z
        /\ j' = IF IsNul(j + 1) THEN j + 2 ELSE j + 1
    BY <1>1, <1>10 DEF EmptySet, IsNul
  <2>2. IsNul(j + 1) => j + 1 < z
    BY <1>1 DEF IsNul
  <2>3. j' \in Nat /\ j <= j' /\ j' <= z
    BY <1>2, <2>1, <2>2
  <2> QED BY <1>7, <2>1, <2>3
<1>11. ASSUME Record PROVE BoundsInv'
  <2>1. at = "record" /\ j' = j /\ at' \in {"structure", "done"} /\ i' \in {i, j}
    BY <1>11 DEF Record
  <2>2. j <= z
    BY <1>1, <2>1 DEF BoundsInv
  <2> QED BY <1>1, <1>2, <1>3, <2>1, <2>2 DEF BoundsInv
<1> QED BY <1>5, <1>6, <1>8, <1>9, <1>10, <1>11 DEF Walk

(* Machines hold well-formed tables. *)
LEMMA MachineTables ==
  ASSUME NEW m \in Machines
  PROVE  ListOK(m.structures)
PROOF
<1>1. Plausible(m)
  BY CollectAssumption
<1>2. PICK l : l = m.structures
  OBVIOUS
<1>3. l \in Seq(Range(l)) /\ \A s \in Range(l) : WellFormed(s)
  BY <1>1, <1>2 DEF Plausible
<1>4. Len(l) \in Nat /\ DOMAIN l = 1..Len(l)
  BY <1>3, LenProperties
<1>5. \A n \in DOMAIN l : l[n] \in Range(l)
  BY DEF Range
<1> QED BY <1>2, <1>3, <1>4, <1>5 DEF ListOK

(* The tables the walk is tried on are lists of well-formed structures.     *)
LEMMA ListTables ==
  ASSUME NEW l \in Lists
  PROVE  ListOK(l)
PROOF
<1>1. PICK n \in 1..MaxStructures : l \in [1..n -> Structures]
  BY DEF Lists
<1>2. n \in Nat
  BY SmbiosAssumption
<1>3. l \in Seq(Structures)
  BY <1>1, <1>2, SeqDef
<1>4. Len(l) = n /\ DOMAIN l = 1..n
  BY <1>1, <1>2, <1>3, LenProperties
<1>5. \A k \in 1..n : WellFormed(l[k])
  BY <1>1, SmbiosAssumption
<1> QED BY <1>2, <1>4, <1>5 DEF ListOK

(* A walk that starts. *)
LEMMA BoundsStart ==
  ASSUME NEW bytes, NEW l, NEW complete, Start(bytes, l, complete), bytes \in Seq(Octet)
  PROVE  BoundsInv
PROOF
<1>1. data = bytes /\ at = "structure" /\ i = 0 /\ j = 0
  BY DEF Start
<1>2. Len(data) \in Nat
  BY <1>1, LenProperties
<1> QED BY <1>1, <1>2 DEF BoundsInv, Size

(* A walk begins at the start of a table of bytes.                          *)
LEMMA BoundsInit == Init => BoundsInv
PROOF
<1> SUFFICES ASSUME Init PROVE BoundsInv
  OBVIOUS
<1>1. CASE hw \in Machines /\ OwnTable
  <2>1. Encodings(hw.structures) \in Seq(Octet)
    BY <1>1, MachineTables, EncodedShape
  <2> QED BY <1>1, <2>1, BoundsStart DEF OwnTable
<1>2. CASE AnyTable
  <2>1. CASE \E l \in Lists : LET table_of_l == Encodings(l) IN
               \E cut \in 0 .. Len(table_of_l) :
                 Start(SubSeq(table_of_l, 1, cut), l, cut = Len(table_of_l))
    <3>1. PICK l \in Lists : \E cut \in 0 .. Len(Encodings(l)) :
                 Start(SubSeq(Encodings(l), 1, cut), l, cut = Len(Encodings(l)))
      BY <2>1
    <3>2. PICK cut \in 0 .. Len(Encodings(l)) :
                 Start(SubSeq(Encodings(l), 1, cut), l, cut = Len(Encodings(l)))
      BY <3>1
    <3>3. PICK bytes : bytes = SubSeq(Encodings(l), 1, cut)
      OBVIOUS
    <3>4. bytes \in Seq(Octet)
      BY <3>3, ListTables, CutTable DEF TableOf
    <3> QED BY <3>2, <3>3, <3>4, BoundsStart
  <2>2. CASE \E n \in 0..MaxBytes : \E bytes \in [1..n -> Bytes] : Start(bytes, <<>>, FALSE)
    <3>0. PICK n \in 0..MaxBytes : \E bytes \in [1..n -> Bytes] : Start(bytes, <<>>, FALSE)
      BY <2>2
    <3>1. PICK bytes \in [1..n -> Bytes] : Start(bytes, <<>>, FALSE)
      BY <3>0
    <3>2. n \in Nat /\ bytes \in [1..n -> Octet]
      BY SmbiosAssumption
    <3>3. bytes \in Seq(Octet)
      BY <3>2, SeqDef
    <3> QED BY <3>1, <3>3, BoundsStart
  <2> QED BY <1>2, <2>1, <2>2 DEF AnyTable
<1> QED BY <1>1, <1>2 DEF Init

(* The providers that come after the walk, and the next boot.               *)
LEMMA BoundsNext == BoundsInv /\ [Next]_vars => BoundsInv'
PROOF
<1> SUFFICES ASSUME BoundsInv, [Next]_vars PROVE BoundsInv'
  OBVIOUS
<1>1. CASE WalkTable
  BY <1>1, BoundsStep DEF WalkTable
<1>2. CASE UNCHANGED walk
  BY <1>2 DEF BoundsInv, walk, table, Size, flen, Byte
<1>3. CASE NextBoot
  <2>1. PICK m \in Machines : /\ list' = m.structures /\ data' = Encodings(m.structures)
                              /\ at' = "structure" /\ i' = 0 /\ j' = 0
    BY <1>3 DEF NextBoot
  <2>2. data' \in Seq(Octet)
    BY <2>1, MachineTables, EncodedShape
  <2>3. Len(data') \in Nat
    BY <2>2, LenProperties
  <2> QED BY <2>1, <2>2, <2>3 DEF BoundsInv, Size
<1>4. CASE CollectRam \/ CollectCpu \/ CollectDmi \/ CollectUsb \/ CollectEnd \/ UNCHANGED vars
  BY <1>2, <1>4 DEF CollectRam, CollectCpu, CollectDmi, CollectUsb, CollectEnd, vars
<1> QED BY <1>1, <1>3, <1>4 DEF Next, Program

(* "jamais de panic": whatever the firmware's table holds, the walk of       *)
(* parse_type17_serials stays inside it.                                    *)
THEOREM WalkStaysInside == Spec => []InBounds
PROOF
<1>1. BoundsInv => InBounds
  <2> SUFFICES ASSUME BoundsInv PROVE InBounds
    OBVIOUS
  <2>1. PICK z \in Nat : z = Size
    BY LenProperties DEF BoundsInv, Size
  <2>2. i \in Nat /\ j \in Nat /\ i <= z
    BY <2>1 DEF BoundsInv
  <2>3. ASSUME at \in {"strings", "record"} PROVE i + flen <= z /\ j \in i + flen .. z
    <3>1. flen \in Nat /\ i + flen <= j /\ j <= z
      BY <2>1, <2>3 DEF BoundsInv
    <3> QED BY <2>1, <2>2, <3>1
  <2> QED BY <2>1, <2>2, <2>3 DEF InBounds
<1> QED BY <1>1, BoundsInit, BoundsNext, PTL DEF Spec
-----------------------------------------------------------------------------
(* The walk over a table of structures gives back their serial numbers.     *)
TableInv == list # <<>> => TableOf(data, list, whole)

Got(n)   == out = SerialsUpTo(list)[n]
NoEnd(n) == \A m \in 1..n : list[m].type # EndOfTable

HasStrings(ss, s, m) ==
  ss \in Seq(Seq(Octet)) /\ Len(ss) = m /\ \A p \in 1..m : ss[p] = s.strings[p]

InStructure(n) ==
  /\ i = StructureEnd(list, n - 1) /\ NoEnd(n - 1) /\ Got(n - 1)
  /\ \E m \in 0..Len(list[n].strings) :
       /\ HasStrings(strings, list[n], m)
       /\ \/ at = "strings" /\ HasRead(data, list[n], i, j, m)
          \/ at = "record" /\ j = StructureEnd(list, n) /\ m = Len(list[n].strings)
          \/ at = "record" /\ j = Size /\ ~whole

Between(n) == i = StructureEnd(list, n) /\ NoEnd(n) /\ Got(n)

WalkInv ==
  list # <<>> =>
    \/ at = "structure" /\ \E n \in 0..Len(list) : Between(n)
    \/ /\ ~whole /\ \E n \in 0..Len(list) : Got(n)
       /\ at = "done" \/ (at = "structure" /\ i = Size)
    \/ at = "done" /\ Got(Len(list))
    \/ at \in {"strings", "record"} /\ \E n \in 1..Len(list) : InStructure(n)

(* Before the first structure nothing is collected.                         *)
LEMMA WalkStart ==
  ASSUME NEW bytes, NEW l, NEW complete, Start(bytes, l, complete),
         l # <<>> => TableOf(bytes, l, complete)
  PROVE  TableInv /\ WalkInv
PROOF
<1>1. data = bytes /\ list = l /\ whole = complete /\ at = "structure" /\ i = 0 /\ out = <<>>
  BY DEF Start
<1>2. TableInv
  BY <1>1 DEF TableInv
<1>3. ASSUME l # <<>> PROVE Between(0) /\ 0 \in 0..Len(list)
  <2>1. ListOK(l) /\ Len(l) \in Nat
    BY <1>3 DEF TableOf, ListOK
  <2>2. StructureEnd(l, 0) = 0 /\ SerialsUpTo(l)[0] = <<>>
    BY <2>1, EncodedShape, SerialsDef DEF StructureEnd, Marks, SerialMarks
  <2> QED BY <1>1, <2>1, <2>2 DEF Between, NoEnd, Got
<1> QED BY <1>1, <1>2, <1>3 DEF WalkInv

(* The structure the walk is in. *)
LEMMA AtStructure ==
  ASSUME BoundsInv, TableInv, list # <<>>, NEW n \in 1..Len(list),
         i = StructureEnd(list, n - 1)
  PROVE  /\ WellFormed(list[n]) /\ Placed(data, list[n], i) /\ Len(list) \in Nat
         /\ StructureEnd(list, n) = i + Len(Encoding(list[n]))
         /\ StructureEnd(list, n) \in Nat /\ Len(Encoding(list[n])) \in Nat
         /\ whole => StructureEnd(list, n) <= Size
PROOF
<1>1. TableOf(data, list, whole) /\ ListOK(list)
  BY DEF TableInv, TableOf
<1>2. WellFormed(list[n]) /\ Len(list) \in Nat
  BY <1>1 DEF ListOK
<1>3. /\ StructureEnd(list, n) \in Nat
      /\ StructureEnd(list, n) = i + Len(Encoding(list[n]))
      /\ StructureEnd(list, n) <= StructureEnd(list, Len(list))
      /\ \A p \in 1..Len(Encoding(list[n])) :
           i + p <= Len(data) => data[i + p] = Encoding(list[n])[p]
  BY <1>1, BytesOf
<1>4. whole => Size = StructureEnd(list, Len(list))
  BY <1>1 DEF TableOf, Size
<1>5. Len(Encoding(list[n])) \in Nat
  BY <1>2, EncodingShape, LenProperties DEF Shape
<1> QED BY <1>2, <1>3, <1>4, <1>5 DEF Placed

(* The header and the area are skipped, up to the first string.             *)
LEMMA BeginStep ==
  ASSUME BoundsInv, TableInv, WalkInv, list # <<>>, BeginStructure
  PROVE  WalkInv'
PROOF
<1>1. PICK z \in Nat : z = Size /\ z = Len(data)
  BY LenProperties DEF BoundsInv, Size
<1>2. /\ at = "structure" /\ i \in Nat /\ i + 4 <= z /\ j' = i + flen /\ i' = i
      /\ at' = "strings" /\ strings' = <<>> /\ out' = out
      /\ data' = data /\ list' = list /\ whole' = whole
  BY <1>1 DEF BeginStructure, Readable, BoundsInv, table
<1>3. PICK N \in Nat : N = Len(list) /\ ListOK(list) /\ z <= StructureEnd(list, N)
  BY <1>1 DEF TableInv, TableOf, ListOK
<1>4. PICK k \in 0..N : Between(k)
  <2>1. ~(i = Size)
    BY <1>1, <1>2
  <2> QED BY <1>2, <1>3, <2>1 DEF WalkInv
<1>5. k # N
  <2> SUFFICES ASSUME k = N PROVE FALSE
    OBVIOUS
  <2>1. z <= i
    BY <1>3, <1>4 DEF Between
  <2> QED BY <1>2, <2>1
<1>6. PICK n \in 1..N : n = k + 1 /\ n - 1 = k
  BY <1>5
<1>7. i = StructureEnd(list, n - 1) /\ NoEnd(n - 1) /\ Got(n - 1)
  BY <1>4, <1>6 DEF Between
<1>8. WellFormed(list[n]) /\ Placed(data, list[n], i) /\ data \in Seq(Octet)
  BY <1>3, <1>7, AtStructure DEF BoundsInv
<1>9. data[i + 2] = 4 + Len(list[n].area) /\ StringEnd(list[n], 0) = 4 + Len(list[n].area)
  <2>1. PICK s : s = list[n]
    OBVIOUS
  <2>2. PICK o \in Nat : o = i /\ o + 4 <= Len(data)
    BY <1>1, <1>2
  <2>3. WellFormed(s) /\ Placed(data, s, o)
    BY <1>8, <2>1, <2>2
  <2>4. PICK a, len \in Nat : HeaderAt(data, s, o, a, len)
    BY <1>8, <2>3, HeaderPlaced
  <2> QED BY <2>1, <2>2, <2>4 DEF HeaderAt
<1>10. flen = StringEnd(list[n], 0)
  <2>1. i + 1 + 1 = i + 2
    BY <1>2
  <2> QED BY <1>9, <2>1 DEF flen, Byte
<1>11. Len(list[n].strings) \in Nat
  BY <1>8, StringsShape
<1>12. HasRead(data, list[n], i, j', 0)
  BY <1>2, <1>10, <1>11 DEF HasRead
<1>13. HasStrings(strings', list[n], 0) /\ 0 \in 0..Len(list[n].strings)
  BY <1>2, <1>11 DEF HasStrings
<1>14. InStructure(n)'
  BY <1>2, <1>7, <1>12, <1>13 DEF InStructure, NoEnd, Got
<1> QED BY <1>2, <1>3, <1>14 DEF WalkInv

(* The walk stops at the end of the table, or where it is cut.              *)
LEMMA StopStep ==
  ASSUME BoundsInv, TableInv, WalkInv, list # <<>>, StopWalk
  PROVE  WalkInv'
PROOF
<1>1. PICK z \in Nat : z = Size /\ z = Len(data)
  BY LenProperties DEF BoundsInv, Size
<1>2. /\ at = "structure" /\ i \in Nat /\ ~Readable /\ at' = "done" /\ out' = out
      /\ list' = list /\ whole' = whole
  BY DEF StopWalk, BoundsInv, table
<1>3. PICK N \in Nat : N = Len(list) /\ ListOK(list)
  BY DEF TableInv, TableOf, ListOK
<1>6. ASSUME ~whole, NEW n \in 0..N, Got(n) PROVE WalkInv'
  <2>1. ~whole' /\ n \in 0..Len(list') /\ out' = SerialsUpTo(list')[n]
    BY <1>2, <1>3, <1>6 DEF Got
  <2>2. (\E k \in 0..Len(list) : Got(k))'
    BY <2>1 DEF Got
  <2>3. at' = "done" /\ ~whole'
    BY <1>2, <2>1
  <2> QED BY <2>2, <2>3 DEF WalkInv
<1>4. CASE ~whole /\ \E n \in 0..Len(list) : Got(n)
  BY <1>3, <1>4, <1>6
<1>5. CASE \E n \in 0..Len(list) : Between(n)
  <2>1. PICK k \in 0..N : Between(k)
    BY <1>3, <1>5
  <2>2. Got(k)
    BY <2>1 DEF Between
  <2>3. CASE k = N
    BY <1>2, <1>3, <2>2, <2>3 DEF WalkInv, Got
  <2>4. CASE k # N
    <3>1. PICK n \in 1..N : n = k + 1 /\ n - 1 = k
      BY <2>4
    <3>2. i = StructureEnd(list, n - 1)
      BY <2>1, <3>1 DEF Between
    <3>3. /\ WellFormed(list[n]) /\ Placed(data, list[n], i) /\ data \in Seq(Octet)
          /\ StructureEnd(list, n) = i + Len(Encoding(list[n]))
          /\ whole => StructureEnd(list, n) <= Size
      BY <1>3, <3>2, AtStructure DEF BoundsInv
    <3>4. PICK a, len \in Nat : /\ a = Len(list[n].area) /\ len = Len(Encoding(list[n]))
                                /\ 4 + a < len /\ (i + 4 <= z => data[i + 2] = 4 + a)
      <4>1. i \in Nat
        BY <1>2
      <4>2. PICK a, len \in Nat : HeaderAt(data, list[n], i, a, len)
        BY <3>3, <4>1, HeaderPlaced
      <4> QED BY <1>1, <4>2 DEF HeaderAt
    <3>5. ~whole
      <4> SUFFICES ASSUME whole PROVE Readable
        BY <1>2
      <4>1. i + len <= z
        BY <1>1, <3>3, <3>4
      <4>2. i + 4 <= z /\ i + (4 + a) <= z
        BY <1>2, <3>4, <4>1
      <4>3. flen = 4 + a
        <5>1. i + 1 + 1 = i + 2
          BY <1>2
        <5> QED BY <3>4, <4>2, <5>1 DEF flen, Byte
      <4>4. flen >= 4
        BY <4>3
      <4> QED BY <1>1, <4>2, <4>3, <4>4 DEF Readable
    <3> QED BY <1>6, <2>2, <3>5
  <2> QED BY <2>3, <2>4
<1> QED BY <1>2, <1>4, <1>5 DEF WalkInv

(* Inside the strings of a structure. *)
LEMMA InStrings ==
  ASSUME BoundsInv, TableInv, WalkInv, list # <<>>, at = "strings"
  PROVE  \E n \in 1..Len(list) : \E m \in 0..Len(list[n].strings) :
           /\ i = StructureEnd(list, n - 1) /\ NoEnd(n - 1) /\ Got(n - 1)
           /\ HasStrings(strings, list[n], m) /\ HasRead(data, list[n], i, j, m)
PROOF
<1>1. PICK n \in 1..Len(list) : InStructure(n)
  BY DEF WalkInv
<1>2. PICK m \in 0..Len(list[n].strings) :
        HasStrings(strings, list[n], m) /\ HasRead(data, list[n], i, j, m)
  BY <1>1 DEF InStructure
<1> QED BY <1>1, <1>2 DEF InStructure

(* A string is read: it is the next one of the structure.                   *)
LEMMA ReadStep ==
  ASSUME BoundsInv, TableInv, WalkInv, list # <<>>, ReadString
  PROVE  WalkInv'
PROOF
<1>1. PICK z \in Nat : z = Size /\ z = Len(data)
  BY LenProperties DEF BoundsInv, Size
<1>2. /\ at = "strings" /\ i \in Nat /\ j \in Nat /\ j < z /\ ~IsNul(j)
      /\ i' = i /\ out' = out /\ data' = data /\ list' = list /\ whole' = whole
  BY <1>1 DEF ReadString, BoundsInv, table
<1>3. PICK e \in j .. Size - 1 :
        /\ IsNul(e) /\ \A p \in j .. e - 1 : ~IsNul(p)
        /\ strings' = Append(strings, SubSeq(data, j + 1, e))
        /\ IF IsNul(e + 1) THEN j' = e + 2 /\ at' = "record" ELSE j' = e + 1 /\ at' = "strings"
  BY DEF ReadString
<1>4. PICK n \in 1..Len(list) : \E m \in 0..Len(list[n].strings) :
           /\ i = StructureEnd(list, n - 1) /\ NoEnd(n - 1) /\ Got(n - 1)
           /\ HasStrings(strings, list[n], m) /\ HasRead(data, list[n], i, j, m)
  BY <1>2, InStrings
<1>5. PICK m \in 0..Len(list[n].strings) :
           /\ i = StructureEnd(list, n - 1) /\ NoEnd(n - 1) /\ Got(n - 1)
           /\ HasStrings(strings, list[n], m) /\ HasRead(data, list[n], i, j, m)
  BY <1>4
<1>6. /\ WellFormed(list[n]) /\ Placed(data, list[n], i) /\ data \in Seq(Octet)
      /\ StructureEnd(list, n) = i + Len(Encoding(list[n]))
  BY <1>5, AtStructure DEF BoundsInv
<1>7. PICK s : s = list[n]
  OBVIOUS
<1>8. PICK N \in Nat : N = Len(s.strings)
  BY <1>6, <1>7, StringsShape
<1>9. m \in Nat /\ m <= N /\ HasRead(data, s, i, j, m)
  BY <1>5, <1>7, <1>8
<1>10. e \in Nat /\ j <= e /\ e < Len(data) /\ data[e + 1] = 0 /\ data[j + 1] # 0
  BY <1>1, <1>2, <1>3 DEF IsNul, Byte
<1>11. \A p \in j .. e - 1 : data[p + 1] # 0
  <2> SUFFICES ASSUME NEW p \in j .. e - 1 PROVE data[p + 1] # 0
    OBVIOUS
  <2>1. p < z
    BY <1>1, <1>2, <1>10
  <2> QED BY <1>1, <1>3, <2>1 DEF IsNul, Byte
<1>12. IsNul(e + 1) <=> e + 1 < Len(data) /\ data[e + 2] = 0
  <2>1. e + 1 + 1 = e + 2
    BY <1>10
  <2> QED BY <1>1, <2>1 DEF IsNul, Byte
<1>13. /\ m < Len(s.strings) /\ SubSeq(data, j + 1, e) = s.strings[m + 1]
       /\ e + 1 < Len(data) /\ data[e + 2] = 0 =>
            m + 1 = Len(s.strings) /\ e + 2 = i + Len(Encoding(s))
       /\ ~(e + 1 < Len(data) /\ data[e + 2] = 0) => HasRead(data, s, i, e + 1, m + 1)
  <2>1. WellFormed(s) /\ Placed(data, s, i)
    BY <1>6, <1>7
  <2> QED BY <1>2, <1>6, <1>9, <1>10, <1>11, <2>1, OneMoreString
<1>14. PICK k \in 0..N : k = m + 1
  BY <1>8, <1>9, <1>13
<1>15. HasStrings(strings', s, k)
  <2>1. PICK v \in Seq(Octet) : v = s.strings[k]
    <3>1. k \in 1..N
      BY <1>9, <1>14
    <3> QED BY <1>6, <1>7, <1>8, <3>1, StringsShape
  <2>2. PICK ss \in Seq(Seq(Octet)) : /\ ss = strings /\ Len(ss) = m
                                    /\ \A p \in 1..m : ss[p] = s.strings[p]
    BY <1>5, <1>7 DEF HasStrings
  <2>3. strings' = Append(ss, v)
    BY <1>3, <1>13, <1>14, <2>1, <2>2
  <2>4. PICK ts \in Seq(Seq(Octet)) : /\ ts = Append(ss, v) /\ Len(ts) = m + 1
                                    /\ \A p \in 1..m : ts[p] = ss[p]
                                    /\ ts[m + 1] = v
    <3>1. /\ Append(ss, v) \in Seq(Seq(Octet)) /\ Len(Append(ss, v)) = Len(ss) + 1
          /\ \A p \in 1..Len(ss) : Append(ss, v)[p] = ss[p]
          /\ Append(ss, v)[Len(ss) + 1] = v
      BY AppendProperties
    <3>2. PICK ts : ts = Append(ss, v)
      OBVIOUS
    <3>3. PICK q \in Nat : q = Len(ss) + 1
      OBVIOUS
    <3>4. ts \in Seq(Seq(Octet)) /\ Len(ts) = q /\ ts[q] = v /\ \A p \in 1..m : ts[p] = ss[p]
      BY <2>2, <3>1, <3>2, <3>3
    <3>5. q = m + 1
      BY <2>2, <3>3
    <3> QED BY <3>2, <3>4, <3>5
  <2>5. \A p \in 1..k : ts[p] = s.strings[p]
    <3> SUFFICES ASSUME NEW p \in 1..k PROVE ts[p] = s.strings[p]
      OBVIOUS
    <3>1. CASE p = k
      BY <1>14, <2>1, <2>4, <3>1
    <3>2. CASE p # k
      <4>1. p \in 1..m
        BY <1>9, <1>14, <3>2
      <4> QED BY <2>2, <2>4, <4>1
    <3> QED BY <3>1, <3>2
  <2> QED BY <1>14, <2>3, <2>4, <2>5 DEF HasStrings
<1>16. \/ at' = "strings" /\ HasRead(data, s, i, j', k)
       \/ at' = "record" /\ j' = StructureEnd(list, n) /\ k = N
  BY <1>3, <1>6, <1>7, <1>8, <1>12, <1>13, <1>14
<1>17. InStructure(n)'
  BY <1>2, <1>5, <1>7, <1>8, <1>14, <1>15, <1>16 DEF InStructure, NoEnd, Got
<1>18. at' \in {"strings", "record"}
  BY <1>16
<1> QED BY <1>2, <1>17, <1>18 DEF WalkInv

(* A string without its NUL: the table is cut there.                        *)
LEMMA UnterminatedStep ==
  ASSUME BoundsInv, TableInv, WalkInv, list # <<>>, Unterminated
  PROVE  WalkInv'
PROOF
<1>1. PICK z \in Nat : z = Size /\ z = Len(data)
  BY LenProperties DEF BoundsInv, Size
<1>2. /\ at = "strings" /\ i \in Nat /\ j \in Nat /\ j <= z
      /\ i' = i /\ j' = z /\ at' = "record" /\ strings' = strings /\ out' = out
      /\ data' = data /\ list' = list /\ whole' = whole
  BY <1>1 DEF Unterminated, BoundsInv, table
<1>3. PICK n \in 1..Len(list) : \E m \in 0..Len(list[n].strings) :
           /\ i = StructureEnd(list, n - 1) /\ NoEnd(n - 1) /\ Got(n - 1)
           /\ HasStrings(strings, list[n], m) /\ HasRead(data, list[n], i, j, m)
  BY <1>2, InStrings
<1>4. PICK m \in 0..Len(list[n].strings) :
           /\ i = StructureEnd(list, n - 1) /\ NoEnd(n - 1) /\ Got(n - 1)
           /\ HasStrings(strings, list[n], m) /\ HasRead(data, list[n], i, j, m)
  BY <1>3
<1>5. /\ WellFormed(list[n]) /\ Placed(data, list[n], i) /\ data \in Seq(Octet)
      /\ StructureEnd(list, n) = i + Len(Encoding(list[n]))
      /\ whole => StructureEnd(list, n) <= Size
  BY <1>4, AtStructure DEF BoundsInv
<1>6. \A p \in j .. Len(data) - 1 : data[p + 1] # 0
  <2> SUFFICES ASSUME NEW p \in j .. z - 1 PROVE data[p + 1] # 0
    BY <1>1
  <2>1. p \in j .. Size - 1 /\ p < Size
    BY <1>1, <1>2
  <2> QED BY <2>1 DEF Unterminated, IsNul, Byte
<1>7. Len(data) < i + Len(Encoding(list[n]))
  BY <1>1, <1>2, <1>4, <1>5, <1>6, NoMoreString
<1>8. ~whole
  <2> SUFFICES ASSUME whole PROVE FALSE
    OBVIOUS
  <2>1. PICK y \in Nat : y = i + Len(Encoding(list[n]))
    BY <1>4, <1>5, AtStructure
  <2> QED BY <1>1, <1>5, <1>7, <2>1
<1>9. j' = Size'
  BY <1>1, <1>2 DEF Size
<1>10. InStructure(n)'
  BY <1>2, <1>4, <1>8, <1>9 DEF InStructure, NoEnd, Got
<1> QED BY <1>2, <1>10 DEF WalkInv

(* The NUL that ends the strings ends the structure.                        *)
LEMMA EmptyStep ==
  ASSUME BoundsInv, TableInv, WalkInv, list # <<>>, EmptySet
  PROVE  WalkInv'
PROOF
<1>1. PICK z \in Nat : z = Size /\ z = Len(data)
  BY LenProperties DEF BoundsInv, Size
<1>2. /\ at = "strings" /\ i \in Nat /\ j \in Nat /\ j < z /\ data[j + 1] = 0
      /\ i' = i /\ at' = "record" /\ strings' = strings /\ out' = out
      /\ data' = data /\ list' = list /\ whole' = whole
      /\ j' = IF IsNul(j + 1) THEN j + 2 ELSE j + 1
  BY <1>1 DEF EmptySet, BoundsInv, table, IsNul, Byte
<1>3. PICK n \in 1..Len(list) : \E m \in 0..Len(list[n].strings) :
           /\ i = StructureEnd(list, n - 1) /\ NoEnd(n - 1) /\ Got(n - 1)
           /\ HasStrings(strings, list[n], m) /\ HasRead(data, list[n], i, j, m)
  BY <1>2, InStrings
<1>4. PICK m \in 0..Len(list[n].strings) :
           /\ i = StructureEnd(list, n - 1) /\ NoEnd(n - 1) /\ Got(n - 1)
           /\ HasStrings(strings, list[n], m) /\ HasRead(data, list[n], i, j, m)
  BY <1>3
<1>5. /\ WellFormed(list[n]) /\ Placed(data, list[n], i) /\ data \in Seq(Octet)
      /\ StructureEnd(list, n) = i + Len(Encoding(list[n]))
      /\ whole => StructureEnd(list, n) <= Size
      /\ Len(Encoding(list[n])) \in Nat
  BY <1>4, AtStructure DEF BoundsInv
<1>6. /\ m = Len(list[n].strings)
      /\ j + 1 < Len(data) /\ data[j + 2] = 0 => j + 2 = i + Len(Encoding(list[n]))
      /\ ~(j + 1 < Len(data) /\ data[j + 2] = 0) =>
           j + 1 = Len(data) /\ Len(data) < i + Len(Encoding(list[n]))
  <2>1. i \in Nat /\ j \in Nat /\ j < Len(data) /\ data[j + 1] = 0
    BY <1>1, <1>2
  <2>2. EndsEmpty(data, list[n], i, j, m)
    BY <1>4, <1>5, <2>1, NoStringAtAll
  <2> QED BY <2>2 DEF EndsEmpty
<1>7. IsNul(j + 1) <=> j + 1 < Len(data) /\ data[j + 2] = 0
  <2>1. j + 1 + 1 = j + 2
    BY <1>2
  <2> QED BY <1>1, <2>1 DEF IsNul, Byte
<1>8. j' = StructureEnd(list, n) \/ (j' = z /\ ~whole)
  <2>1. CASE IsNul(j + 1)
    <3>1. j' = j + 2
      BY <1>2, <2>1
    <3>2. j + 2 = i + Len(Encoding(list[n]))
      BY <1>6, <1>7, <2>1
    <3> QED BY <1>5, <3>1, <3>2
  <2>2. CASE ~IsNul(j + 1)
    <3>1. PICK y \in Nat : y = i + Len(Encoding(list[n]))
      BY <1>2, <1>5
    <3>2. j' = z /\ z < y
      BY <1>1, <1>2, <1>6, <1>7, <2>2, <3>1
    <3>3. ~whole
      BY <1>1, <1>5, <3>1, <3>2
    <3> QED BY <3>2, <3>3
  <2> QED BY <2>1, <2>2
<1>9. Size' = z
  BY <1>1, <1>2 DEF Size
<1>10. InStructure(n)'
  BY <1>2, <1>4, <1>6, <1>8, <1>9 DEF InStructure, NoEnd, Got
<1> QED BY <1>2, <1>10 DEF WalkInv

(* The serial is looked up: that of the structure, or none.                 *)
LEMMA RecordStep ==
  ASSUME BoundsInv, TableInv, WalkInv, list # <<>>, Record
  PROVE  WalkInv'
PROOF
<1>1. PICK z \in Nat : z = Size /\ z = Len(data)
  BY LenProperties DEF BoundsInv, Size
<1>2. /\ at = "record" /\ i \in Nat /\ j \in Nat /\ j <= z
      /\ i + 4 <= z /\ flen \in Nat /\ flen >= 4 /\ i + flen <= j
      /\ data' = data /\ list' = list /\ whole' = whole
      /\ out' = IF /\ stype = MemoryDevice /\ flen > TYPE17_SERIAL_OFFSET
                   /\ Byte(i + TYPE17_SERIAL_OFFSET) \in DOMAIN strings
                  THEN Append(out, strings[Byte(i + TYPE17_SERIAL_OFFSET)]) ELSE out
  BY <1>1 DEF Record, BoundsInv, table
<1>3. PICK n \in 1..Len(list) : InStructure(n)
  BY <1>2 DEF WalkInv
<1>4. PICK m \in 0..Len(list[n].strings) :
        /\ i = StructureEnd(list, n - 1) /\ NoEnd(n - 1) /\ Got(n - 1)
        /\ HasStrings(strings, list[n], m)
        /\ \/ j = StructureEnd(list, n) /\ m = Len(list[n].strings)
           \/ j = Size /\ ~whole
  BY <1>2, <1>3 DEF InStructure
<1>5. /\ WellFormed(list[n]) /\ Placed(data, list[n], i) /\ data \in Seq(Octet)
      /\ StructureEnd(list, n) = i + Len(Encoding(list[n])) /\ StructureEnd(list, n) \in Nat
      /\ Len(Encoding(list[n])) \in Nat
  BY <1>4, AtStructure DEF BoundsInv
<1>6. PICK s : s = list[n]
  OBVIOUS
<1>7. PICK N \in Nat : N = Len(list) /\ n \in 1..N /\ ListOK(list)
  BY <1>4, AtStructure DEF TableInv, TableOf
<1>8. PICK a \in Nat : /\ a = Len(s.area) /\ i + 4 <= z
                       /\ data[i + 1] = s.type /\ data[i + 2] = 4 + a
                       /\ 4 + a < Len(Encoding(s))
                       /\ \A p \in 1..a : i + 4 + p <= z => data[i + 4 + p] = s.area[p]
  <2>1. PICK o \in Nat : o = i
    BY <1>2
  <2>2. WellFormed(s) /\ Placed(data, s, o) /\ data \in Seq(Octet)
    BY <1>5, <1>6, <2>1
  <2>3. PICK a, len \in Nat : HeaderAt(data, s, o, a, len)
    BY <2>2, HeaderPlaced
  <2>4. i + 4 <= z
    BY <1>2
  <2> QED BY <1>1, <2>1, <2>3, <2>4 DEF HeaderAt
<1>9. stype = s.type /\ flen = 4 + a
  <2>1. i + 1 + 1 = i + 2
    BY <1>2
  <2> QED BY <1>8, <2>1 DEF stype, flen, Byte
<1>10. PICK k \in Nat : k = TYPE17_SERIAL_OFFSET /\ k >= 4
  BY SmbiosAssumption
<1>11. k < 4 + a => Byte(i + k) = s.area[k - 3]
  <2> SUFFICES ASSUME k < 4 + a PROVE Byte(i + k) = s.area[k - 3]
    OBVIOUS
  <2>1. PICK p \in 1..a : p = k - 3
    BY <1>10
  <2>2. i + k + 1 = i + 4 + p /\ i + 4 + p <= z
    BY <1>2, <1>9, <2>1
  <2> QED BY <1>8, <2>1, <2>2 DEF Byte
<1>12. /\ strings \in Seq(Seq(Octet)) /\ Len(strings) = m /\ DOMAIN strings = 1..m
       /\ \A p \in 1..m : strings[p] = s.strings[p]
  BY <1>4, <1>6, LenProperties DEF HasStrings
<1>13. DOMAIN s.strings = 1..Len(s.strings) /\ Len(s.strings) \in Nat
  BY <1>5, <1>6, LenProperties, StringsShape DEF WellFormed
<1> DEFINE found == /\ s.type = MemoryDevice /\ k < 4 + a /\ s.area[k - 3] \in 1..m
<1>14. out' = IF found THEN Append(out, SerialOf(s)) ELSE out
  <2>1. CASE found
    <3>1. stype = MemoryDevice /\ flen > TYPE17_SERIAL_OFFSET
      BY <1>9, <1>10, <2>1
    <3>2. PICK q \in 1..m : q = s.area[k - 3] /\ Byte(i + k) = q
      BY <1>11, <2>1
    <3>3. out' = Append(out, strings[q])
      BY <1>2, <1>10, <1>12, <3>1, <3>2
    <3>4. strings[q] = SerialOf(s)
      BY <1>10, <1>12, <3>2 DEF SerialOf
    <3> QED BY <2>1, <3>3, <3>4
  <2>2. CASE ~found
    <3>1. ~(/\ stype = MemoryDevice /\ flen > TYPE17_SERIAL_OFFSET
            /\ Byte(i + TYPE17_SERIAL_OFFSET) \in DOMAIN strings)
      <4> SUFFICES ASSUME stype = MemoryDevice, flen > TYPE17_SERIAL_OFFSET,
                          Byte(i + TYPE17_SERIAL_OFFSET) \in DOMAIN strings
                   PROVE  FALSE
        OBVIOUS
      <4>1. k < 4 + a
        BY <1>9, <1>10
      <4>2. s.area[k - 3] \in 1..m
        BY <1>10, <1>11, <1>12, <4>1
      <4> QED BY <1>9, <2>2, <4>1, <4>2
    <3> QED BY <1>2, <2>2, <3>1
  <2> QED BY <2>1, <2>2
<1>15. found => HasSerial(s)
  <2>1. m <= Len(s.strings)
    BY <1>4, <1>6, <1>13
  <2>2. \A x \in 1..m : x \in DOMAIN s.strings
    BY <1>13, <2>1
  <2>3. k < 4 + a <=> 4 + Len(s.area) > TYPE17_SERIAL_OFFSET
    BY <1>8, <1>10
  <2> QED BY <1>10, <2>2, <2>3 DEF HasSerial
<1>16. m = Len(s.strings) => (HasSerial(s) <=> found)
  BY <1>8, <1>10, <1>13, <1>15 DEF HasSerial
<1> HIDE DEF found
<1>17. Counts(list, n) <=> HasSerial(s)
  BY <1>4, <1>6 DEF Counts, NoEnd
<1>18. SerialMarks(SerialsUpTo(list), list)
  BY <1>7, SerialsDef
<1>19. SerialsUpTo(list)[n] = IF HasSerial(s) THEN Append(out, SerialOf(s)) ELSE out
  <2>1. SerialsUpTo(list)[n] = IF Counts(list, n)
          THEN Append(SerialsUpTo(list)[n - 1], SerialOf(list[n])) ELSE SerialsUpTo(list)[n - 1]
    BY <1>18 DEF SerialMarks
  <2> QED BY <1>4, <1>6, <1>17, <2>1 DEF Got
<1>20. n - 1 \in 0..N /\ n \in 0..N
  BY <1>7
<1>21. (out' = SerialsUpTo(list)[n - 1]) \/ (out' = SerialsUpTo(list)[n])
  BY <1>4, <1>14, <1>15, <1>19 DEF Got
<1>22. CASE j = StructureEnd(list, n) /\ m = Len(list[n].strings)
  <2>1. out' = SerialsUpTo(list)[n]
    BY <1>6, <1>14, <1>16, <1>19, <1>22
  <2>2. ~(j <= i)
    BY <1>2
  <2>3. CASE stype = EndOfTable
    <3>1. at' = "done"
      BY <2>3 DEF Record
    <3>2. SerialsUpTo(list)[Len(list)] = SerialsUpTo(list)[n]
      BY <1>6, <1>7, <1>9, <2>3, NothingAfterEnd
    <3>3. Got(Len(list))'
      BY <1>2, <2>1, <3>2 DEF Got
    <3> QED BY <3>1, <3>3 DEF WalkInv
  <2>4. CASE stype # EndOfTable
    <3>1. at' = "structure" /\ i' = j
      BY <2>2, <2>4 DEF Record
    <3>2. NoEnd(n)
      <4> SUFFICES ASSUME NEW p \in 1..n PROVE list[p].type # EndOfTable
        BY DEF NoEnd
      <4>1. CASE p = n
        BY <1>6, <1>9, <2>4, <4>1
      <4>2. CASE p # n
        <5>1. p \in 1 .. n - 1
          BY <1>7, <4>2
        <5> QED BY <1>4, <5>1 DEF NoEnd
      <4> QED BY <4>1, <4>2
    <3>3. Between(n)'
      BY <1>2, <1>22, <2>1, <3>1, <3>2 DEF Between, NoEnd, Got
    <3>4. n \in 0..Len(list')
      BY <1>2, <1>7, <1>20
    <3>5. (\E p \in 0..Len(list) : Between(p))'
      BY <3>3, <3>4
    <3> QED BY <3>1, <3>5 DEF WalkInv
  <2> QED BY <2>3, <2>4
<1>23. CASE j = Size /\ ~whole
  <2>1. (\E p \in 0..Len(list) : Got(p))'
    BY <1>2, <1>7, <1>20, <1>21 DEF Got
  <2>2. at' = "done" \/ (at' = "structure" /\ i' = j)
    BY DEF Record
  <2>3. Size' = z /\ j = z /\ ~whole'
    BY <1>1, <1>2, <1>23 DEF Size
  <2> QED BY <2>1, <2>2, <2>3 DEF WalkInv
<1> QED BY <1>4, <1>22, <1>23

(* The walk, whatever it does.                                              *)
LEMMA WalkStep ==
  ASSUME BoundsInv, TableInv, WalkInv, Walk
  PROVE  TableInv' /\ WalkInv'
PROOF
<1>1. data' = data /\ list' = list /\ whole' = whole
  BY DEF Walk, BeginStructure, StopWalk, ReadString, Unterminated, EmptySet, Record, table
<1>2. TableInv'
  BY <1>1 DEF TableInv
<1>3. CASE list = <<>>
  <2>1. list' = <<>>
    BY <1>1, <1>3
  <2>2. WalkInv'
    BY <2>1 DEF WalkInv
  <2> QED BY <1>2, <2>2
<1>4. CASE list # <<>>
  BY <1>2, <1>4, BeginStep, StopStep, ReadStep, UnterminatedStep, EmptyStep, RecordStep DEF Walk
<1> QED BY <1>2, <1>3, <1>4

(* At the first boot.                                                       *)
LEMMA WalkInit == Init => TableInv /\ WalkInv
PROOF
<1> SUFFICES ASSUME Init PROVE TableInv /\ WalkInv
  OBVIOUS
<1>1. CASE hw \in Machines /\ OwnTable
  <2>1. PICK l : l = hw.structures
    OBVIOUS
  <2>2. ListOK(l)
    BY <1>1, <2>1, MachineTables
  <2>3. TableOf(Encodings(l), l, TRUE)
    BY <2>2, WholeTable
  <2>4. Start(Encodings(l), l, TRUE)
    BY <1>1, <2>1 DEF OwnTable
  <2> QED BY <2>3, <2>4, WalkStart
<1>2. CASE AnyTable
  <2>1. CASE \E l \in Lists : LET table_of_l == Encodings(l) IN
               \E cut \in 0 .. Len(table_of_l) :
                 Start(SubSeq(table_of_l, 1, cut), l, cut = Len(table_of_l))
    <3>1. PICK l \in Lists : \E cut \in 0 .. Len(Encodings(l)) :
                 Start(SubSeq(Encodings(l), 1, cut), l, cut = Len(Encodings(l)))
      BY <2>1
    <3>2. PICK cut \in 0 .. Len(Encodings(l)) :
                 Start(SubSeq(Encodings(l), 1, cut), l, cut = Len(Encodings(l)))
      BY <3>1
    <3>3. PICK bytes : bytes = SubSeq(Encodings(l), 1, cut)
      OBVIOUS
    <3>4. TableOf(bytes, l, cut = Len(Encodings(l)))
      BY <3>3, ListTables, CutTable
    <3>5. PICK complete : complete = (cut = Len(Encodings(l)))
      OBVIOUS
    <3>6. Start(bytes, l, complete) /\ TableOf(bytes, l, complete)
      BY <3>2, <3>3, <3>4, <3>5
    <3> QED BY <3>6, WalkStart
  <2>2. CASE \E n \in 0..MaxBytes : \E bytes \in [1..n -> Bytes] : Start(bytes, <<>>, FALSE)
    <3>1. PICK n \in 0..MaxBytes : \E bytes \in [1..n -> Bytes] : Start(bytes, <<>>, FALSE)
      BY <2>2
    <3>2. PICK bytes \in [1..n -> Bytes] : Start(bytes, <<>>, FALSE)
      BY <3>1
    <3> QED BY <3>2, WalkStart
  <2> QED BY <1>2, <2>1, <2>2 DEF AnyTable
<1> QED BY <1>1, <1>2 DEF Init

(* Every step, that of another boot included.                               *)
LEMMA WalkNext == BoundsInv /\ TableInv /\ WalkInv /\ [Next]_vars => TableInv' /\ WalkInv'
PROOF
<1> SUFFICES ASSUME BoundsInv, TableInv, WalkInv, [Next]_vars PROVE TableInv' /\ WalkInv'
  OBVIOUS
<1>1. CASE WalkTable
  BY <1>1, WalkStep DEF WalkTable
<1>2. CASE UNCHANGED walk
  BY <1>2 DEF TableInv, WalkInv, Between, InStructure, HasStrings, Got, NoEnd, walk, table, Size
<1>3. CASE NextBoot
  <2>1. PICK m \in Machines : /\ list' = m.structures /\ data' = Encodings(m.structures)
                              /\ at' = "structure" /\ i' = 0 /\ out' = <<>> /\ whole' = TRUE
    BY <1>3 DEF NextBoot
  <2>2. PICK l : l = m.structures
    OBVIOUS
  <2>3. ListOK(l) /\ Len(l) \in Nat
    BY <2>2, MachineTables DEF ListOK
  <2>4. TableOf(Encodings(l), l, TRUE)
    BY <2>3, WholeTable
  <2>5. TableInv'
    BY <2>1, <2>2, <2>4 DEF TableInv
  <2>6. StructureEnd(l, 0) = 0 /\ SerialsUpTo(l)[0] = <<>>
    BY <2>3, EncodedShape, SerialsDef DEF StructureEnd, Marks, SerialMarks
  <2>7. Between(0)' /\ 0 \in 0..Len(list')
    BY <2>1, <2>2, <2>3, <2>6 DEF Between, NoEnd, Got
  <2>8. (\E n \in 0..Len(list) : Between(n))'
    BY <2>7
  <2>9. WalkInv'
    BY <2>1, <2>8 DEF WalkInv
  <2> QED BY <2>5, <2>9
<1>4. CASE CollectRam \/ CollectCpu \/ CollectDmi \/ CollectUsb \/ CollectEnd \/ UNCHANGED vars
  BY <1>2, <1>4 DEF CollectRam, CollectCpu, CollectDmi, CollectUsb, CollectEnd, vars
<1> QED BY <1>1, <1>3, <1>4 DEF Next, Program

(* parse_type17_serials gives back the serial numbers the firmware wrote,   *)
(* in order and each from its own structure; of a table that is cut off     *)
(* anywhere, a prefix of them: no other string is enrolled as a component.  *)
THEOREM SerialsAreExact == Spec => []ExactSerials
PROOF
<1>1. BoundsInv /\ TableInv /\ WalkInv => ExactSerials
  <2> SUFFICES ASSUME BoundsInv, TableInv, WalkInv, list # <<>>
               PROVE  /\ IsPrefix(out, Serials(list))
                      /\ at = "done" /\ whole => out = Serials(list)
    BY DEF ExactSerials
  <2>1. ListOK(list)
    BY DEF TableInv, TableOf
  <2>2. PICK N \in Nat : N = Len(list)
    BY <2>1 DEF ListOK
  <2>3. \A n \in 0..N : Got(n) => IsPrefix(out, Serials(list))
    BY <2>1, <2>2, SerialsGrow DEF Got, Serials
  <2>4. Got(N) => out = Serials(list)
    BY <2>2 DEF Got, Serials
  <2>5. \E n \in 0..N : Got(n)
    <3>1. CASE \E n \in 0..Len(list) : Between(n)
      BY <2>2, <3>1 DEF Between
    <3>2. CASE \E n \in 1..Len(list) : InStructure(n)
      <4>1. PICK n \in 1..N : InStructure(n)
        BY <2>2, <3>2
      <4>2. n - 1 \in 0..N /\ Got(n - 1)
        BY <4>1 DEF InStructure
      <4> QED BY <4>2
    <3>3. CASE Got(Len(list))
      BY <2>2, <3>3
    <3> QED BY <2>2, <3>1, <3>2, <3>3 DEF WalkInv
  <2>6. at = "done" /\ whole => Got(N)
    BY <2>2 DEF WalkInv
  <2> QED BY <2>3, <2>4, <2>5, <2>6
<1> QED BY <1>1, BoundsInit, BoundsNext, WalkInit, WalkNext, PTL DEF Spec
-----------------------------------------------------------------------------
(* The order of identifiers, and a set of them read in that order.          *)
Texts == Seq(Nat)
Ids   == [class : Range(ClassOrder), value : Texts]

(* Where a text becomes less than another one. *)
LessAt(a, b, n) ==
  /\ n \in Nat /\ 1 <= n /\ n <= Len(b) /\ n <= Len(a) + 1
  /\ \A m \in 1 .. n - 1 : a[m] = b[m]
  /\ n <= Len(a) => a[n] < b[n]

(* Two texts of the same characters are one. *)
LEMMA SameText ==
  ASSUME NEW a \in Texts, NEW b \in Texts, Len(a) = Len(b),
         \A n \in 1..Len(a) : a[n] = b[n]
  PROVE  a = b
PROOF
<1>1. PICK k \in Nat : k = Len(a)
  BY LenProperties DEF Texts
<1>2. a \in [1..k -> Nat] /\ b \in [1..k -> Nat]
  BY <1>1, LenProperties DEF Texts
<1> QED BY <1>1, <1>2

(* A character of a text. *)
LEMMA TextShape ==
  ASSUME NEW a \in Texts
  PROVE  /\ Len(a) \in Nat /\ DOMAIN a = 1..Len(a)
         /\ \A n \in 1..Len(a) : a[n] \in Nat
BY LenProperties DEF Texts

(* The first members of a list. *)
LEMMA FirstOf ==
  ASSUME NEW S, NEW a, NEW k \in Nat, \A n \in 1..k : a[n] \in S
  PROVE  /\ SubSeq(a, 1, k) \in Seq(S) /\ Len(SubSeq(a, 1, k)) = k
         /\ \A n \in 1..k : SubSeq(a, 1, k)[n] = a[n]
PROOF
<1>1. /\ SubSeq(a, 1, k) \in Seq(S)
      /\ Len(SubSeq(a, 1, k)) = IF 1 <= k THEN k - 1 + 1 ELSE 0
      /\ \A n \in 1 .. k - 1 + 1 : SubSeq(a, 1, k)[n] = a[1 + n - 1]
  BY SubSeqProperties
<1>2. \A n \in 1..k : n \in 1 .. k - 1 + 1 /\ 1 + n - 1 = n
  OBVIOUS
<1>3. Len(SubSeq(a, 1, k)) = k
  BY <1>1
<1>4. \A n \in 1..k : SubSeq(a, 1, k)[n] = a[n]
  BY <1>1, <1>2
<1> QED BY <1>1, <1>3, <1>4

(* Ord for String compares at the first character that differs, or where    *)
(* the shorter text ends.                                                   *)
LEMMA TextLessDef ==
  ASSUME NEW a \in Texts, NEW b \in Texts
  PROVE  TextLess(a, b) <=> \E n \in Nat : LessAt(a, b, n)
PROOF
<1>1. PICK k \in Nat : k = Len(a) /\ DOMAIN a = 1..k
  BY TextShape
<1>2. PICK l \in Nat : l = Len(b) /\ DOMAIN b = 1..l
  BY TextShape
<1>3. ASSUME k <= l
      PROVE  IsPrefix(a, b) <=> \A n \in 1..k : a[n] = b[n]
  <2>1. \A n \in 1..k : a[n] \in Nat /\ b[n] \in Nat
    BY <1>1, <1>2, <1>3, TextShape
  <2>2. PICK u : u = SubSeq(a, 1, k)
    OBVIOUS
  <2>3. PICK w : w = SubSeq(b, 1, k)
    OBVIOUS
  <2>4. u \in Texts /\ Len(u) = k /\ \A n \in 1..k : u[n] = a[n]
    <3>1. \A n \in 1..k : a[n] \in Nat
      BY <2>1
    <3>2. /\ SubSeq(a, 1, k) \in Seq(Nat) /\ Len(SubSeq(a, 1, k)) = k
          /\ \A n \in 1..k : SubSeq(a, 1, k)[n] = a[n]
      BY <3>1, FirstOf
    <3> QED BY <2>2, <3>2 DEF Texts
  <2>5. w \in Texts /\ Len(w) = k /\ \A n \in 1..k : w[n] = b[n]
    <3>1. \A n \in 1..k : b[n] \in Nat
      BY <2>1
    <3>2. /\ SubSeq(b, 1, k) \in Seq(Nat) /\ Len(SubSeq(b, 1, k)) = k
          /\ \A n \in 1..k : SubSeq(b, 1, k)[n] = b[n]
      BY <3>1, FirstOf
    <3> QED BY <2>3, <3>2 DEF Texts
  <2>6. u = w <=> \A n \in 1..k : a[n] = b[n]
    BY <1>1, <2>4, <2>5, SameText
  <2> QED BY <1>1, <1>2, <1>3, <2>2, <2>3, <2>6 DEF IsPrefix
<1>4. ASSUME IsStrictPrefix(a, b) PROVE \E n \in Nat : LessAt(a, b, n)
  <2>1. k <= l
    BY <1>1, <1>2, <1>4 DEF IsStrictPrefix, IsPrefix
  <2>2. \A n \in 1..k : a[n] = b[n]
    BY <1>3, <1>4, <2>1 DEF IsStrictPrefix
  <2>3. k # l
    BY <1>1, <1>2, <1>4, <2>2, SameText DEF IsStrictPrefix
  <2>4. LessAt(a, b, k + 1)
    BY <1>1, <1>2, <2>1, <2>2, <2>3 DEF LessAt
  <2> QED BY <2>4
<1>5. ASSUME NEW n \in DOMAIN a \cap DOMAIN b, a[n] < b[n], \A m \in 1 .. n - 1 : a[m] = b[m]
      PROVE  LessAt(a, b, n)
  BY <1>1, <1>2, <1>5 DEF LessAt
<1>6. ASSUME NEW n \in Nat, LessAt(a, b, n) PROVE TextLess(a, b)
  <2>1. CASE n <= k
    <3>1. n \in DOMAIN a \cap DOMAIN b /\ a[n] < b[n] /\ \A m \in 1 .. n - 1 : a[m] = b[m]
      BY <1>1, <1>2, <1>6, <2>1 DEF LessAt
    <3> QED BY <3>1 DEF TextLess
  <2>2. CASE n > k
    <3>1. n = k + 1 /\ k < l /\ \A m \in 1..k : a[m] = b[m]
      BY <1>1, <1>2, <1>6, <2>2 DEF LessAt
    <3>2. a # b
      BY <1>1, <1>2, <3>1
    <3> QED BY <1>3, <3>1, <3>2 DEF TextLess, IsStrictPrefix
  <2> QED BY <1>1, <1>6, <2>1, <2>2
<1>7. ASSUME TextLess(a, b) PROVE \E n \in Nat : LessAt(a, b, n)
  <2>1. CASE IsStrictPrefix(a, b)
    BY <1>4, <2>1
  <2>2. CASE \E n \in DOMAIN a \cap DOMAIN b :
               a[n] < b[n] /\ \A m \in 1 .. n - 1 : a[m] = b[m]
    <3>1. PICK n \in DOMAIN a \cap DOMAIN b :
                 a[n] < b[n] /\ \A m \in 1 .. n - 1 : a[m] = b[m]
      BY <2>2
    <3>2. n \in Nat /\ LessAt(a, b, n)
      BY <1>1, <1>5, <3>1
    <3> QED BY <3>2
  <2> QED BY <1>7, <2>1, <2>2 DEF TextLess
<1> QED BY <1>6, <1>7

(* It is a strict total order. *)
LEMMA TextOrder ==
  ASSUME NEW a \in Texts, NEW b \in Texts, NEW c \in Texts
  PROVE  /\ ~TextLess(a, a)
         /\ TextLess(a, b) /\ TextLess(b, c) => TextLess(a, c)
         /\ a = b \/ TextLess(a, b) \/ TextLess(b, a)
PROOF
<1>1. PICK k \in Nat : k = Len(a) /\ \A n \in 1..k : a[n] \in Nat
  BY TextShape
<1>2. PICK l \in Nat : l = Len(b) /\ \A n \in 1..l : b[n] \in Nat
  BY TextShape
<1>3. PICK r \in Nat : r = Len(c) /\ \A n \in 1..r : c[n] \in Nat
  BY TextShape
<1>4. ~TextLess(a, a)
  <2> SUFFICES ASSUME NEW n \in Nat, LessAt(a, a, n) PROVE FALSE
    BY TextLessDef
  <2>1. n \in 1..k /\ a[n] < a[n]
    BY <1>1 DEF LessAt
  <2> QED BY <1>1, <2>1
<1>5. ASSUME TextLess(a, b), TextLess(b, c) PROVE TextLess(a, c)
  <2>1. PICK n \in Nat : LessAt(a, b, n)
    BY <1>5, TextLessDef
  <2>2. PICK m \in Nat : LessAt(b, c, m)
    BY <1>5, TextLessDef
  <2>3. CASE n <= m
    <3>1. n <= r /\ n >= 1 /\ n <= k + 1 /\ n <= l
      BY <1>1, <1>2, <1>3, <2>1, <2>2, <2>3 DEF LessAt
    <3>2. \A p \in 1 .. n - 1 : a[p] = c[p]
      <4> SUFFICES ASSUME NEW p \in 1 .. n - 1 PROVE a[p] = c[p]
        OBVIOUS
      <4>1. a[p] = b[p] /\ p \in 1 .. m - 1
        BY <2>1, <2>3 DEF LessAt
      <4> QED BY <2>2, <4>1 DEF LessAt
    <3>3. n <= k => a[n] < c[n]
      <4> SUFFICES ASSUME n <= k PROVE a[n] < c[n]
        OBVIOUS
      <4>1. n \in 1..k /\ n \in 1..l /\ n \in 1..r /\ a[n] < b[n]
        BY <1>1, <2>1, <3>1 DEF LessAt
      <4>2. b[n] = c[n] \/ b[n] < c[n]
        <5>1. CASE n < m
          <6>1. n \in 1 .. m - 1
            BY <3>1, <5>1
          <6> QED BY <2>2, <6>1 DEF LessAt
        <5>2. CASE n = m
          BY <1>2, <2>2, <3>1, <5>2 DEF LessAt
        <5> QED BY <2>3, <5>1, <5>2
      <4>3. a[n] \in Nat /\ b[n] \in Nat /\ c[n] \in Nat
        BY <1>1, <1>2, <1>3, <4>1
      <4> QED BY <4>1, <4>2, <4>3
    <3>4. LessAt(a, c, n)
      BY <1>1, <1>3, <3>1, <3>2, <3>3 DEF LessAt
    <3> QED BY <3>4, TextLessDef
  <2>4. CASE m < n
    <3>1. m <= r /\ m >= 1 /\ m <= k
      BY <1>1, <1>2, <1>3, <2>1, <2>2, <2>4 DEF LessAt
    <3>2. \A p \in 1 .. m - 1 : a[p] = c[p]
      <4> SUFFICES ASSUME NEW p \in 1 .. m - 1 PROVE a[p] = c[p]
        OBVIOUS
      <4>1. b[p] = c[p] /\ p \in 1 .. n - 1
        BY <2>2, <2>4 DEF LessAt
      <4> QED BY <2>1, <4>1 DEF LessAt
    <3>3. a[m] = b[m]
      <4>1. m \in 1 .. n - 1
        BY <2>4, <3>1
      <4> QED BY <2>1, <4>1 DEF LessAt
    <3>4. b[m] < c[m]
      BY <1>2, <2>1, <2>2, <2>4 DEF LessAt
    <3>5. LessAt(a, c, m)
      BY <1>1, <1>3, <3>1, <3>2, <3>3, <3>4 DEF LessAt
    <3> QED BY <3>5, TextLessDef
  <2> QED BY <2>3, <2>4
<1>6. a = b \/ TextLess(a, b) \/ TextLess(b, a)
  <2> DEFINE T == {n \in Nat : /\ n >= 1 /\ n <= k + 1 /\ n <= l + 1
                               /\ n = k + 1 \/ n = l + 1 \/ a[n] # b[n]}
  <2>1. T # {}
    <3>1. CASE k <= l
      <4>1. k + 1 \in T
        BY <3>1
      <4> QED BY <4>1
    <3>2. CASE l < k
      <4>1. l + 1 \in T
        BY <3>2
      <4> QED BY <4>1
    <3> QED BY <3>1, <3>2
  <2>2. PICK n \in T : \A m \in T : n <= m
    <3>1. T \in SUBSET Nat
      OBVIOUS
    <3> HIDE DEF T
    <3> QED BY <2>1, <3>1, NatMin
  <2>3. \A p \in 1 .. n - 1 : a[p] = b[p]
    <3> SUFFICES ASSUME NEW p \in 1 .. n - 1, a[p] # b[p] PROVE FALSE
      OBVIOUS
    <3>1. p \in T
      BY <2>2
    <3> QED BY <2>2, <3>1
  <2>4. CASE n <= k /\ n <= l
    <3>1. a[n] \in Nat /\ b[n] \in Nat /\ a[n] # b[n]
      BY <1>1, <1>2, <2>2, <2>4
    <3>2. LessAt(a, b, n) \/ LessAt(b, a, n)
      BY <1>1, <1>2, <2>2, <2>3, <2>4, <3>1 DEF LessAt
    <3> QED BY <3>2, <2>2, TextLessDef
  <2>5. CASE n = k + 1 /\ n = l + 1
    BY <1>1, <1>2, <2>3, <2>5, SameText
  <2>6. CASE n = k + 1 /\ n <= l
    <3>1. LessAt(a, b, n)
      BY <1>1, <1>2, <2>2, <2>3, <2>6 DEF LessAt
    <3> QED BY <3>1, <2>2, TextLessDef
  <2>7. CASE n = l + 1 /\ n <= k
    <3>1. LessAt(b, a, n)
      BY <1>1, <1>2, <2>2, <2>3, <2>7 DEF LessAt
    <3> QED BY <3>1, <2>2, TextLessDef
  <2> QED BY <2>2, <2>4, <2>5, <2>6, <2>7
<1> QED BY <1>4, <1>5, <1>6

(* The classes in the order of their variants.                              *)
LEMMA RankDef ==
  /\ Rank("ram_serial") = 1 /\ Rank("cpu") = 2 /\ Rank("board_serial") = 3
  /\ Rank("product_uuid") = 4 /\ Rank("usb_device") = 5
  /\ Range(ClassOrder) = {"ram_serial", "cpu", "board_serial", "product_uuid", "usb_device"}
PROOF
<1>1. DOMAIN ClassOrder = 1..5
  BY DEF ClassOrder
<1>2. /\ ClassOrder[1] = "ram_serial" /\ ClassOrder[2] = "cpu"
      /\ ClassOrder[3] = "board_serial" /\ ClassOrder[4] = "product_uuid"
      /\ ClassOrder[5] = "usb_device"
  BY DEF ClassOrder
<1>3. \A n \in 1..5 : n = 1 \/ n = 2 \/ n = 3 \/ n = 4 \/ n = 5
  OBVIOUS
<1>4. ASSUME NEW n \in 1..5 PROVE Rank(ClassOrder[n]) = n
  BY <1>1, <1>2, <1>3 DEF Rank
<1>5. Range(ClassOrder) = {ClassOrder[n] : n \in 1..5}
  BY <1>1 DEF Range
<1> QED BY <1>2, <1>3, <1>4, <1>5

(* Identifiers are in a strict total order, classes first.                  *)
LEMMA IdOrder ==
  ASSUME NEW x \in Ids, NEW y \in Ids, NEW z \in Ids
  PROVE  /\ ~IdLess(x, x)
         /\ IdLess(x, y) /\ IdLess(y, z) => IdLess(x, z)
         /\ x = y \/ IdLess(x, y) \/ IdLess(y, x)
PROOF
<1>1. \A u \in Ids : u.value \in Texts /\ Rank(u.class) \in 1..5 /\ u.class \in Range(ClassOrder)
  BY RankDef DEF Ids
<1>2. \A c, d \in Range(ClassOrder) : Rank(c) = Rank(d) => c = d
  BY RankDef
<1>3. ~IdLess(x, x)
  BY <1>1, TextOrder DEF IdLess
<1>4. ASSUME IdLess(x, y), IdLess(y, z) PROVE IdLess(x, z)
  <2>1. TextLess(x.value, y.value) /\ TextLess(y.value, z.value) => TextLess(x.value, z.value)
    BY <1>1, TextOrder
  <2> QED BY <1>1, <1>4, <2>1 DEF IdLess
<1>5. x = y \/ IdLess(x, y) \/ IdLess(y, x)
  <2>1. x.value = y.value \/ TextLess(x.value, y.value) \/ TextLess(y.value, x.value)
    BY <1>1, TextOrder
  <2>2. x.class = y.class /\ x.value = y.value => x = y
    BY DEF Ids
  <2>3. x.class = y.class \/ Rank(x.class) < Rank(y.class) \/ Rank(y.class) < Rank(x.class)
    BY <1>1, <1>2
  <2> QED BY <2>1, <2>2, <2>3 DEF IdLess
<1> QED BY <1>3, <1>4, <1>5

(* Reading a BTreeSet gives each of its members once, in their order: the   *)
(* place of a member is the number of those before it.                      *)
LEMMA InOrderShape ==
  ASSUME NEW S \in SUBSET Ids, IsFiniteSet(S)
  PROVE  /\ Cardinality(S) \in Nat /\ Len(InOrder(S)) = Cardinality(S)
         /\ InOrder(S) \in Seq(S) /\ Range(InOrder(S)) = S
         /\ \A p, q \in 1..Cardinality(S) :
              p < q => IdLess(InOrder(S)[p], InOrder(S)[q])
PROOF
<1>1. PICK N \in Nat : N = Cardinality(S)
  BY FS_CardinalityType
<1> DEFINE Below(x) == {y \in S : IdLess(y, x)}
           g == [x \in S |-> Cardinality(Below(x)) + 1]
           f == InOrder(S)
<1>2. ASSUME NEW x \in S
      PROVE  Cardinality(Below(x)) \in Nat /\ Cardinality(Below(x)) < N
  <2>1. Below(x) \in SUBSET (S \ {x})
    BY IdOrder
  <2>2. IsFiniteSet(S \ {x}) /\ Cardinality(S \ {x}) = N - 1
    BY <1>1, FS_RemoveElement
  <2> HIDE DEF Below
  <2>3. IsFiniteSet(Below(x)) /\ Cardinality(Below(x)) <= N - 1
    BY <2>1, <2>2, FS_Subset
  <2> QED BY <1>1, <2>3, FS_CardinalityType
<1>3. ASSUME NEW x \in S, NEW y \in S, IdLess(x, y)
      PROVE  Cardinality(Below(x)) < Cardinality(Below(y))
  <2>1. Below(x) \in SUBSET Below(y)
    BY <1>3, IdOrder
  <2>2. x \in Below(y) /\ x \notin Below(x)
    BY <1>3, IdOrder
  <2>3. Below(y) \in SUBSET S
    OBVIOUS
  <2> HIDE DEF Below
  <2>4. IsFiniteSet(Below(y))
    BY <2>3, FS_Subset
  <2>5. /\ Cardinality(Below(x)) <= Cardinality(Below(y))
        /\ Cardinality(Below(y)) = Cardinality(Below(x)) => Below(y) = Below(x)
    BY <2>1, <2>4, FS_Subset
  <2> QED BY <1>2, <2>2, <2>5
<1>4. \A x, y \in S : x = y \/ IdLess(x, y) \/ IdLess(y, x)
  BY IdOrder
<1>5. \A n \in 1..N : f[n] = CHOOSE x \in S : Cardinality(Below(x)) = n - 1
  BY <1>1 DEF InOrder
<1>6. DOMAIN f = 1..N
  BY <1>1 DEF InOrder
<1> HIDE DEF Below, f
<1>7. g \in [S -> 1..N]
  BY <1>2
<1>8. \A x, y \in S : g[x] = g[y] => x = y
  BY <1>2, <1>3, <1>4
<1>9. \A x \in S : g[x] = Cardinality(Below(x)) + 1
  OBVIOUS
<1> HIDE DEF g
<1>10. g \in Injection(S, 1..N)
  BY <1>7, <1>8 DEF Injection, IsInjective
<1>11. IsFiniteSet(1..N) /\ Cardinality(1..N) = N
  BY FS_Interval
<1>12. g \in Surjection(S, 1..N)
  BY <1>1, <1>10, <1>11, FS_Injection
<1>13. \A n \in 1..N : f[n] \in S /\ Cardinality(Below(f[n])) = n - 1
  <2> SUFFICES ASSUME NEW n \in 1..N PROVE f[n] \in S /\ Cardinality(Below(f[n])) = n - 1
    OBVIOUS
  <2>1. PICK x \in S : g[x] = n
    BY <1>12 DEF Surjection
  <2>2. Cardinality(Below(x)) = n - 1
    BY <1>2, <1>9, <2>1
  <2> QED BY <1>5, <2>2
<1>14. \A x \in S : \E n \in 1..N : f[n] = x
  <2> SUFFICES ASSUME NEW x \in S PROVE \E n \in 1..N : f[n] = x
    OBVIOUS
  <2>1. PICK n \in 1..N : n = Cardinality(Below(x)) + 1
    BY <1>2
  <2>2. f[n] \in S /\ g[f[n]] = n /\ g[x] = n
    BY <1>9, <1>13, <2>1
  <2> QED BY <1>8, <2>2
<1>15. f = [n \in 1..N |-> f[n]]
  BY <1>1 DEF InOrder, f
<1>16. f \in [1..N -> S]
  BY <1>13, <1>15
<1>17. f \in Seq(S) /\ Len(f) = N
  BY <1>16
<1>18. Range(f) = S
  BY <1>6, <1>13, <1>14 DEF Range
<1>19. ASSUME NEW p \in 1..N, NEW q \in 1..N, p < q PROVE IdLess(f[p], f[q])
  <2>1. Cardinality(Below(f[p])) < Cardinality(Below(f[q]))
    BY <1>13, <1>19
  <2>2. ~IdLess(f[q], f[p]) /\ f[p] # f[q]
    BY <1>2, <1>3, <1>13, <2>1
  <2> QED BY <1>4, <1>13, <2>2
<1> QED BY <1>1, <1>17, <1>18, <1>19 DEF f
-----------------------------------------------------------------------------
(* The texts identifiers are made of.                                       *)

(* The images of a finite set are finitely many. *)
LEMMA FiniteImage ==
  ASSUME NEW S, IsFiniteSet(S), NEW f
  PROVE  IsFiniteSet({f[x] : x \in S})
PROOF
<1> DEFINE T == {f[x] : x \in S}
           g == [x \in S |-> f[x]]
<1>1. g \in Surjection(S, T)
  BY DEF Surjection
<1> HIDE DEF g
<1> QED BY <1>1, FS_Surjection

(* split_whitespace and join keep a character that is no space, and a space *)
(* that follows one when another comes later.                               *)
Stays(text, p) ==
  \/ text[p] # Space
  \/ /\ p > 1 /\ text[p - 1] # Space
     /\ \E q \in p + 1 .. Len(text) : text[q] # Space

(* What is kept of the first p characters, for each p. *)
LEMMA CollapseDef ==
  ASSUME NEW text \in Texts
  PROVE  \E kept \in [0 .. Len(text) -> Texts] :
           /\ kept[0] = <<>>
           /\ \A p \in 1 .. Len(text) :
                kept[p] = IF Stays(text, p) THEN Append(kept[p - 1], text[p]) ELSE kept[p - 1]
           /\ Collapse(text) = kept[Len(text)]
PROOF
<1> DEFINE N == Len(text)
           Keep(p) == \/ text[p] # Space
                      \/ /\ p > 1 /\ text[p - 1] # Space
                         /\ \E q \in p + 1 .. Len(text) : text[q] # Space
           base == <<>>
           G == [p \in 1..N |-> [v \in Texts |-> IF Keep(p) THEN Append(v, text[p]) ELSE v]]
           Rec(h) == [p \in 0..N |-> IF p = 0 THEN <<>>
                                     ELSE IF Keep(p) THEN Append(h[p - 1], text[p]) ELSE h[p - 1]]
<1>1. N \in Nat /\ base \in Texts /\ \A p \in 1..N : text[p] \in Nat
  BY TextShape DEF Texts
<1> HIDE DEF Keep
<1>2. G \in [1..N -> [Texts -> Texts]]
  <2> SUFFICES ASSUME NEW p \in 1..N, NEW v \in Texts
               PROVE  (IF Keep(p) THEN Append(v, text[p]) ELSE v) \in Texts
    OBVIOUS
  <2>1. text[p] \in Nat
    BY <1>1
  <2>2. Append(v, text[p]) \in Texts
    BY <2>1, AppendProperties DEF Texts
  <2> QED BY <2>2
<1>3. PICK f \in [0..N -> Texts] : Recurs(f, base, G, N)
  <2> HIDE DEF G, N, base
  <2> QED BY <1>1, <1>2, Recursion
<1>4. /\ f \in [0..N -> Texts] /\ f[0] = base
      /\ \A p \in 1..N : f[p] = G[p][f[p - 1]]
  BY <1>3 DEF Recurs
<1>5. \A p \in 1..N : f[p] = IF Keep(p) THEN Append(f[p - 1], text[p]) ELSE f[p - 1]
  <2> SUFFICES ASSUME NEW p \in 1..N
               PROVE  f[p] = IF Keep(p) THEN Append(f[p - 1], text[p]) ELSE f[p - 1]
    OBVIOUS
  <2>1. PICK q \in 0..N : q = p - 1
    BY <1>1
  <2>2. f[p] = G[p][f[q]] /\ f[q] \in Texts
    <3> HIDE DEF G, N
    <3> QED BY <1>4, <2>1
  <2>3. G[p] = [v \in Texts |-> IF Keep(p) THEN Append(v, text[p]) ELSE v]
    OBVIOUS
  <2> HIDE DEF G
  <2> QED BY <2>1, <2>2, <2>3
<1>6. f = Rec(f)
  <2>1. \A p \in 0..N : p # 0 => p \in 1..N
    BY <1>1
  <2> HIDE DEF G, N
  <2>2. \A p \in 0..N : f[p] = Rec(f)[p]
    BY <1>4, <1>5, <2>1
  <2>3. f = [p \in 0..N |-> f[p]]
    BY <1>4
  <2> QED BY <2>2, <2>3
<1> DEFINE u == CHOOSE h : h = Rec(h)
<1>7. u = Rec(u)
  <2> HIDE DEF Rec
  <2> QED BY <1>6
<1> HIDE DEF u
<1>8. /\ u[0] = <<>>
      /\ \A p \in 1..N : u[p] = IF Keep(p) THEN Append(u[p - 1], text[p]) ELSE u[p - 1]
  <2>1. u[0] = Rec(u)[0] /\ \A p \in 1..N : u[p] = Rec(u)[p]
    BY <1>7
  <2>2. 0 \in 0..N /\ \A p \in 1..N : p \in 0..N /\ p # 0
    BY <1>1
  <2> HIDE DEF N
  <2> QED BY <2>1, <2>2
<1>9. \A p \in 0..N : u[p] = f[p]
  <2> DEFINE T == {p \in 0..N : u[p] = f[p]}
  <2>1. 0 \in T
    BY <1>1, <1>4, <1>8
  <2>2. \A p \in 0 .. N - 1 : p \in T => p + 1 \in T
    <3> SUFFICES ASSUME NEW p \in 0 .. N - 1, u[p] = f[p] PROVE u[p + 1] = f[p + 1]
      BY <1>1
    <3>1. PICK q \in 1..N : q = p + 1 /\ q - 1 = p
      BY <1>1
    <3> HIDE DEF N, G
    <3> QED BY <1>5, <1>8, <3>1
  <2> HIDE DEF T, N
  <2>3. 0..N \subseteq T
    BY <1>1, <2>1, <2>2, NatSetInduction
  <2> QED BY <2>3 DEF T
<1>10. Collapse(text) = u[N]
  BY DEF Collapse, u, Keep
<1>11. N \in 0..N
  BY <1>1
<1>12. \A p \in 1..N : Keep(p) <=> Stays(text, p)
  BY DEF Keep, Stays
<1>13. /\ f[0] = <<>> /\ Collapse(text) = f[N]
       /\ \A p \in 1..N : f[p] = IF Stays(text, p) THEN Append(f[p - 1], text[p]) ELSE f[p - 1]
  <2> HIDE DEF N, G
  <2> QED BY <1>4, <1>5, <1>9, <1>10, <1>11, <1>12
<1> QED BY <1>4, <1>13

(* A text of the collapsed kind: some of its characters.                    *)
LEMMA CollapseText ==
  ASSUME NEW text \in Texts
  PROVE  Collapse(text) \in Texts
PROOF
<1>1. Len(text) \in 0 .. Len(text)
  BY TextShape
<1> QED BY <1>1, CollapseDef

(* In lower case. *)
LEMMA LoweredText ==
  ASSUME NEW text \in Texts
  PROVE  Lowered(text) \in Texts
PROOF
<1>1. PICK k \in Nat : k = Len(text) /\ DOMAIN text = 1..k /\ \A p \in 1..k : text[p] \in Nat
  BY TextShape
<1>2. Lowered(text) \in [1..k -> Nat]
  BY <1>1 DEF Lowered, Lower
<1> QED BY <1>2, SeqDef DEF Texts

(* What canonicalize gives back is a text. *)
LEMMA CanonicalText ==
  ASSUME NEW text \in Texts
  PROVE  Canonical(text) \in Texts
BY CollapseText, LoweredText DEF Canonical

(* The greatest of some natural numbers up to k. *)
LEMMA NatMax ==
  ASSUME NEW k \in Nat, NEW T \in SUBSET (1..k), T # {}
  PROVE  Max(T) \in T /\ Min(T) \in T
PROOF
<1>1. PICK x \in T : \A y \in T : x <= y
  BY NatMin
<1>2. Min(T) \in T
  BY <1>1 DEF Min
<1> DEFINE U == {k - y : y \in T}
<1>3. U \in SUBSET Nat /\ U # {}
  OBVIOUS
<1>4. PICK z \in U : \A y \in U : z <= y
  <2> HIDE DEF U
  <2> QED BY <1>3, NatMin
<1>5. PICK w \in T : z = k - w
  BY <1>4
<1>6. \A y \in T : w >= y
  <2> SUFFICES ASSUME NEW y \in T PROVE w >= y
    OBVIOUS
  <2>1. k - w <= k - y
    BY <1>4, <1>5
  <2> QED BY <2>1
<1>7. Max(T) \in T
  BY <1>6 DEF Max
<1> QED BY <1>2, <1>7

(* An attribute of a USB device is a text, trimmed. *)
LEMMA AttrText ==
  ASSUME NEW text \in Texts
  PROVE  Attr(text) \in Texts
PROOF
<1>1. PICK k \in Nat : k = Len(text) /\ DOMAIN text = 1..k /\ \A p \in 1..k : text[p] \in Nat
  BY TextShape
<1> DEFINE inside == {p \in DOMAIN text : text[p] # Space}
<1>2. CASE inside = {}
  BY <1>2 DEF Attr, Texts
<1>3. CASE inside # {}
  <2>1. inside \in SUBSET (1..k)
    BY <1>1
  <2>2. Attr(text) = Lowered(SubSeq(text, Min(inside), Max(inside)))
    BY <1>3 DEF Attr
  <2> HIDE DEF inside
  <2>3. PICK a \in 1..k : a = Min(inside)
    BY <1>3, <2>1, NatMax
  <2>4. PICK b \in 1..k : b = Max(inside)
    BY <1>3, <2>1, NatMax
  <2>5. \A p \in a..b : text[p] \in Nat
    BY <1>1
  <2>6. SubSeq(text, a, b) \in Texts
    BY <2>5, SubSeqProperties DEF Texts
  <2> QED BY <2>2, <2>3, <2>4, <2>6, LoweredText
<1> QED BY <1>2, <1>3

(* The identifiers made of some texts, of one class. *)
LEMMA IdentifiersShape ==
  ASSUME NEW class \in Range(ClassOrder), NEW texts \in SUBSET Texts, IsFiniteSet(texts)
  PROVE  /\ Identifiers(class, texts) \in SUBSET Ids
         /\ IsFiniteSet(Identifiers(class, texts))
PROOF
<1> DEFINE kept == {t \in texts : ~Junk(Canonical(t))}
           f == [t \in kept |-> [class |-> class, value |-> Canonical(t)]]
<1>1. Identifiers(class, texts) = {f[t] : t \in kept}
  BY DEF Identifiers
<1>2. \A t \in kept : f[t] \in Ids
  BY CanonicalText DEF Ids
<1>3. kept \in SUBSET texts
  OBVIOUS
<1> HIDE DEF f, kept
<1>4. IsFiniteSet(kept)
  BY <1>3, FS_Subset
<1> QED BY <1>1, <1>2, <1>4, FiniteImage

(* The text of a processor. *)
LEMMA CpuTextShape ==
  ASSUME NEW c, c.vendor \in Texts
  PROVE  CpuText(c) \in Texts
PROOF
<1>1. ASSUME NEW r PROVE Bits(r) \in Texts
  <2>0. PICK k \in Nat : k = 32
    OBVIOUS
  <2>1. Bits(r) \in [1..k -> Nat]
    BY <2>0 DEF Bits
  <2> QED BY <2>1, SeqDef DEF Texts
<1>2. <<59>> \in Texts /\ <<58>> \in Texts
  BY DEF Texts
<1>3. \A a, b \in Texts : a \o b \in Texts
  BY ConcatProperties DEF Texts
<1>4. PICK eax \in Texts : eax = Bits(c.eax \cap Unmasked)
  BY <1>1
<1>5. PICK ecx \in Texts : ecx = Bits(c.ecx \ {27, 31})
  BY <1>1
<1>6. PICK edx \in Texts : edx = Bits(c.edx)
  BY <1>1
<1>7. CpuText(c) = c.vendor \o <<59>> \o eax \o <<59>> \o ecx \o <<58>> \o edx
  BY <1>4, <1>5, <1>6 DEF CpuText
<1>8. c.vendor \o <<59>> \in Texts
  BY <1>2, <1>3
<1>9. c.vendor \o <<59>> \o eax \o <<59>> \in Texts
  BY <1>2, <1>3, <1>8
<1>10. c.vendor \o <<59>> \o eax \o <<59>> \o ecx \o <<58>> \in Texts
  BY <1>2, <1>3, <1>9
<1> QED BY <1>3, <1>7, <1>10

(* The identifiers of one USB device: one or none, of its class. *)
LEMMA UsbShape ==
  ASSUME NEW d, {d.vid, d.pid, d.serial} \subseteq Texts
  PROVE  UsbIdentifiers(d) \in SUBSET Ids /\ IsFiniteSet(UsbIdentifiers(d))
PROOF
<1>1. PICK t : t = Attr(d.vid) \o <<58>> \o Attr(d.pid) \o <<58>> \o Canonical(Attr(d.serial))
  OBVIOUS
<1>2. Attr(d.vid) \in Texts /\ Attr(d.pid) \in Texts /\ Canonical(Attr(d.serial)) \in Texts
  BY AttrText, CanonicalText
<1>3. \A a, b \in Texts : a \o b \in Texts
  BY ConcatProperties DEF Texts
<1>4. <<58>> \in Texts
  BY DEF Texts
<1>5. t \in Texts
  BY <1>1, <1>2, <1>3, <1>4
<1>6. {t} \in SUBSET Texts /\ IsFiniteSet({t}) /\ "usb_device" \in Range(ClassOrder)
  BY <1>5, FS_Singleton, RankDef
<1>7. Identifiers("usb_device", {t}) \in SUBSET Ids /\ IsFiniteSet(Identifiers("usb_device", {t}))
  BY <1>6, IdentifiersShape
<1>8. UsbIdentifiers(d) = {} \/ UsbIdentifiers(d) = Identifiers("usb_device", {t})
  BY <1>1 DEF UsbIdentifiers
<1> QED BY <1>7, <1>8, FS_EmptySet
-----------------------------------------------------------------------------
(* The identifiers of a machine. *)
RamIds(m) == Identifiers("ram_serial", Range(Serials(m.structures)))
CpuIds(m) == Identifiers("cpu", {CpuText(c) : c \in m.cpus})
DmiIds(m) == Identifiers("board_serial", {m.dmi.board_serial})
               \cup Identifiers("product_uuid", {m.dmi.product_uuid})
UsbIds(m) == UNION {UsbIdentifiers(d) : d \in m.usb}
IdsOf(m)  == RamIds(m) \cup CpuIds(m) \cup DmiIds(m) \cup UsbIds(m)

(* The texts a machine is read as. *)
LEMMA MachineTexts ==
  ASSUME NEW m \in Machines \cup {Bare}
  PROVE  /\ CpuIds(m) \in SUBSET Ids /\ IsFiniteSet(CpuIds(m))
         /\ DmiIds(m) \in SUBSET Ids /\ IsFiniteSet(DmiIds(m))
         /\ IsFiniteSet(m.usb)
         /\ \A d \in m.usb : UsbIdentifiers(d) \in SUBSET Ids /\ IsFiniteSet(UsbIdentifiers(d))
PROOF
<1>1. Plausible(m)
  BY CollectAssumption
<1>2. /\ IsFiniteSet(m.cpus) /\ \A c \in m.cpus : c.vendor \in Texts
      /\ m.dmi.board_serial \in Texts /\ m.dmi.product_uuid \in Texts
      /\ IsFiniteSet(m.usb) /\ \A d \in m.usb : {d.vid, d.pid, d.serial} \subseteq Texts
  BY <1>1 DEF Plausible, Texts
<1>3. CpuIds(m) \in SUBSET Ids /\ IsFiniteSet(CpuIds(m))
  <2> DEFINE f == [c \in m.cpus |-> CpuText(c)]
             T == {f[c] : c \in m.cpus}
  <2>1. T \in SUBSET Texts
    BY <1>2, CpuTextShape
  <2>2. {CpuText(c) : c \in m.cpus} = T
    OBVIOUS
  <2> HIDE DEF f
  <2>3. IsFiniteSet(T)
    BY <1>2, FiniteImage
  <2> HIDE DEF T
  <2> QED BY <2>1, <2>2, <2>3, IdentifiersShape, RankDef DEF CpuIds
<1>4. ASSUME NEW t \in Texts, NEW class \in Range(ClassOrder)
      PROVE  Identifiers(class, {t}) \in SUBSET Ids /\ IsFiniteSet(Identifiers(class, {t}))
  <2>1. {t} \in SUBSET Texts /\ IsFiniteSet({t})
    BY FS_Singleton
  <2> QED BY <2>1, IdentifiersShape
<1>5. PICK A : A = Identifiers("board_serial", {m.dmi.board_serial})
  OBVIOUS
<1>6. PICK B : B = Identifiers("product_uuid", {m.dmi.product_uuid})
  OBVIOUS
<1>7. A \in SUBSET Ids /\ IsFiniteSet(A) /\ B \in SUBSET Ids /\ IsFiniteSet(B)
  BY <1>2, <1>4, <1>5, <1>6, RankDef
<1>8. DmiIds(m) \in SUBSET Ids /\ IsFiniteSet(DmiIds(m))
  BY <1>5, <1>6, <1>7, FS_Union DEF DmiIds
<1> QED BY <1>2, <1>3, <1>8, UsbShape

(* The serials of the memory. *)
LEMMA RamTexts ==
  ASSUME NEW l \in Seq(Seq(Octet))
  PROVE  /\ Identifiers("ram_serial", Range(l)) \in SUBSET Ids
         /\ IsFiniteSet(Identifiers("ram_serial", Range(l)))
PROOF
<1>1. PICK k \in Nat : k = Len(l) /\ DOMAIN l = 1..k /\ \A n \in 1..k : l[n] \in Seq(Octet)
  BY LenProperties
<1>2. Range(l) = {l[n] : n \in 1..k}
  BY <1>1 DEF Range
<1>3. IsFiniteSet(1..k)
  BY FS_Interval
<1>4. IsFiniteSet(Range(l))
  BY <1>2, <1>3, FiniteImage
<1>5. \A s \in Seq(Octet) : s \in Texts
  <2> SUFFICES ASSUME NEW s \in Seq(Octet) PROVE s \in Texts
    OBVIOUS
  <2>1. Len(s) \in Nat /\ s \in [1..Len(s) -> Octet]
    BY LenProperties
  <2>2. s \in [1..Len(s) -> Nat]
    BY <2>1, OctetDef
  <2> QED BY <2>1, <2>2, SeqDef DEF Texts
<1>6. Range(l) \in SUBSET Texts
  BY <1>1, <1>2, <1>5
<1> QED BY <1>4, <1>6, IdentifiersShape, RankDef
-----------------------------------------------------------------------------
(* What is collected is a finite set of identifiers, read in its order.     *)
TextsInv == strings \in Seq(Seq(Octet)) /\ out \in Seq(Seq(Octet))

SetInv ==
  /\ hw \in Machines \cup {Bare}
  /\ source \in {"smbios", "cpuid", "dmi-id", "usb", "done"}
  /\ set \in SUBSET Ids /\ IsFiniteSet(set)
  /\ pending \in SUBSET hw.usb
  /\ source = "done" =>
       /\ all = InOrder(set)
       /\ ids = SubSeq(all, 1, Min({MAX_SHARES, Len(all)}))

(* The walk collects texts. *)
LEMMA TextsStep ==
  ASSUME BoundsInv, TextsInv, Walk
  PROVE  TextsInv'
PROOF
<1>1. PICK z \in Nat : z = Size /\ z = Len(data)
  BY LenProperties DEF BoundsInv, Size
<1>2. \A n \in 1..z : data[n] \in Octet
  BY <1>1, ElementOfSeq DEF BoundsInv
<1>3. i \in Nat /\ j \in Nat
  BY DEF BoundsInv
<1>4. CASE ReadString
  <2>1. PICK e \in j .. Size - 1 : strings' = Append(strings, SubSeq(data, j + 1, e))
    BY <1>4 DEF ReadString
  <2>2. \A n \in j + 1 .. e : data[n] \in Octet
    BY <1>1, <1>2, <1>3, <2>1
  <2>3. j + 1 \in Int /\ e \in Int
    BY <1>1, <1>3, <2>1
  <2>4. SubSeq(data, j + 1, e) \in Seq(Octet)
    BY <2>2, <2>3, SubSeqProperties
  <2>5. strings' \in Seq(Seq(Octet))
    BY <2>1, <2>4, AppendProperties DEF TextsInv
  <2> QED BY <1>4, <2>5 DEF ReadString, TextsInv
<1>5. CASE Record
  <2>1. strings' = strings
    BY <1>5 DEF Record
  <2>2. CASE out' = out
    BY <2>1, <2>2 DEF TextsInv
  <2>3. CASE \E n \in DOMAIN strings : out' = Append(out, strings[n])
    <3>1. PICK n \in DOMAIN strings : out' = Append(out, strings[n])
      BY <2>3
    <3>2. strings[n] \in Seq(Octet)
      BY <3>1, LenProperties DEF TextsInv
    <3> QED BY <2>1, <3>1, <3>2, AppendProperties DEF TextsInv
  <2> QED BY <1>5, <2>2, <2>3 DEF Record
<1>6. CASE BeginStructure
  BY <1>6 DEF BeginStructure, TextsInv
<1>7. CASE StopWalk \/ Unterminated \/ EmptySet
  BY <1>7 DEF StopWalk, Unterminated, EmptySet, TextsInv
<1> QED BY <1>4, <1>5, <1>6, <1>7 DEF Walk

(* No identifier at first. *)
LEMMA SetInit == Init => TextsInv /\ SetInv
PROOF
<1> SUFFICES ASSUME Init PROVE TextsInv /\ SetInv
  OBVIOUS
<1>1. strings = <<>> /\ out = <<>>
  BY DEF Init, OwnTable, AnyTable, Start
<1>2. TextsInv
  BY <1>1 DEF TextsInv
<1>3. hw \in Machines \cup {Bare} /\ source = "smbios" /\ pending = {} /\ set = {}
  BY DEF Init, NothingYet
<1> QED BY <1>2, <1>3, FS_EmptySet DEF SetInv

(* Each provider adds identifiers of its own; the next boot starts afresh.  *)
LEMMA SetNext == BoundsInv /\ TextsInv /\ SetInv /\ [Next]_vars => TextsInv' /\ SetInv'
PROOF
<1> SUFFICES ASSUME BoundsInv, TextsInv, SetInv, [Next]_vars PROVE TextsInv' /\ SetInv'
  OBVIOUS
<1>1. ASSUME NEW T \in SUBSET Ids, IsFiniteSet(T)
      PROVE  set \cup T \in SUBSET Ids /\ IsFiniteSet(set \cup T)
  BY <1>1, FS_Union DEF SetInv
<1>2. hw \in Machines \cup {Bare}
  BY DEF SetInv
<1>3. CASE WalkTable
  BY <1>3, TextsStep DEF WalkTable, SetInv
<1>4. ASSUME UNCHANGED walk PROVE TextsInv'
  BY <1>4 DEF walk, table, TextsInv
<1>5. CASE CollectRam
  <2>1. set' = set \cup Identifiers("ram_serial", Range(out)) /\ source' = "cpuid"
        /\ hw' = hw /\ pending' = pending /\ UNCHANGED walk
    BY <1>5 DEF CollectRam
  <2>2. PICK T : T = Identifiers("ram_serial", Range(out))
    OBVIOUS
  <2>3. T \in SUBSET Ids /\ IsFiniteSet(T)
    BY <2>2, RamTexts DEF TextsInv
  <2> QED BY <1>1, <1>4, <2>1, <2>2, <2>3 DEF SetInv
<1>6. CASE CollectCpu
  <2>1. set' = set \cup CpuIds(hw) /\ source' = "dmi-id"
        /\ hw' = hw /\ pending' = pending /\ UNCHANGED walk
    BY <1>6 DEF CollectCpu, CpuIds
  <2> QED BY <1>1, <1>2, <1>4, <2>1, MachineTexts DEF SetInv
<1>7. CASE CollectDmi
  <2>1. set' = set \cup DmiIds(hw) /\ source' = "usb"
        /\ hw' = hw /\ pending' = hw.usb /\ UNCHANGED walk
    BY <1>7 DEF CollectDmi, DmiIds
  <2> QED BY <1>1, <1>2, <1>4, <2>1, MachineTexts DEF SetInv
<1>8. CASE CollectUsb
  <2>1. PICK d \in pending : set' = set \cup UsbIdentifiers(d) /\ pending' = pending \ {d}
    BY <1>8 DEF CollectUsb
  <2>2. source' = "usb" /\ hw' = hw /\ UNCHANGED walk
    BY <1>8 DEF CollectUsb
  <2>3. d \in hw.usb
    BY <2>1 DEF SetInv
  <2> QED BY <1>1, <1>2, <1>4, <2>1, <2>2, <2>3, MachineTexts DEF SetInv
<1>9. CASE CollectEnd
  <2>1. /\ all' = InOrder(set) /\ set' = set /\ hw' = hw /\ pending' = pending
        /\ ids' = SubSeq(all', 1, Min({MAX_SHARES, Len(all')}))
        /\ source' = "done" /\ UNCHANGED walk
    BY <1>9 DEF CollectEnd
  <2> QED BY <1>4, <2>1 DEF SetInv
<1>10. CASE NextBoot
  <2>1. /\ hw' \in Machines /\ source' = "smbios" /\ pending' = {} /\ set' = {}
        /\ strings' = <<>> /\ out' = <<>>
    BY <1>10 DEF NextBoot
  <2> QED BY <2>1, FS_EmptySet DEF TextsInv, SetInv
<1>11. CASE UNCHANGED vars
  BY <1>4, <1>11 DEF vars, SetInv
<1> QED BY <1>3, <1>5, <1>6, <1>7, <1>8, <1>9, <1>10, <1>11 DEF Next, Program

(* The truncation of collect_all's callers costs USB devices while there    *)
(* are any: their class is the last in the order of the set.                *)
THEOREM TruncationSparesBoards == Spec => []UsbGoesFirst
PROOF
<1>1. SetInv => UsbGoesFirst
  <2> SUFFICES ASSUME SetInv, source = "done",
                      NEW dropped \in Range(all) \ Range(ids), NEW kept \in Range(ids),
                      kept.class = "usb_device"
               PROVE  dropped.class = "usb_device"
    BY DEF UsbGoesFirst
  <2>1. PICK N \in Nat : /\ N = Cardinality(set) /\ Len(all) = N /\ all \in Seq(set)
                         /\ \A p, q \in 1..N : p < q => IdLess(all[p], all[q])
    BY InOrderShape DEF SetInv
  <2>2. DOMAIN all = 1..N /\ \A p \in 1..N : all[p] \in set
    BY <2>1, LenProperties
  <2>3. PICK k \in 0..N : k = Min({MAX_SHARES, N})
    BY CollectAssumption DEF Min
  <2>4. ids = SubSeq(all, 1, k)
    BY <2>1, <2>3 DEF SetInv
  <2>5. Len(ids) = k /\ DOMAIN ids = 1..k /\ \A p \in 1..k : ids[p] = all[p]
    <3>1. \A p \in 1..k : all[p] \in set
      BY <2>2, <2>3
    <3>2. k \in Nat
      BY <2>3
    <3>3. /\ SubSeq(all, 1, k) \in Seq(set) /\ Len(SubSeq(all, 1, k)) = k
          /\ \A p \in 1..k : SubSeq(all, 1, k)[p] = all[p]
      BY <3>1, <3>2, FirstOf
    <3> QED BY <2>4, <3>3, LenProperties
  <2>6. PICK p \in 1..k : kept = all[p]
    BY <2>5 DEF Range
  <2>7. PICK q \in 1..N : dropped = all[q]
    BY <2>2 DEF Range
  <2>8. q \notin 1..k
    <3> SUFFICES ASSUME q \in 1..k PROVE FALSE
      OBVIOUS
    <3>1. ids[q] = dropped /\ q \in DOMAIN ids
      BY <2>5, <2>7
    <3> QED BY <3>1 DEF Range
  <2>9. IdLess(kept, dropped)
    BY <2>1, <2>3, <2>6, <2>7, <2>8
  <2>10. dropped \in Ids
    BY <2>2, <2>7 DEF SetInv
  <2> QED BY <2>9, <2>10, RankDef DEF IdLess, Ids
<1> QED BY <1>1, BoundsInit, BoundsNext, SetInit, SetNext, PTL DEF Spec
-----------------------------------------------------------------------------
(* What canonicalize forgives. *)

(* The characters of a text that are no spaces. *)
Solid(text) == {p \in 1 .. Len(text) : text[p] # Space}

(* The same words up to case: the characters that are no spaces correspond, *)
(* in order, and those next to each other in one text are so in the other.  *)
SameWords(t, u) ==
  \E f \in [Solid(t) -> Solid(u)] :
    /\ \A p, q \in Solid(t) : p < q => f[p] < f[q]
    /\ \A r \in Solid(u) : \E p \in Solid(t) : f[p] = r
    /\ \A p \in Solid(t) : /\ Lower(u[f[p]]) = Lower(t[p])
                           /\ p + 1 \in Solid(t) <=> f[p] + 1 \in Solid(u)

(* The loop of Collapse. *)
KeptBy(kept, text) ==
  /\ kept \in [0 .. Len(text) -> Texts]
  /\ kept[0] = <<>>
  /\ \A p \in 1 .. Len(text) :
       kept[p] = IF Stays(text, p) THEN Append(kept[p - 1], text[p]) ELSE kept[p - 1]

(* Nothing is added where nothing stays. *)
LEMMA KeptAlong ==
  ASSUME NEW text \in Texts, NEW kept, KeptBy(kept, text),
         NEW a \in 0 .. Len(text), NEW b \in 0 .. Len(text), a <= b,
         \A p \in 1 .. Len(text) : a < p /\ p <= b => ~Stays(text, p)
  PROVE  kept[b] = kept[a]
PROOF
<1>1. PICK N \in Nat : N = Len(text)
  BY TextShape
<1> DEFINE T == {n \in 0 .. b - a : kept[a + n] = kept[a]}
<1>2. b - a \in Nat
  BY <1>1
<1>3. 0 \in T
  BY <1>1
<1>4. \A n \in 0 .. (b - a) - 1 : n \in T => n + 1 \in T
  <2> SUFFICES ASSUME NEW n \in 0 .. (b - a) - 1, kept[a + n] = kept[a]
               PROVE  n + 1 \in 0 .. b - a /\ kept[a + (n + 1)] = kept[a]
    OBVIOUS
  <2>1. PICK p \in 1..N : p = a + (n + 1) /\ p - 1 = a + n /\ a < p /\ p <= b
    BY <1>1
  <2>2. kept[p] = kept[p - 1]
    BY <1>1, <2>1 DEF KeptBy
  <2>3. n + 1 \in 0 .. b - a
    BY <1>1
  <2> QED BY <2>1, <2>2, <2>3
<1> HIDE DEF T
<1>5. 0 .. (b - a) \subseteq T
  BY <1>2, <1>3, <1>4, NatSetInduction
<1>6. b - a \in 0 .. b - a /\ a + (b - a) = b
  BY <1>1
<1> QED BY <1>5, <1>6 DEF T

(* Spaces before the first word are dropped. *)
LEMMA KeptFirst ==
  ASSUME NEW text \in Texts, NEW kept, KeptBy(kept, text),
         NEW p \in Solid(text), \A q \in Solid(text) : p <= q
  PROVE  kept[p] = Append(<<>>, text[p])
PROOF
<1>1. PICK N \in Nat : N = Len(text)
  BY TextShape
<1>2. p \in 1..N /\ text[p] # Space
  BY <1>1 DEF Solid
<1>3. \A x \in 1..N : x < p => text[x] = Space
  BY <1>1, <1>2 DEF Solid
<1>4. \A x \in 1..N : 0 < x /\ x <= p - 1 => ~Stays(text, x)
  <2> SUFFICES ASSUME NEW x \in 1..N, x <= p - 1 PROVE ~Stays(text, x)
    OBVIOUS
  <2>1. x < p /\ (x > 1 => x - 1 \in 1..N /\ x - 1 < p)
    BY <1>2
  <2> QED BY <1>3, <2>1 DEF Stays
<1>5. PICK q \in 0..N : q = p - 1 /\ 0 <= q
  BY <1>2
<1>6. 0 \in 0..N
  OBVIOUS
<1>7. kept[q] = kept[0]
  BY <1>1, <1>4, <1>5, <1>6, KeptAlong
<1>8. kept[p] = Append(kept[p - 1], text[p])
  BY <1>1, <1>2 DEF KeptBy, Stays
<1> QED BY <1>5, <1>7, <1>8 DEF KeptBy

(* From one character to the next: the spaces between, if any, become one.  *)
LEMMA KeptNext ==
  ASSUME NEW text \in Texts, NEW kept, KeptBy(kept, text),
         NEW q \in Solid(text), NEW p \in Solid(text), q < p,
         \A x \in Solid(text) : x <= q \/ p <= x
  PROVE  kept[p] = IF q + 1 \in Solid(text)
                   THEN Append(kept[q], text[p])
                   ELSE Append(Append(kept[q], Space), text[p])
PROOF
<1>1. PICK N \in Nat : N = Len(text)
  BY TextShape
<1>2. p \in 1..N /\ text[p] # Space /\ q \in 1..N /\ text[q] # Space
  BY <1>1 DEF Solid
<1>3. \A x \in 1..N : q < x /\ x < p => text[x] = Space
  BY <1>1, <1>2 DEF Solid
<1>4. kept[p] = Append(kept[p - 1], text[p])
  BY <1>1, <1>2 DEF KeptBy, Stays
<1>5. CASE q + 1 \in Solid(text)
  <2>1. q + 1 = p
    BY <1>2, <1>5
  <2>2. q = p - 1
    BY <1>2, <2>1
  <2> QED BY <1>4, <1>5, <2>2
<1>6. CASE q + 1 \notin Solid(text)
  <2>1. PICK s \in 1..N : s = q + 1 /\ s - 1 = q /\ q < s /\ s <= p
    BY <1>2
  <2>2. s # p
    BY <1>6, <2>1
  <2>3. text[s] = Space /\ s > 1 /\ s < p
    BY <1>2, <1>3, <2>1, <2>2
  <2>4. p \in s + 1 .. N
    BY <1>2, <2>1, <2>3
  <2>5. Stays(text, s)
    BY <1>1, <1>2, <2>1, <2>3, <2>4 DEF Stays
  <2>6. kept[s] = Append(kept[q], Space)
    BY <1>1, <2>1, <2>3, <2>5 DEF KeptBy
  <2>7. \A x \in 1..N : s < x /\ x <= p - 1 => ~Stays(text, x)
    <3> SUFFICES ASSUME NEW x \in 1..N, s < x, x <= p - 1 PROVE ~Stays(text, x)
      OBVIOUS
    <3>1. x - 1 \in 1..N /\ q < x - 1 /\ x - 1 < p /\ q < x /\ x < p
      BY <1>2, <2>1
    <3> QED BY <1>3, <3>1 DEF Stays
  <2>8. PICK r \in 0..N : r = p - 1 /\ s <= r
    BY <1>2, <2>3
  <2>9. s \in 0..N
    OBVIOUS
  <2>10. kept[r] = kept[s]
    BY <1>1, <2>7, <2>8, <2>9, KeptAlong
  <2> QED BY <1>4, <1>6, <2>6, <2>8, <2>10
<1> QED BY <1>5, <1>6

(* Spaces after the last word are dropped. *)
LEMMA KeptLast ==
  ASSUME NEW text \in Texts, NEW kept, KeptBy(kept, text),
         NEW q \in Solid(text), \A x \in Solid(text) : x <= q
  PROVE  kept[Len(text)] = kept[q]
PROOF
<1>1. PICK N \in Nat : N = Len(text)
  BY TextShape
<1>2. q \in 0..N /\ N \in 0..N /\ q <= N
  BY <1>1 DEF Solid
<1>3. \A x \in 1..N : q < x => text[x] = Space
  BY <1>1, <1>2 DEF Solid
<1>4. \A x \in 1..N : q < x /\ x <= N => ~Stays(text, x)
  <2> SUFFICES ASSUME NEW x \in 1..N, q < x PROVE ~Stays(text, x)
    OBVIOUS
  <2>1. \A y \in x + 1 .. N : y \in 1..N /\ q < y
    BY <1>2
  <2> QED BY <1>1, <1>3, <2>1 DEF Stays
<1> QED BY <1>1, <1>2, <1>4, KeptAlong

(* Of spaces alone nothing is kept. *)
LEMMA KeptNone ==
  ASSUME NEW text \in Texts, NEW kept, KeptBy(kept, text), Solid(text) = {}
  PROVE  kept[Len(text)] = <<>>
PROOF
<1>1. PICK N \in Nat : N = Len(text)
  BY TextShape
<1>2. 0 \in 0..N /\ N \in 0..N /\ 0 <= N
  OBVIOUS
<1>3. \A x \in 1..N : text[x] = Space
  BY <1>1 DEF Solid
<1>4. \A x \in 1..N : ~Stays(text, x)
  <2> SUFFICES ASSUME NEW x \in 1..N PROVE ~Stays(text, x)
    OBVIOUS
  <2>1. \A y \in x + 1 .. N : y \in 1..N
    OBVIOUS
  <2> QED BY <1>1, <1>3, <2>1 DEF Stays
<1>5. kept[N] = kept[0]
  BY <1>1, <1>2, <1>4, KeptAlong
<1> QED BY <1>1, <1>5 DEF KeptBy

(* One more character in lower case. *)
LEMMA LoweredAppend ==
  ASSUME NEW v \in Texts, NEW c \in Nat
  PROVE  Lowered(Append(v, c)) = Append(Lowered(v), Lower(c))
PROOF
<1>1. PICK k \in Nat : k = Len(v) /\ DOMAIN v = 1..k /\ \A p \in 1..k : v[p] \in Nat
  BY TextShape
<1>2. Append(v, c) \in Texts /\ Lower(c) \in Nat
  BY AppendProperties DEF Texts, Lower
<1>3. Lowered(v) \in Texts /\ Len(Lowered(v)) = k
  <2>1. Lowered(v) \in Texts
    BY LoweredText
  <2>2. DOMAIN Lowered(v) = 1..k
    BY <1>1 DEF Lowered
  <2> QED BY <2>1, <2>2, LenProperties DEF Texts
<1>4. /\ DOMAIN Append(v, c) = 1 .. k + 1 /\ Append(v, c)[k + 1] = c
      /\ \A p \in 1..k : Append(v, c)[p] = v[p]
  BY <1>1, <1>2, AppendProperties, LenProperties DEF Texts
<1>5. /\ Append(Lowered(v), Lower(c)) \in Texts
      /\ Len(Append(Lowered(v), Lower(c))) = k + 1
      /\ Append(Lowered(v), Lower(c))[k + 1] = Lower(c)
      /\ \A p \in 1..k : Append(Lowered(v), Lower(c))[p] = Lowered(v)[p]
  BY <1>2, <1>3, AppendProperties DEF Texts
<1>6. \A p \in 1..k : Lowered(v)[p] = Lower(v[p])
  BY <1>1 DEF Lowered
<1>7. Lowered(Append(v, c)) \in Texts /\ Len(Lowered(Append(v, c))) = k + 1
  <2>1. Lowered(Append(v, c)) \in Texts
    BY <1>2, LoweredText
  <2>2. DOMAIN Lowered(Append(v, c)) = 1 .. k + 1
    BY <1>4 DEF Lowered
  <2> QED BY <1>1, <2>1, <2>2, LenProperties DEF Texts
<1>8. \A p \in 1 .. k + 1 : Lowered(Append(v, c))[p] = Append(Lowered(v), Lower(c))[p]
  <2> SUFFICES ASSUME NEW p \in 1 .. k + 1
               PROVE  Lowered(Append(v, c))[p] = Append(Lowered(v), Lower(c))[p]
    OBVIOUS
  <2>1. Lowered(Append(v, c))[p] = Lower(Append(v, c)[p])
    BY <1>4 DEF Lowered
  <2>2. CASE p \in 1..k
    BY <1>4, <1>5, <1>6, <2>1, <2>2
  <2>3. CASE p = k + 1
    BY <1>4, <1>5, <2>1, <2>3
  <2>4. p \in 1..k \/ p = k + 1
    OBVIOUS
  <2> QED BY <2>2, <2>3, <2>4
<1> QED BY <1>5, <1>7, <1>8, SameText

(* canonicalize forgives case, spaces around the text and more than one     *)
(* space between words.                                                     *)
LEMMA SpellingForgiven ==
  ASSUME NEW t \in Texts, NEW u \in Texts, SameWords(t, u)
  PROVE  Canonical(t) = Canonical(u)
PROOF
<1>1. PICK kt : KeptBy(kt, t) /\ Collapse(t) = kt[Len(t)]
  BY CollapseDef DEF KeptBy
<1>2. PICK ku : KeptBy(ku, u) /\ Collapse(u) = ku[Len(u)]
  BY CollapseDef DEF KeptBy
<1>3. PICK f \in [Solid(t) -> Solid(u)] :
        /\ \A p, q \in Solid(t) : p < q => f[p] < f[q]
        /\ \A r \in Solid(u) : \E p \in Solid(t) : f[p] = r
        /\ \A p \in Solid(t) : /\ Lower(u[f[p]]) = Lower(t[p])
                               /\ p + 1 \in Solid(t) <=> f[p] + 1 \in Solid(u)
  BY DEF SameWords
<1>4. PICK N \in Nat : N = Len(t)
  BY TextShape
<1>5. Len(u) \in Nat
  BY TextShape
<1>6. Solid(t) \in SUBSET Nat /\ Solid(u) \in SUBSET Nat
  BY <1>4, <1>5 DEF Solid
<1>7. /\ \A p \in Solid(t) : t[p] \in Nat /\ kt[p] \in Texts
      /\ \A r \in Solid(u) : u[r] \in Nat /\ ku[r] \in Texts
  <2>1. \A p \in Solid(t) : p \in 1 .. Len(t) /\ p \in 0 .. Len(t)
    BY <1>4 DEF Solid
  <2>2. \A r \in Solid(u) : r \in 1 .. Len(u) /\ r \in 0 .. Len(u)
    BY <1>5 DEF Solid
  <2>3. \A p \in Solid(t) : t[p] \in Nat
    BY <2>1, TextShape
  <2>4. \A r \in Solid(u) : u[r] \in Nat
    BY <2>2, TextShape
  <2>5. kt \in [0 .. Len(t) -> Texts] /\ ku \in [0 .. Len(u) -> Texts]
    BY <1>1, <1>2 DEF KeptBy
  <2> QED BY <2>1, <2>2, <2>3, <2>4, <2>5
<1>8. \A p, q \in Solid(t) : f[p] <= f[q] => p <= q
  <2> SUFFICES ASSUME NEW p \in Solid(t), NEW q \in Solid(t), f[p] <= f[q], q < p
               PROVE  FALSE
    BY <1>6
  <2>1. f[q] < f[p] /\ f[p] \in Nat /\ f[q] \in Nat
    BY <1>3, <1>6
  <2> QED BY <2>1
<1>9. \A p, q \in Solid(t) : p <= q => f[p] <= f[q]
  <2> SUFFICES ASSUME NEW p \in Solid(t), NEW q \in Solid(t), p <= q PROVE f[p] <= f[q]
    OBVIOUS
  <2>1. f[p] \in Nat /\ f[q] \in Nat /\ p \in Nat /\ q \in Nat
    BY <1>6
  <2> QED BY <1>3, <2>1
<1>10. Lower(Space) = Space /\ Space \in Nat
  BY DEF Lower, Space
<1> DEFINE Agree(p) == Lowered(kt[p]) = Lowered(ku[f[p]])
<1>11. ASSUME NEW p \in Solid(t), \A q \in Solid(t) : p <= q PROVE Agree(p)
  <2>1. \A r \in Solid(u) : f[p] <= r
    BY <1>3, <1>9, <1>11
  <2>2. kt[p] = Append(<<>>, t[p])
    BY <1>1, <1>11, KeptFirst
  <2>3. ku[f[p]] = Append(<<>>, u[f[p]])
    BY <1>2, <1>3, <2>1, KeptFirst
  <2>4. <<>> \in Texts
    BY DEF Texts
  <2>5. Lowered(kt[p]) = Append(Lowered(<<>>), Lower(t[p]))
    BY <1>7, <2>2, <2>4, LoweredAppend
  <2>6. Lowered(ku[f[p]]) = Append(Lowered(<<>>), Lower(u[f[p]]))
    BY <1>3, <1>7, <2>3, <2>4, LoweredAppend
  <2> QED BY <1>3, <2>5, <2>6
<1>12. ASSUME NEW q \in Solid(t), NEW p \in Solid(t), q < p, Agree(q),
              \A x \in Solid(t) : x <= q \/ p <= x
       PROVE  Agree(p)
  <2>1. f[q] < f[p] /\ f[q] \in Solid(u) /\ f[p] \in Solid(u)
    BY <1>3, <1>12
  <2>2. \A r \in Solid(u) : r <= f[q] \/ f[p] <= r
    BY <1>3, <1>9, <1>12
  <2>3. kt[p] = IF q + 1 \in Solid(t) THEN Append(kt[q], t[p])
                ELSE Append(Append(kt[q], Space), t[p])
    BY <1>1, <1>12, KeptNext
  <2>4. ku[f[p]] = IF f[q] + 1 \in Solid(u) THEN Append(ku[f[q]], u[f[p]])
                   ELSE Append(Append(ku[f[q]], Space), u[f[p]])
    BY <1>2, <2>1, <2>2, KeptNext
  <2>5. /\ Lower(u[f[p]]) = Lower(t[p])
        /\ q + 1 \in Solid(t) <=> f[q] + 1 \in Solid(u)
    BY <1>3
  <2>6. /\ t[p] \in Nat /\ u[f[p]] \in Nat
        /\ kt[q] \in Texts /\ ku[f[q]] \in Texts
    BY <1>7, <2>1
  <2>7. CASE q + 1 \in Solid(t)
    <3>1. Lowered(kt[p]) = Append(Lowered(kt[q]), Lower(t[p]))
      BY <2>3, <2>6, <2>7, LoweredAppend
    <3>2. Lowered(ku[f[p]]) = Append(Lowered(ku[f[q]]), Lower(u[f[p]]))
      BY <2>4, <2>5, <2>6, <2>7, LoweredAppend
    <3> QED BY <1>12, <2>5, <3>1, <3>2
  <2>8. CASE q + 1 \notin Solid(t)
    <3>1. Append(kt[q], Space) \in Texts /\ Append(ku[f[q]], Space) \in Texts
      BY <1>10, <2>6, AppendProperties DEF Texts
    <3>2. Lowered(kt[p]) = Append(Append(Lowered(kt[q]), Space), Lower(t[p]))
      <4>1. Lowered(kt[p]) = Append(Lowered(Append(kt[q], Space)), Lower(t[p]))
        BY <2>3, <2>6, <2>8, <3>1, LoweredAppend
      <4>2. Lowered(Append(kt[q], Space)) = Append(Lowered(kt[q]), Space)
        BY <1>10, <2>6, LoweredAppend
      <4> QED BY <4>1, <4>2
    <3>3. Lowered(ku[f[p]]) = Append(Append(Lowered(ku[f[q]]), Space), Lower(u[f[p]]))
      <4>1. Lowered(ku[f[p]]) = Append(Lowered(Append(ku[f[q]], Space)), Lower(u[f[p]]))
        BY <2>4, <2>5, <2>6, <2>8, <3>1, LoweredAppend
      <4>2. Lowered(Append(ku[f[q]], Space)) = Append(Lowered(ku[f[q]]), Space)
        BY <1>10, <2>6, LoweredAppend
      <4> QED BY <4>1, <4>2
    <3> QED BY <1>12, <2>5, <3>2, <3>3
  <2> QED BY <2>7, <2>8
<1> HIDE DEF Agree
<1>13. ASSUME NEW S \in SUBSET Solid(t), S # {}
       PROVE  \E q \in S : \A x \in S : x <= q
  <2>1. S \in SUBSET (1..N) /\ S \in SUBSET Nat
    BY <1>4 DEF Solid
  <2> DEFINE U == {N - y : y \in S}
  <2>2. U \in SUBSET Nat /\ U # {}
    <3>1. \A y \in S : N - y \in Nat
      BY <2>1
    <3> QED BY <1>13, <3>1
  <2>3. PICK z \in U : \A y \in U : z <= y
    <3> HIDE DEF U
    <3> QED BY <2>2, NatMin
  <2>4. PICK w \in S : z = N - w
    BY <2>3
  <2>5. \A y \in S : N - w <= N - y
    BY <2>3, <2>4
  <2> QED BY <2>1, <2>5
<1>14. \A p \in Solid(t) : Agree(p)
  <2> DEFINE B == {p \in Solid(t) : ~Agree(p)}
  <2> SUFFICES ASSUME B # {} PROVE FALSE
    OBVIOUS
  <2>1. B \in SUBSET Nat
    BY <1>6
  <2>2. PICK p \in B : \A y \in B : p <= y
    <3> HIDE DEF B
    <3> QED BY <2>1, NatMin
  <2>3. p \in Solid(t) /\ ~Agree(p) /\ p \in Nat
    BY <1>6
  <2> DEFINE S == {x \in Solid(t) : x < p}
  <2>4. S # {}
    <3> SUFFICES ASSUME S = {} PROVE FALSE
      OBVIOUS
    <3>1. \A q \in Solid(t) : p <= q
      BY <1>6, <2>3
    <3> QED BY <1>11, <2>3, <3>1
  <2>5. S \in SUBSET Solid(t)
    OBVIOUS
  <2>6. PICK q \in S : \A x \in S : x <= q
    <3> HIDE DEF S
    <3> QED BY <1>13, <2>4, <2>5
  <2>7. q \in Solid(t) /\ q < p
    OBVIOUS
  <2>8. Agree(q)
    BY <1>6, <2>2, <2>3, <2>7
  <2>9. \A x \in Solid(t) : x <= q \/ p <= x
    BY <1>6, <2>3, <2>6
  <2> QED BY <1>12, <2>3, <2>7, <2>8, <2>9
<1>15. CASE Solid(t) = {}
  <2>1. Solid(u) = {}
    BY <1>3, <1>15
  <2>2. kt[Len(t)] = <<>>
    BY <1>1, <1>15, KeptNone
  <2>3. ku[Len(u)] = <<>>
    BY <1>2, <2>1, KeptNone
  <2> QED BY <1>1, <1>2, <2>2, <2>3 DEF Canonical
<1>16. CASE Solid(t) # {}
  <2>1. Solid(t) \in SUBSET Solid(t)
    OBVIOUS
  <2>2. PICK q \in Solid(t) : \A x \in Solid(t) : x <= q
    BY <1>13, <1>16, <2>1
  <2>3. f[q] \in Solid(u) /\ \A r \in Solid(u) : r <= f[q]
    BY <1>3, <1>9, <2>2
  <2>4. kt[Len(t)] = kt[q]
    BY <1>1, <2>2, KeptLast
  <2>5. ku[Len(u)] = ku[f[q]]
    BY <1>2, <2>3, KeptLast
  <2>6. Agree(q)
    BY <1>14
  <2> QED BY <1>1, <1>2, <2>4, <2>5, <2>6 DEF Canonical, Agree
<1> QED BY <1>15, <1>16

(* Two listings of a USB device. *)
SameDevice(d, e) ==
  /\ d.interface = e.interface
  /\ Attr(d.vid) = Attr(e.vid) /\ Attr(d.pid) = Attr(e.pid)
  /\ SameWords(Attr(d.serial), Attr(e.serial))

(* They give one identifier, or none, both. *)
LEMMA SameDeviceIds ==
  ASSUME NEW d, NEW e, {d.serial, e.serial} \subseteq Texts, SameDevice(d, e)
  PROVE  UsbIdentifiers(d) = UsbIdentifiers(e)
PROOF
<1>1. Attr(d.serial) \in Texts /\ Attr(e.serial) \in Texts
  BY AttrText
<1>2. PICK s : s = Canonical(Attr(d.serial)) /\ s = Canonical(Attr(e.serial))
  BY <1>1, SpellingForgiven DEF SameDevice
<1>3. CASE Junk(s)
  BY <1>2, <1>3 DEF UsbIdentifiers
<1>4. CASE ~Junk(s)
  <2>1. Junk(Canonical(<<>>))
    <3>1. <<>> \in Texts
      BY DEF Texts
    <3>2. Canonical(<<>>) = <<>>
      <4>1. PICK kept : KeptBy(kept, <<>>) /\ Collapse(<<>>) = kept[Len(<<>>)]
        BY <3>1, CollapseDef DEF KeptBy
      <4>2. Len(<<>>) = 0 /\ DOMAIN <<>> = {}
        OBVIOUS
      <4>3. Collapse(<<>>) = <<>>
        BY <4>1, <4>2 DEF KeptBy
      <4> QED BY <4>2, <4>3 DEF Canonical, Lowered
    <3> QED BY <3>2 DEF Junk
  <2>2. Attr(d.serial) # <<>> /\ Attr(e.serial) # <<>>
    BY <1>2, <1>4, <2>1
  <2> QED BY <1>2, <1>4, <2>2 DEF UsbIdentifiers, SameDevice
<1> QED BY <1>3, <1>4

(* One machine read twice: what the first reading has, the second has in    *)
(* some spelling, but for junk.                                             *)
ReadAgain(T, U) == \A t \in T : ~Junk(Canonical(t)) => \E u \in U : SameWords(t, u)

(* Two readings of CPUID, but for the bits of the kernel or a hypervisor.   *)
SameCpu(c, d) ==
  /\ c.vendor = d.vendor /\ c.edx = d.edx
  /\ c.eax \cap Unmasked = d.eax \cap Unmasked /\ c.ecx \ {27, 31} = d.ecx \ {27, 31}

(* What m shows, n shows too. *)
SeenAgain(m, n) ==
  /\ ReadAgain(Range(Serials(m.structures)), Range(Serials(n.structures)))
  /\ \A c \in m.cpus : \E d \in n.cpus : SameCpu(c, d)
  /\ ReadAgain({m.dmi.board_serial}, {n.dmi.board_serial})
  /\ ReadAgain({m.dmi.product_uuid}, {n.dmi.product_uuid})
  /\ \A d \in m.usb : UsbIdentifiers(d) # {} => \E e \in n.usb : SameDevice(d, e)

(* The serials of a machine's memory are texts. *)
LEMMA SerialsTexts ==
  ASSUME NEW m \in Machines
  PROVE  /\ Serials(m.structures) \in Seq(Seq(Octet))
         /\ Range(Serials(m.structures)) \subseteq Texts
PROOF
<1>1. PICK l : l = m.structures /\ ListOK(l)
  BY MachineTables
<1>2. Serials(l) \in Seq(Seq(Octet))
  <2>1. Len(l) \in Nat /\ Len(l) \in 0 .. Len(l)
    BY <1>1 DEF ListOK
  <2>2. SerialMarks(SerialsUpTo(l), l)
    BY <1>1, SerialsDef
  <2> QED BY <2>1, <2>2 DEF SerialMarks, Serials
<1>3. Range(Serials(l)) \subseteq Seq(Octet)
  BY <1>2, LenProperties DEF Range
<1>4. Seq(Octet) \subseteq Texts
  <2> SUFFICES ASSUME NEW s \in Seq(Octet) PROVE s \in Texts
    OBVIOUS
  <2>1. Len(s) \in Nat /\ s \in [1 .. Len(s) -> Octet]
    BY LenProperties
  <2>2. s \in [1 .. Len(s) -> Nat]
    BY <2>1, OctetDef
  <2> QED BY <2>1, <2>2, SeqDef DEF Texts
<1> QED BY <1>1, <1>2, <1>3, <1>4

(* What is seen again has the same identifiers. *)
LEMMA SeenIds ==
  ASSUME NEW m \in Machines, NEW n \in Machines, SeenAgain(m, n)
  PROVE  IdsOf(m) \subseteq IdsOf(n)
PROOF
<1>1. ASSUME NEW class, NEW T \in SUBSET Texts, NEW U \in SUBSET Texts, ReadAgain(T, U)
      PROVE  Identifiers(class, T) \subseteq Identifiers(class, U)
  <2> SUFFICES ASSUME NEW t \in T, ~Junk(Canonical(t))
               PROVE  [class |-> class, value |-> Canonical(t)] \in Identifiers(class, U)
    BY DEF Identifiers
  <2>1. PICK u \in U : SameWords(t, u)
    BY <1>1 DEF ReadAgain
  <2>2. Canonical(t) = Canonical(u)
    BY <2>1, SpellingForgiven
  <2> QED BY <2>2 DEF Identifiers
<1>2. /\ m.dmi.board_serial \in Texts /\ m.dmi.product_uuid \in Texts
      /\ n.dmi.board_serial \in Texts /\ n.dmi.product_uuid \in Texts
      /\ \A d \in m.usb \cup n.usb : d.serial \in Texts
  BY CollectAssumption DEF Plausible, Texts
<1>3. RamIds(m) \subseteq RamIds(n)
  BY <1>1, SerialsTexts DEF SeenAgain, RamIds
<1>4. DmiIds(m) \subseteq DmiIds(n)
  <2>1. Identifiers("board_serial", {m.dmi.board_serial})
          \subseteq Identifiers("board_serial", {n.dmi.board_serial})
    BY <1>1, <1>2 DEF SeenAgain
  <2>2. Identifiers("product_uuid", {m.dmi.product_uuid})
          \subseteq Identifiers("product_uuid", {n.dmi.product_uuid})
    BY <1>1, <1>2 DEF SeenAgain
  <2> QED BY <2>1, <2>2 DEF DmiIds
<1>5. CpuIds(m) \subseteq CpuIds(n)
  <2>1. \A c, d : SameCpu(c, d) => CpuText(c) = CpuText(d)
    BY DEF SameCpu, CpuText
  <2>2. {CpuText(c) : c \in m.cpus} \subseteq {CpuText(c) : c \in n.cpus}
    BY <2>1 DEF SeenAgain
  <2> QED BY <2>2 DEF CpuIds, Identifiers
<1>6. UsbIds(m) \subseteq UsbIds(n)
  <2> SUFFICES ASSUME NEW d \in m.usb, UsbIdentifiers(d) # {}
               PROVE  UsbIdentifiers(d) \subseteq UsbIds(n)
    BY DEF UsbIds
  <2>1. PICK e \in n.usb : SameDevice(d, e)
    BY DEF SeenAgain
  <2>2. UsbIdentifiers(d) = UsbIdentifiers(e)
    BY <1>2, <2>1, SameDeviceIds
  <2> QED BY <2>2 DEF UsbIds
<1> QED BY <1>3, <1>4, <1>5, <1>6 DEF IdsOf
-----------------------------------------------------------------------------
(* What is collected of a machine, provider by provider, and what is left   *)
(* of the boot before.                                                      *)
SourceInv ==
  hw \in Machines =>
    /\ list = hw.structures /\ whole = TRUE
    /\ source = "smbios" => set = {}
    /\ source = "cpuid"  => set = RamIds(hw)
    /\ source = "dmi-id" => set = RamIds(hw) \cup CpuIds(hw)
    /\ source = "usb" =>
         set = RamIds(hw) \cup CpuIds(hw) \cup DmiIds(hw)
                 \cup UNION {UsbIdentifiers(d) : d \in hw.usb \ pending}
    /\ source = "done" => set = IdsOf(hw)

FirstInv ==
  first # NoBoot =>
    /\ hw \in Machines
    /\ \E m \in Machines : first = [chassis |-> m.chassis, all |-> InOrder(IdsOf(m))]

(* At the first boot nothing is collected. *)
LEMMA SourceInit == Init => SourceInv /\ FirstInv
PROOF
<1> SUFFICES ASSUME Init PROVE SourceInv /\ FirstInv
  OBVIOUS
<1>1. ASSUME hw \in Machines PROVE list = hw.structures /\ whole = TRUE
  <2>1. OwnTable
    BY <1>1, CollectAssumption DEF Init
  <2> QED BY <2>1 DEF OwnTable, Start
<1>2. source = "smbios" /\ set = {} /\ first = NoBoot
  BY DEF Init, NothingYet
<1> QED BY <1>1, <1>2 DEF SourceInv, FirstInv

(* Each provider adds what the machine has for it. *)
LEMMA SourceNext ==
  ExactSerials /\ SetInv /\ SourceInv /\ FirstInv /\ [Next]_vars => SourceInv' /\ FirstInv'
PROOF
<1> SUFFICES ASSUME ExactSerials, SetInv, SourceInv, FirstInv, [Next]_vars
             PROVE  SourceInv' /\ FirstInv'
  OBVIOUS
<1>1. ASSUME UNCHANGED <<hw, first>> PROVE FirstInv'
  BY <1>1 DEF FirstInv, NoBoot
<1>2. CASE WalkTable
  <2>1. UNCHANGED <<hw, first, source, set, pending>> /\ UNCHANGED table
    BY <1>2 DEF WalkTable, Walk, BeginStructure, StopWalk, ReadString, Unterminated, EmptySet, Record
  <2>2. list' = list /\ whole' = whole
    BY <2>1 DEF table
  <2> QED BY <1>1, <2>1, <2>2 DEF SourceInv
<1>3. ASSUME UNCHANGED walk PROVE list' = list /\ whole' = whole
  BY <1>3 DEF walk, table
<1>4. CASE CollectRam
  <2>1. /\ set' = set \cup Identifiers("ram_serial", Range(out)) /\ source' = "cpuid"
        /\ source = "smbios" /\ at = "done" /\ UNCHANGED <<hw, first>> /\ UNCHANGED walk
    BY <1>4 DEF CollectRam
  <2>2. ASSUME hw \in Machines PROVE set' = RamIds(hw)
    <3>1. list = hw.structures /\ list # <<>> /\ whole /\ set = {}
      BY <2>1, <2>2, CollectAssumption DEF SourceInv
    <3>2. out = Serials(list)
      BY <2>1, <3>1 DEF ExactSerials
    <3> QED BY <2>1, <3>1, <3>2 DEF RamIds
  <2> QED BY <1>1, <1>3, <2>1, <2>2 DEF SourceInv
<1>5. CASE CollectCpu
  <2>1. /\ set' = set \cup CpuIds(hw) /\ source = "cpuid" /\ source' = "dmi-id"
        /\ UNCHANGED <<hw, first>> /\ UNCHANGED walk
    BY <1>5 DEF CollectCpu, CpuIds
  <2> QED BY <1>1, <1>3, <2>1 DEF SourceInv
<1>6. CASE CollectDmi
  <2>1. /\ set' = set \cup DmiIds(hw) /\ source = "dmi-id" /\ source' = "usb"
        /\ pending' = hw.usb /\ UNCHANGED <<hw, first>> /\ UNCHANGED walk
    BY <1>6 DEF CollectDmi, DmiIds
  <2>2. UNION {UsbIdentifiers(d) : d \in hw'.usb \ pending'} = {}
    BY <2>1
  <2> QED BY <1>1, <1>3, <2>1, <2>2 DEF SourceInv
<1>7. CASE CollectUsb
  <2>1. PICK d \in pending : set' = set \cup UsbIdentifiers(d) /\ pending' = pending \ {d}
    BY <1>7 DEF CollectUsb
  <2>2. source = "usb" /\ source' = "usb" /\ UNCHANGED <<hw, first>> /\ UNCHANGED walk
    BY <1>7 DEF CollectUsb
  <2>3. hw.usb \ pending' = (hw.usb \ pending) \cup {d}
    BY <2>1 DEF SetInv
  <2>4. PICK R : R = hw.usb \ pending
    OBVIOUS
  <2>5. PICK Q : Q = UNION {UsbIdentifiers(x) : x \in R}
    OBVIOUS
  <2>6. UNION {UsbIdentifiers(x) : x \in R \cup {d}} = Q \cup UsbIdentifiers(d)
    <3>1. {UsbIdentifiers(x) : x \in R \cup {d}}
            = {UsbIdentifiers(x) : x \in R} \cup {UsbIdentifiers(d)}
      OBVIOUS
    <3>2. UNION {UsbIdentifiers(d)} = UsbIdentifiers(d)
      OBVIOUS
    <3>3. \A A, B : UNION (A \cup B) = (UNION A) \cup (UNION B)
      OBVIOUS
    <3> QED BY <2>5, <3>1, <3>2, <3>3
  <2>7. UNION {UsbIdentifiers(x) : x \in hw'.usb \ pending'} = Q \cup UsbIdentifiers(d)
    BY <2>2, <2>3, <2>4, <2>6
  <2>8. hw \in Machines =>
          set' = RamIds(hw) \cup CpuIds(hw) \cup DmiIds(hw) \cup (Q \cup UsbIdentifiers(d))
    BY <2>1, <2>2, <2>4, <2>5 DEF SourceInv
  <2> QED BY <1>1, <1>3, <2>2, <2>7, <2>8 DEF SourceInv
<1>8. CASE CollectEnd
  <2>1. /\ source = "usb" /\ pending = {} /\ source' = "done" /\ set' = set
        /\ UNCHANGED <<hw, first>> /\ UNCHANGED walk
    BY <1>8 DEF CollectEnd
  <2>2. hw \in Machines => set = IdsOf(hw)
    BY <2>1 DEF SourceInv, IdsOf, UsbIds
  <2> QED BY <1>1, <1>3, <2>1, <2>2 DEF SourceInv
<1>9. CASE NextBoot
  <2>1. /\ source = "done" /\ first' = [chassis |-> hw.chassis, all |-> all]
        /\ hw' \in Machines /\ hw # Bare /\ source' = "smbios" /\ set' = {}
        /\ list' = hw'.structures /\ whole' = TRUE
    BY <1>9 DEF NextBoot
  <2>2. hw \in Machines /\ all = InOrder(IdsOf(hw))
    BY <2>1 DEF SetInv, SourceInv
  <2>3. FirstInv'
    BY <2>1, <2>2 DEF FirstInv
  <2> QED BY <2>1, <2>3 DEF SourceInv
<1>10. CASE UNCHANGED vars
  BY <1>1, <1>3, <1>10 DEF vars, SourceInv
<1> QED BY <1>2, <1>4, <1>5, <1>6, <1>7, <1>8, <1>9, <1>10 DEF Next, Program

(* "deterministe d'un boot a l'autre": a machine whose texts, processors and *)
(* devices are seen again gives the same list at both boots, however they   *)
(* are spelled, in whatever order and as often as they are listed, whatever *)
(* junk comes with them and whatever was collected in between.              *)
THEOREM FingerprintIsStable ==
  ASSUME \A m, n \in Machines : m.chassis = n.chassis => SeenAgain(m, n)
  PROVE  Spec => []StableFingerprint
PROOF
<1>1. SetInv /\ SourceInv /\ FirstInv => StableFingerprint
  <2> SUFFICES ASSUME SetInv, SourceInv, FirstInv, source = "done", first.chassis = hw.chassis
               PROVE  all = first.all
    BY DEF StableFingerprint
  <2>1. hw.chassis # "none"
    BY CollectAssumption DEF SetInv
  <2>2. first # NoBoot
    BY <2>1 DEF NoBoot
  <2>3. PICK m \in Machines : first = [chassis |-> m.chassis, all |-> InOrder(IdsOf(m))]
    BY <2>2 DEF FirstInv
  <2>4. hw \in Machines /\ all = InOrder(IdsOf(hw))
    BY <2>2 DEF FirstInv, SetInv, SourceInv
  <2>5. IdsOf(m) = IdsOf(hw)
    <3>1. SeenAgain(m, hw) /\ SeenAgain(hw, m)
      BY <2>3, <2>4
    <3>2. IdsOf(m) \subseteq IdsOf(hw)
      BY <2>4, <3>1, SeenIds
    <3>3. IdsOf(hw) \subseteq IdsOf(m)
      BY <2>4, <3>1, SeenIds
    <3> QED BY <3>2, <3>3
  <2> QED BY <2>3, <2>4, <2>5
<1> QED BY <1>1, SerialsAreExact, BoundsInit, BoundsNext, SetInit, SetNext,
           SourceInit, SourceNext, PTL DEF Spec
-----------------------------------------------------------------------------
(* What canonicalize does not forgive. *)

(* What is kept is added at the end, one character where one stays.         *)
LEMMA KeptGrows ==
  ASSUME NEW text \in Texts, NEW kept, KeptBy(kept, text),
         NEW a \in 0 .. Len(text), NEW b \in 0 .. Len(text), a <= b
  PROVE  /\ Len(kept[a]) \in Nat /\ Len(kept[b]) \in Nat /\ Len(kept[a]) <= Len(kept[b])
         /\ \A l \in 1 .. Len(kept[a]) : kept[b][l] = kept[a][l]
PROOF
<1>1. PICK N \in Nat : N = Len(text)
  BY TextShape
<1>2. PICK A \in Nat : A = Len(kept[a])
  BY TextShape DEF KeptBy
<1> DEFINE T == {e \in 0 .. b - a : /\ A <= Len(kept[a + e])
                                    /\ \A l \in 1..A : kept[a + e][l] = kept[a][l]}
<1>3. 0 \in T
  <2>1. a + 0 = a
    BY <1>1
  <2> QED BY <1>1, <1>2, <2>1
<1>4. \A e \in 0 .. (b - a) - 1 : e \in T => e + 1 \in T
  <2> SUFFICES ASSUME NEW e \in 0 .. (b - a) - 1, e \in T PROVE e + 1 \in T
    OBVIOUS
  <2>1. PICK p \in 1..N : p = a + (e + 1) /\ p - 1 = a + e /\ p - 1 \in 0..N
    BY <1>1
  <2>2. /\ A <= Len(kept[p - 1]) /\ \A l \in 1..A : kept[p - 1][l] = kept[a][l]
    BY <2>1
  <2>3. kept[p - 1] \in Texts /\ text[p] \in Nat /\ Len(kept[p - 1]) \in Nat
    BY <1>1, <2>1, TextShape DEF KeptBy
  <2>4. kept[p] = kept[p - 1] \/ kept[p] = Append(kept[p - 1], text[p])
    BY <1>1 DEF KeptBy
  <2>5. /\ Len(Append(kept[p - 1], text[p])) = Len(kept[p - 1]) + 1
        /\ \A l \in 1 .. Len(kept[p - 1]) : Append(kept[p - 1], text[p])[l] = kept[p - 1][l]
    BY <2>3, AppendProperties DEF Texts
  <2>6. A <= Len(kept[p]) /\ \A l \in 1..A : kept[p][l] = kept[a][l]
    <3>1. CASE kept[p] = kept[p - 1]
      BY <2>2, <3>1
    <3>2. CASE kept[p] = Append(kept[p - 1], text[p])
      <4>1. Len(kept[p]) = Len(kept[p - 1]) + 1
        BY <2>5, <3>2
      <4>2. \A l \in 1..A : l \in 1 .. Len(kept[p - 1])
        BY <2>2, <2>3
      <4>3. \A l \in 1..A : kept[p][l] = kept[p - 1][l]
        BY <2>5, <3>2, <4>2
      <4> QED BY <2>2, <2>3, <4>1, <4>3
    <3> QED BY <2>4, <3>1, <3>2
  <2>7. e + 1 \in 0 .. b - a
    BY <1>1
  <2> QED BY <2>1, <2>6, <2>7
<1>5. b - a \in Nat
  BY <1>1
<1> HIDE DEF T
<1>6. 0 .. (b - a) \subseteq T
  BY <1>3, <1>4, <1>5, NatSetInduction
<1>7. b - a \in T /\ a + (b - a) = b
  BY <1>1, <1>5, <1>6
<1>8. A <= Len(kept[b]) /\ \A l \in 1..A : kept[b][l] = kept[a][l]
  BY <1>7 DEF T
<1>9. Len(kept[b]) \in Nat
  BY TextShape DEF KeptBy
<1> QED BY <1>2, <1>8, <1>9

(* Where a character that stays is found again.                             *)
LEMMA KeptOne ==
  ASSUME NEW text \in Texts, NEW kept, KeptBy(kept, text),
         NEW p \in 1 .. Len(text), Stays(text, p)
  PROVE  /\ Len(kept[p]) \in 1 .. Len(kept[Len(text)])
         /\ Len(kept[p]) = Len(kept[p - 1]) + 1
         /\ kept[Len(text)][Len(kept[p])] = text[p]
PROOF
<1>1. PICK N \in Nat : N = Len(text)
  BY TextShape
<1>2. p - 1 \in 0..N /\ p \in 0..N /\ N \in 0..N /\ p <= N
  BY <1>1
<1>3. kept[p - 1] \in Texts /\ text[p] \in Nat
  BY <1>1, <1>2, TextShape DEF KeptBy
<1>4. kept[p] = Append(kept[p - 1], text[p])
  BY DEF KeptBy
<1>5. PICK L \in Nat : L = Len(kept[p - 1])
  BY <1>3, TextShape
<1>6. Len(kept[p]) = L + 1 /\ kept[p][L + 1] = text[p]
  BY <1>3, <1>4, <1>5, AppendProperties DEF Texts
<1>7. /\ Len(kept[N]) \in Nat /\ L + 1 <= Len(kept[N])
      /\ \A l \in 1 .. L + 1 : kept[N][l] = kept[p][l]
  BY <1>1, <1>2, <1>6, KeptGrows
<1>8. L + 1 \in 1 .. L + 1
  OBVIOUS
<1> QED BY <1>1, <1>5, <1>6, <1>7, <1>8

(* Each character of the result is one that stays.                          *)
LEMMA KeptFrom ==
  ASSUME NEW text \in Texts, NEW kept, KeptBy(kept, text),
         NEW l \in 1 .. Len(kept[Len(text)])
  PROVE  \E p \in 1 .. Len(text) :
           Stays(text, p) /\ Len(kept[p]) = l /\ kept[Len(text)][l] = text[p]
PROOF
<1>1. PICK N \in Nat : N = Len(text)
  BY TextShape
<1>2. \A p \in 0..N : Len(kept[p]) \in Nat
  BY <1>1, TextShape DEF KeptBy
<1> DEFINE T == {p \in 0..N : l <= Len(kept[p])}
<1>3. T \in SUBSET Nat /\ N \in T
  BY <1>1, <1>2
<1>4. PICK p \in T : \A q \in T : p <= q
  <2> HIDE DEF T
  <2> QED BY <1>3, NatMin
<1>5. p # 0
  <2>1. Len(kept[0]) = 0
    BY DEF KeptBy
  <2> QED BY <2>1
<1>6. p \in 1..N /\ p - 1 \in 0..N /\ p - 1 \notin T
  BY <1>4, <1>5
<1>7. Len(kept[p - 1]) < l /\ l <= Len(kept[p])
  BY <1>2, <1>6
<1>8. Stays(text, p)
  <2> SUFFICES ASSUME ~Stays(text, p) PROVE FALSE
    OBVIOUS
  <2>1. kept[p] = kept[p - 1]
    BY <1>1, <1>6 DEF KeptBy
  <2> QED BY <1>2, <1>6, <1>7, <2>1
<1>9. Len(kept[p]) = Len(kept[p - 1]) + 1 /\ kept[N][Len(kept[p])] = text[p]
  BY <1>1, <1>6, <1>8, KeptOne
<1>10. Len(kept[p]) = l
  BY <1>2, <1>6, <1>7, <1>9
<1> QED BY <1>1, <1>6, <1>8, <1>9, <1>10

(* In lower case a space is a space, and lower case stays.                  *)
LEMMA LowerTwice ==
  ASSUME NEW c \in Nat
  PROVE  Lower(Lower(c)) = Lower(c) /\ (Lower(c) = Space <=> c = Space)
BY DEF Lower, Space

(* The characters of a text in lower case. *)
LEMMA LoweredShape ==
  ASSUME NEW v \in Texts
  PROVE  /\ Lowered(v) \in Texts /\ Len(Lowered(v)) = Len(v)
         /\ \A l \in 1 .. Len(v) : Lowered(v)[l] = Lower(v[l])
PROOF
<1>1. Lowered(v) \in Texts /\ Len(v) \in Nat /\ DOMAIN v = 1 .. Len(v)
  BY LoweredText, TextShape
<1>2. DOMAIN Lowered(v) = 1 .. Len(v) /\ \A l \in 1 .. Len(v) : Lowered(v)[l] = Lower(v[l])
  BY <1>1 DEF Lowered
<1> QED BY <1>1, <1>2, LenProperties DEF Texts

(* Of canonicalize's result every character would stay.                     *)
LEMMA CanonicalStays ==
  ASSUME NEW t \in Texts
  PROVE  \A l \in 1 .. Len(Canonical(t)) : /\ Stays(Canonical(t), l)
                                           /\ Lower(Canonical(t)[l]) = Canonical(t)[l]
PROOF
<1>1. PICK kept : KeptBy(kept, t) /\ Collapse(t) = kept[Len(t)]
  BY CollapseDef DEF KeptBy
<1>2. PICK N \in Nat : N = Len(t)
  BY TextShape
<1>3. PICK v \in Texts : v = Collapse(t) /\ v = kept[N]
  BY <1>1, <1>2, CollapseText
<1>4. PICK c \in Texts : /\ c = Canonical(t) /\ Len(c) = Len(v)
                         /\ \A l \in 1 .. Len(v) : c[l] = Lower(v[l])
  BY <1>3, LoweredShape DEF Canonical
<1>5. Len(v) \in Nat /\ \A l \in 1 .. Len(v) : v[l] \in Nat
  BY TextShape
<1>6. \A l \in 1 .. Len(v) : Lower(c[l]) = c[l] /\ (c[l] = Space <=> v[l] = Space)
  BY <1>4, <1>5, LowerTwice
<1>7. ASSUME NEW l \in 1 .. Len(v) PROVE Stays(c, l)
  <2>1. PICK p \in 1..N : Stays(t, p) /\ Len(kept[p]) = l /\ v[l] = t[p]
    BY <1>1, <1>2, <1>3, KeptFrom
  <2>2. CASE t[p] # Space
    BY <1>6, <2>1, <2>2 DEF Stays
  <2>3. CASE t[p] = Space
    <3>1. /\ p > 1 /\ t[p - 1] # Space
          /\ \E q \in p + 1 .. N : t[q] # Space
      BY <1>2, <2>1, <2>3 DEF Stays
    <3>2. PICK q \in p + 1 .. N : t[q] # Space
      BY <3>1
    <3>3. /\ p - 1 \in 1..N /\ q \in 1..N /\ q - 1 \in 0..N /\ p \in 0..N /\ p <= q - 1
      BY <3>1
    <3>4. Stays(t, p - 1) /\ Stays(t, q)
      BY <3>1, <3>2 DEF Stays
    <3>5. Len(kept[p]) = Len(kept[p - 1]) + 1
      BY <1>1, <1>2, <2>1, KeptOne
    <3>6. Len(kept[p - 1]) \in 1 .. Len(v) /\ v[Len(kept[p - 1])] = t[p - 1]
      BY <1>1, <1>2, <1>3, <3>3, <3>4, KeptOne
    <3>7. /\ Len(kept[q]) \in 1 .. Len(v) /\ v[Len(kept[q])] = t[q]
          /\ Len(kept[q]) = Len(kept[q - 1]) + 1
      BY <1>1, <1>2, <1>3, <3>3, <3>4, KeptOne
    <3>8. Len(kept[p]) <= Len(kept[q - 1]) /\ Len(kept[q - 1]) \in Nat
      BY <1>1, <1>2, <3>3, KeptGrows
    <3>9. PICK a \in 1 .. Len(v) : a = Len(kept[p - 1]) /\ l = a + 1 /\ v[a] # Space
      BY <2>1, <3>1, <3>5, <3>6
    <3>10. PICK b \in 1 .. Len(v) : b = Len(kept[q]) /\ l < b /\ v[b] # Space
      BY <2>1, <3>2, <3>7, <3>8
    <3>11. l > 1 /\ l - 1 = a /\ b \in l + 1 .. Len(c)
      BY <1>4, <1>5, <3>9, <3>10
    <3> QED BY <1>6, <3>9, <3>10, <3>11 DEF Stays
  <2> QED BY <2>2, <2>3
<1> QED BY <1>4, <1>6, <1>7

(* A text is the same words as what canonicalize makes of it.               *)
LEMMA CanonicalWords ==
  ASSUME NEW t \in Texts
  PROVE  SameWords(t, Canonical(t))
PROOF
<1>1. PICK kept : KeptBy(kept, t) /\ Collapse(t) = kept[Len(t)]
  BY CollapseDef DEF KeptBy
<1>2. PICK N \in Nat : N = Len(t)
  BY TextShape
<1>3. PICK v \in Texts : v = Collapse(t) /\ v = kept[N]
  BY <1>1, <1>2, CollapseText
<1>4. PICK c \in Texts : /\ c = Canonical(t) /\ Len(c) = Len(v)
                         /\ \A l \in 1 .. Len(v) : c[l] = Lower(v[l])
  BY <1>3, LoweredShape DEF Canonical
<1>5. /\ Len(v) \in Nat /\ \A l \in 1 .. Len(v) : v[l] \in Nat
      /\ \A p \in 1..N : t[p] \in Nat
  BY <1>2, TextShape
<1>6. \A l \in 1 .. Len(v) : c[l] = Space <=> v[l] = Space
  BY <1>4, <1>5, LowerTwice
<1> DEFINE f == [p \in Solid(t) |-> Len(kept[p])]
<1>7. \A p \in Solid(t) : p \in 1..N /\ t[p] # Space /\ Stays(t, p)
  BY <1>2 DEF Solid, Stays
<1>8. ASSUME NEW p \in Solid(t)
      PROVE  /\ f[p] \in 1 .. Len(v) /\ f[p] \in Solid(c) /\ c[f[p]] = Lower(t[p])
             /\ f[p] = Len(kept[p]) /\ f[p] = Len(kept[p - 1]) + 1
  <2>1. /\ Len(kept[p]) \in 1 .. Len(v) /\ v[Len(kept[p])] = t[p]
        /\ Len(kept[p]) = Len(kept[p - 1]) + 1
    BY <1>1, <1>2, <1>3, <1>7, KeptOne
  <2>2. c[Len(kept[p])] # Space /\ c[Len(kept[p])] = Lower(t[p])
    BY <1>4, <1>6, <1>7, <2>1
  <2> QED BY <1>4, <2>1, <2>2 DEF Solid
<1>9. \A p \in 0..N : Len(kept[p]) \in Nat
  BY <1>1, <1>2, TextShape DEF KeptBy
<1>10. ASSUME NEW p \in Solid(t), NEW q \in Solid(t), p < q PROVE f[p] < f[q]
  <2>1. p \in 0..N /\ q - 1 \in 0..N /\ p <= q - 1
    BY <1>7, <1>10
  <2>2. Len(kept[p]) <= Len(kept[q - 1])
    BY <1>1, <1>2, <2>1, KeptGrows
  <2>3. f[p] = Len(kept[p]) /\ f[q] = Len(kept[q - 1]) + 1
    BY <1>8
  <2> QED BY <1>9, <2>1, <2>2, <2>3
<1>11. ASSUME NEW l \in Solid(c) PROVE \E p \in Solid(t) : f[p] = l
  <2>1. l \in 1 .. Len(v) /\ c[l] # Space
    BY <1>4 DEF Solid
  <2>2. PICK p \in 1..N : Stays(t, p) /\ Len(kept[p]) = l /\ v[l] = t[p]
    BY <1>1, <1>2, <1>3, <2>1, KeptFrom
  <2>3. p \in Solid(t)
    BY <1>2, <1>6, <2>1, <2>2 DEF Solid
  <2> QED BY <2>2, <2>3
<1>12. ASSUME NEW p \in Solid(t) PROVE Lower(c[f[p]]) = Lower(t[p])
  BY <1>5, <1>7, <1>8, LowerTwice
<1>13. ASSUME NEW p \in Solid(t), p + 1 \in Solid(t) PROVE f[p] + 1 \in Solid(c)
  <2>1. f[p + 1] \in Solid(c) /\ f[p + 1] = Len(kept[(p + 1) - 1]) + 1 /\ f[p] = Len(kept[p])
    BY <1>8, <1>13
  <2>2. (p + 1) - 1 = p
    BY <1>7
  <2> QED BY <2>1, <2>2
<1>14. ASSUME NEW p \in Solid(t), f[p] + 1 \in Solid(c) PROVE p + 1 \in Solid(t)
  <2> SUFFICES ASSUME p + 1 \notin Solid(t) PROVE FALSE
    OBVIOUS
  <2>1. PICK q \in Solid(t) : f[q] = f[p] + 1
    BY <1>11, <1>14
  <2>2. p \in 1..N /\ q \in 1..N /\ f[p] \in Nat
    BY <1>7, <1>8
  <2>3. p < q
    <3> SUFFICES ASSUME q <= p PROVE FALSE
      BY <2>2
    <3>1. q < p \/ q = p
      BY <2>2
    <3>2. f[q] <= f[p]
      BY <1>8, <1>10, <2>2, <3>1
    <3> QED BY <2>1, <2>2, <3>2
  <2>4. p + 1 # q
    BY <2>1
  <2>5. PICK s \in 1..N : s = p + 1 /\ s - 1 = p /\ s > 1 /\ q \in s + 1 .. N
    BY <2>2, <2>3, <2>4
  <2>6. Stays(t, s)
    BY <1>2, <1>7, <2>5 DEF Stays
  <2>7. Len(kept[s]) = Len(kept[p]) + 1
    BY <1>1, <1>2, <2>5, <2>6, KeptOne
  <2>8. s \in 0..N /\ q - 1 \in 0..N /\ s <= q - 1
    BY <2>5
  <2>9. Len(kept[s]) <= Len(kept[q - 1])
    BY <1>1, <1>2, <2>8, KeptGrows
  <2>10. f[p] = Len(kept[p]) /\ f[q] = Len(kept[q - 1]) + 1
    BY <1>8
  <2> QED BY <1>9, <2>1, <2>2, <2>7, <2>8, <2>9, <2>10
<1>15. f \in [Solid(t) -> Solid(c)]
  BY <1>8
<1> HIDE DEF f
<1>16. SameWords(t, c)
  BY <1>10, <1>11, <1>12, <1>13, <1>14, <1>15 DEF SameWords
<1> QED BY <1>4, <1>16

(* Two texts with the words of a third have the same words.                 *)
LEMMA WordsBack ==
  ASSUME NEW t \in Texts, NEW u \in Texts, NEW v \in Texts, SameWords(t, v), SameWords(u, v)
  PROVE  SameWords(t, u)
PROOF
<1>1. PICK f \in [Solid(t) -> Solid(v)] :
        /\ \A p, q \in Solid(t) : p < q => f[p] < f[q]
        /\ \A l \in Solid(v) : \E p \in Solid(t) : f[p] = l
        /\ \A p \in Solid(t) : /\ Lower(v[f[p]]) = Lower(t[p])
                               /\ p + 1 \in Solid(t) <=> f[p] + 1 \in Solid(v)
  BY DEF SameWords
<1>2. PICK g \in [Solid(u) -> Solid(v)] :
        /\ \A p, q \in Solid(u) : p < q => g[p] < g[q]
        /\ \A l \in Solid(v) : \E p \in Solid(u) : g[p] = l
        /\ \A p \in Solid(u) : /\ Lower(v[g[p]]) = Lower(u[p])
                               /\ p + 1 \in Solid(u) <=> g[p] + 1 \in Solid(v)
  BY DEF SameWords
<1>3. Solid(t) \subseteq Nat /\ Solid(u) \subseteq Nat /\ Solid(v) \subseteq Nat
  <2>1. ASSUME NEW text \in Texts PROVE Solid(text) \subseteq Nat
    <3>1. Len(text) \in Nat
      BY TextShape
    <3> QED BY <3>1 DEF Solid
  <2> QED BY <2>1
<1> DEFINE h == [p \in Solid(t) |-> CHOOSE q \in Solid(u) : g[q] = f[p]]
<1>4. \A p \in Solid(t) : h[p] \in Solid(u) /\ g[h[p]] = f[p]
  BY <1>1, <1>2
<1>5. h \in [Solid(t) -> Solid(u)]
  BY <1>4
<1> HIDE DEF h
<1>6. ASSUME NEW p \in Solid(u), NEW q \in Solid(u), g[p] <= g[q] PROVE p <= q
  <2> SUFFICES ASSUME q < p PROVE FALSE
    BY <1>3
  <2>1. g[q] < g[p] /\ g[p] \in Nat /\ g[q] \in Nat
    BY <1>2, <1>3
  <2> QED BY <1>6, <2>1
<1>7. ASSUME NEW p \in Solid(t), NEW q \in Solid(t), p < q PROVE h[p] < h[q]
  <2>1. g[h[p]] < g[h[q]] /\ h[p] \in Solid(u) /\ h[q] \in Solid(u)
    BY <1>1, <1>4, <1>7
  <2>2. g[h[p]] \in Nat /\ g[h[q]] \in Nat /\ h[p] \in Nat /\ h[q] \in Nat
    BY <1>2, <1>3, <2>1
  <2>3. ~(h[q] < h[p]) /\ h[p] # h[q]
    BY <1>2, <2>1, <2>2
  <2> QED BY <2>2, <2>3
<1>8. ASSUME NEW l \in Solid(u) PROVE \E p \in Solid(t) : h[p] = l
  <2>1. PICK p \in Solid(t) : f[p] = g[l]
    BY <1>1, <1>2
  <2>2. h[p] \in Solid(u) /\ g[h[p]] = g[l] /\ g[l] \in Nat
    BY <1>2, <1>3, <1>4, <2>1
  <2>3. h[p] <= l /\ l <= h[p]
    BY <1>6, <2>2
  <2> QED BY <1>3, <2>2, <2>3
<1>9. ASSUME NEW p \in Solid(t)
      PROVE  /\ Lower(u[h[p]]) = Lower(t[p])
             /\ p + 1 \in Solid(t) <=> h[p] + 1 \in Solid(u)
  BY <1>1, <1>2, <1>4
<1> QED BY <1>5, <1>7, <1>8, <1>9 DEF SameWords

(* canonicalize merges the spellings of the same words and nothing else.    *)
LEMMA NothingElseForgiven ==
  ASSUME NEW t \in Texts, NEW u \in Texts, Canonical(t) = Canonical(u)
  PROVE  SameWords(t, u)
BY CanonicalText, CanonicalWords, WordsBack
-----------------------------------------------------------------------------
(* Two machines. *)

(* A text of which every character stays is collapsed already.              *)
LEMMA CollapseTidy ==
  ASSUME NEW text \in Texts, \A p \in 1 .. Len(text) : Stays(text, p)
  PROVE  Collapse(text) = text
PROOF
<1>1. PICK kept : KeptBy(kept, text) /\ Collapse(text) = kept[Len(text)]
  BY CollapseDef DEF KeptBy
<1>2. PICK N \in Nat : N = Len(text)
  BY TextShape
<1>3. \A p \in 1..N : /\ Len(kept[p]) = Len(kept[p - 1]) + 1
                      /\ kept[N][Len(kept[p])] = text[p]
  BY <1>1, <1>2, KeptOne
<1> DEFINE T == {p \in 0..N : Len(kept[p]) = p}
<1>4. 0 \in T
  BY <1>1 DEF KeptBy
<1>5. \A p \in 0 .. N - 1 : p \in T => p + 1 \in T
  <2> SUFFICES ASSUME NEW p \in 0 .. N - 1, Len(kept[p]) = p
               PROVE  p + 1 \in 0..N /\ Len(kept[p + 1]) = p + 1
    OBVIOUS
  <2>1. p + 1 \in 1..N /\ (p + 1) - 1 = p
    OBVIOUS
  <2> QED BY <1>3, <2>1
<1> HIDE DEF T
<1>6. 0..N \subseteq T
  BY <1>4, <1>5, NatSetInduction
<1>7. \A p \in 0..N : Len(kept[p]) = p
  BY <1>6 DEF T
<1>8. ASSUME NEW p \in 1..N PROVE kept[N][p] = text[p]
  <2>1. p \in 0..N
    OBVIOUS
  <2>2. Len(kept[p]) = p
    BY <1>7, <2>1
  <2>3. kept[N][Len(kept[p])] = text[p]
    BY <1>3
  <2> QED BY <2>2, <2>3
<1>9. kept[N] \in Texts /\ Len(kept[N]) = N
  <2>1. N \in 0..N
    OBVIOUS
  <2> QED BY <1>1, <1>2, <1>7, <2>1 DEF KeptBy
<1> QED BY <1>1, <1>2, <1>8, <1>9, SameText

(* Numbers of a vendor and of a product: of one length, and no space in it. *)
OfLength(text, width) == Len(text) = width /\ \A p \in 1..width : text[p] # Space

(* The value of a device's identifier. *)
UsbValue(a, b, s) == a \o <<58>> \o b \o <<58>> \o s

(* Where its serial is in it. *)
LEMMA UsbValueShape ==
  ASSUME NEW a \in Texts, NEW b \in Texts, NEW s \in Texts, NEW w \in Nat,
         OfLength(a, w), OfLength(b, w)
  PROVE  /\ UsbValue(a, b, s) \in Texts /\ Len(UsbValue(a, b, s)) = (w + w + 2) + Len(s)
         /\ \A p \in 1 .. w + w + 2 : UsbValue(a, b, s)[p] # Space
         /\ \A p \in 1 .. Len(s) : UsbValue(a, b, s)[(w + w + 2) + p] = s[p]
PROOF
<1>1. \A x, y \in Texts : /\ x \o y \in Texts /\ Len(x \o y) = Len(x) + Len(y)
                          /\ \A p \in 1 .. Len(x) + Len(y) :
                               (x \o y)[p] = IF p <= Len(x) THEN x[p] ELSE y[p - Len(x)]
  BY ConcatProperties DEF Texts
<1>2. <<58>> \in Texts /\ Len(<<58>>) = 1 /\ <<58>>[1] = 58 /\ 58 # Space
  BY DEF Texts, Space
<1>3. Len(a) = w /\ Len(b) = w /\ Len(s) \in Nat
  BY TextShape DEF OfLength
<1>4. PICK t \in Texts : t = a \o <<58>>
  BY <1>1, <1>2
<1>5. Len(t) = w + 1 /\ \A p \in 1 .. w + 1 : t[p] # Space
  <2>1. Len(t) = w + 1
    BY <1>1, <1>2, <1>3, <1>4
  <2>2. \A p \in 1 .. w + 1 : t[p] = IF p <= w THEN a[p] ELSE <<58>>[p - w]
    <3>1. \A p \in 1 .. Len(a) + Len(<<58>>) :
            t[p] = IF p <= Len(a) THEN a[p] ELSE <<58>>[p - Len(a)]
      BY <1>1, <1>2, <1>4
    <3> QED BY <1>2, <1>3, <3>1
  <2>3. \A p \in 1 .. w + 1 : p <= w \/ p - w = 1
    OBVIOUS
  <2>4. \A p \in 1 .. w + 1 : p <= w => p \in 1..w
    OBVIOUS
  <2> QED BY <1>2, <2>1, <2>2, <2>3, <2>4 DEF OfLength
<1>6. PICK u \in Texts : u = t \o b
  BY <1>1
<1>7. Len(u) = w + w + 1 /\ \A p \in 1 .. w + w + 1 : u[p] # Space
  <2>1. Len(u) = w + w + 1
    <3>1. Len(u) = Len(t) + Len(b)
      BY <1>1, <1>6
    <3> QED BY <1>3, <1>5, <3>1
  <2>2. \A p \in 1 .. w + w + 1 : u[p] = IF p <= w + 1 THEN t[p] ELSE b[p - (w + 1)]
    <3>1. \A p \in 1 .. Len(t) + Len(b) :
            u[p] = IF p <= Len(t) THEN t[p] ELSE b[p - Len(t)]
      BY <1>1, <1>6
    <3>2. Len(t) = w + 1 /\ Len(t) + Len(b) = w + w + 1
      BY <1>3, <1>5
    <3> QED BY <3>1, <3>2
  <2>3. \A p \in 1 .. w + w + 1 : /\ p <= w + 1 => p \in 1 .. w + 1
                                  /\ ~(p <= w + 1) => p - (w + 1) \in 1..w
    OBVIOUS
  <2> QED BY <1>5, <2>1, <2>2, <2>3 DEF OfLength
<1>8. PICK v \in Texts : v = u \o <<58>>
  BY <1>1, <1>2
<1> DEFINE m == w + w + 2
<1>9. Len(v) = m /\ \A p \in 1..m : v[p] # Space
  <2>1. Len(v) = m
    <3>1. Len(v) = Len(u) + Len(<<58>>)
      BY <1>1, <1>2, <1>8
    <3> QED BY <1>2, <1>7, <3>1
  <2>2. \A p \in 1..m : v[p] = IF p <= w + w + 1 THEN u[p] ELSE <<58>>[p - (w + w + 1)]
    <3>1. \A p \in 1 .. Len(u) + Len(<<58>>) :
            v[p] = IF p <= Len(u) THEN u[p] ELSE <<58>>[p - Len(u)]
      BY <1>1, <1>2, <1>8
    <3>2. Len(u) = w + w + 1 /\ Len(u) + Len(<<58>>) = m
      BY <1>2, <1>7
    <3> QED BY <3>1, <3>2
  <2>3. \A p \in 1..m : /\ p <= w + w + 1 => p \in 1 .. w + w + 1
                        /\ ~(p <= w + w + 1) => p - (w + w + 1) = 1
    OBVIOUS
  <2> QED BY <1>2, <1>7, <2>1, <2>2, <2>3
<1>10. m \in Nat
  OBVIOUS
<1> HIDE DEF m
<1>11. UsbValue(a, b, s) = v \o s
  BY <1>4, <1>6, <1>8 DEF UsbValue
<1>12. /\ v \o s \in Texts /\ Len(v \o s) = m + Len(s)
       /\ \A p \in 1 .. m + Len(s) : (v \o s)[p] = IF p <= m THEN v[p] ELSE s[p - m]
  BY <1>1, <1>9
<1>13. \A p \in 1..m : p \in 1 .. m + Len(s) /\ p <= m
  BY <1>3, <1>10
<1>14. \A p \in 1 .. Len(s) : m + p \in 1 .. m + Len(s) /\ ~(m + p <= m) /\ (m + p) - m = p
  BY <1>3, <1>10
<1>15. /\ UsbValue(a, b, s) \in Texts /\ Len(UsbValue(a, b, s)) = m + Len(s)
       /\ \A p \in 1..m : UsbValue(a, b, s)[p] # Space
       /\ \A p \in 1 .. Len(s) : UsbValue(a, b, s)[m + p] = s[p]
  BY <1>9, <1>11, <1>12, <1>13, <1>14
<1> QED BY <1>15 DEF m

(* Behind the numbers, canonicalize finds the serial in order.              *)
LEMMA UsbValueKept ==
  ASSUME NEW a \in Texts, NEW b \in Texts, NEW t \in Texts, NEW w \in Nat,
         OfLength(a, w), OfLength(b, w)
  PROVE  LET s == Canonical(t)
             c == Canonical(UsbValue(a, b, s)) IN
         /\ c \in Texts /\ Len(c) = (w + w + 2) + Len(s)
         /\ \A p \in 1 .. Len(s) : c[(w + w + 2) + p] = s[p]
PROOF
<1>1. PICK s \in Texts : s = Canonical(t)
  BY CanonicalText
<1> DEFINE m == w + w + 2
<1>2. PICK v \in Texts : /\ v = UsbValue(a, b, s) /\ Len(v) = m + Len(s)
                         /\ \A p \in 1..m : v[p] # Space
                         /\ \A p \in 1 .. Len(s) : v[m + p] = s[p]
  BY UsbValueShape
<1>3. \A p \in 1 .. Len(s) : Stays(s, p) /\ Lower(s[p]) = s[p]
  BY <1>1, CanonicalStays
<1>4. m \in Nat /\ Len(s) \in Nat
  BY TextShape
<1> HIDE DEF m
<1>5. ASSUME NEW p \in 1 .. Len(v) PROVE Stays(v, p)
  <2>1. CASE p <= m
    BY <1>2, <1>4, <2>1 DEF Stays
  <2>2. CASE p > m
    <3>1. PICK q \in 1 .. Len(s) : p = m + q
      <4>1. p - m \in 1 .. Len(s) /\ p = m + (p - m)
        BY <1>2, <1>4, <2>2
      <4> QED BY <4>1
    <3>2. v[p] = s[q] /\ Stays(s, q)
      BY <1>2, <1>3, <3>1
    <3>3. CASE s[q] # Space
      BY <3>2, <3>3 DEF Stays
    <3>4. CASE s[q] = Space
      <4>1. PICK z \in q + 1 .. Len(s) : q > 1 /\ s[q - 1] # Space /\ s[z] # Space
        BY <3>2, <3>4 DEF Stays
      <4>2. /\ q - 1 \in 1 .. Len(s) /\ z \in 1 .. Len(s) /\ p > 1 /\ p - 1 = m + (q - 1)
            /\ m + z \in p + 1 .. Len(v)
        BY <1>2, <1>4, <3>1, <4>1
      <4>3. v[p - 1] # Space /\ v[m + z] # Space
        BY <1>2, <4>1, <4>2
      <4> QED BY <4>2, <4>3 DEF Stays
    <3> QED BY <3>3, <3>4
  <2>3. p <= m \/ p > m
    BY <1>4
  <2> QED BY <2>1, <2>2, <2>3
<1>6. Canonical(v) = Lowered(v)
  BY <1>5, CollapseTidy DEF Canonical
<1>7. /\ Canonical(v) \in Texts /\ Len(Canonical(v)) = m + Len(s)
      /\ \A p \in 1 .. Len(v) : Canonical(v)[p] = Lower(v[p])
  BY <1>2, <1>6, LoweredShape
<1>8. \A p \in 1 .. Len(s) : m + p \in 1 .. Len(v)
  BY <1>2, <1>4
<1>9. \A p \in 1 .. Len(s) : Canonical(v)[m + p] = s[p]
  BY <1>2, <1>3, <1>7, <1>8
<1> QED BY <1>1, <1>2, <1>7, <1>9 DEF m

(* Two devices with one identifier have one serial, in some spelling.       *)
LEMMA SameUsb ==
  ASSUME NEW d, NEW e, {d.vid, d.pid, d.serial, e.vid, e.pid, e.serial} \subseteq Texts,
         NEW w \in Nat,
         \A t \in {Attr(d.vid), Attr(d.pid), Attr(e.vid), Attr(e.pid)} : OfLength(t, w),
         UsbIdentifiers(d) \cap UsbIdentifiers(e) # {}
  PROVE  SameWords(Attr(d.serial), Attr(e.serial))
PROOF
<1>1. PICK a \in Texts, b \in Texts, t \in Texts :
        a = Attr(d.vid) /\ b = Attr(d.pid) /\ t = Attr(d.serial)
  BY AttrText
<1>2. PICK a_ \in Texts, b_ \in Texts, t_ \in Texts :
        a_ = Attr(e.vid) /\ b_ = Attr(e.pid) /\ t_ = Attr(e.serial)
  BY AttrText
<1>3. PICK s \in Texts, s_ \in Texts : s = Canonical(t) /\ s_ = Canonical(t_)
  BY CanonicalText
<1>4. PICK id : id \in UsbIdentifiers(d) /\ id \in UsbIdentifiers(e)
  OBVIOUS
<1>5. id.value = Canonical(UsbValue(a, b, s))
  <2>1. id \in Identifiers("usb_device", {UsbValue(a, b, s)})
    BY <1>1, <1>3, <1>4 DEF UsbIdentifiers, UsbValue
  <2> QED BY <2>1 DEF Identifiers
<1>6. id.value = Canonical(UsbValue(a_, b_, s_))
  <2>1. id \in Identifiers("usb_device", {UsbValue(a_, b_, s_)})
    BY <1>2, <1>3, <1>4 DEF UsbIdentifiers, UsbValue
  <2> QED BY <2>1 DEF Identifiers
<1>7. OfLength(a, w) /\ OfLength(b, w) /\ OfLength(a_, w) /\ OfLength(b_, w)
  BY <1>1, <1>2
<1> DEFINE m == w + w + 2
<1>8. /\ Len(id.value) = m + Len(s)
      /\ \A p \in 1 .. Len(s) : id.value[m + p] = s[p]
  <2>1. /\ Len(Canonical(UsbValue(a, b, Canonical(t)))) = m + Len(Canonical(t))
        /\ \A p \in 1 .. Len(Canonical(t)) :
             Canonical(UsbValue(a, b, Canonical(t)))[m + p] = Canonical(t)[p]
    BY <1>7, UsbValueKept
  <2> QED BY <1>3, <1>5, <2>1
<1>9. /\ Len(id.value) = m + Len(s_)
      /\ \A p \in 1 .. Len(s_) : id.value[m + p] = s_[p]
  <2>1. /\ Len(Canonical(UsbValue(a_, b_, Canonical(t_)))) = m + Len(Canonical(t_))
        /\ \A p \in 1 .. Len(Canonical(t_)) :
             Canonical(UsbValue(a_, b_, Canonical(t_)))[m + p] = Canonical(t_)[p]
    BY <1>7, UsbValueKept
  <2> QED BY <1>3, <1>6, <2>1
<1>10. Len(s) \in Nat /\ Len(s_) \in Nat /\ m \in Nat
  BY TextShape
<1> HIDE DEF m
<1>11. Len(s) = Len(s_)
  BY <1>8, <1>9, <1>10
<1>12. s = s_
  BY <1>8, <1>9, <1>11, SameText
<1> QED BY <1>1, <1>2, <1>3, <1>12, NothingElseForgiven

(* No text of T is one of U in another spelling, junk apart.                *)
NoneTwice(T, U) == \A t \in T, u \in U : SameWords(t, u) => Junk(Canonical(t))

(* Two machines no part of which carries a serial of the other's.           *)
ToldApart(m, n, width) ==
  /\ NoneTwice(Range(Serials(m.structures)), Range(Serials(n.structures)))
  /\ NoneTwice({m.dmi.board_serial}, {n.dmi.board_serial})
  /\ NoneTwice({m.dmi.product_uuid}, {n.dmi.product_uuid})
  /\ \A d \in m.usb, e \in n.usb :
       UsbIdentifiers(d) # {} /\ UsbIdentifiers(e) # {} =>
         /\ ~SameWords(Attr(d.serial), Attr(e.serial))
         /\ \A t \in {Attr(d.vid), Attr(d.pid), Attr(e.vid), Attr(e.pid)} : OfLength(t, width)

(* They have no identifier in common but their processor's.                 *)
LEMMA ApartIds ==
  ASSUME NEW m \in Machines, NEW n \in Machines, NEW width \in Nat, ToldApart(m, n, width)
  PROVE  \A id \in IdsOf(m) \cap IdsOf(n) : id.class = "cpu"
PROOF
<1>1. ASSUME NEW class, NEW T \in SUBSET Texts, NEW U \in SUBSET Texts, NoneTwice(T, U)
      PROVE  Identifiers(class, T) \cap Identifiers(class, U) = {}
  <2> SUFFICES ASSUME NEW id \in Identifiers(class, T), id \in Identifiers(class, U)
               PROVE  FALSE
    OBVIOUS
  <2>1. PICK t \in T : ~Junk(Canonical(t)) /\ id.value = Canonical(t)
    BY DEF Identifiers
  <2>2. PICK u \in U : id.value = Canonical(u)
    BY DEF Identifiers
  <2>3. SameWords(t, u)
    BY <2>1, <2>2, NothingElseForgiven
  <2> QED BY <1>1, <2>1, <2>3 DEF NoneTwice
<1>2. ASSUME NEW class, NEW T, NEW id \in Identifiers(class, T) PROVE id.class = class
  BY DEF Identifiers
<1>3. /\ m.dmi.board_serial \in Texts /\ m.dmi.product_uuid \in Texts
      /\ n.dmi.board_serial \in Texts /\ n.dmi.product_uuid \in Texts
      /\ \A d \in m.usb \cup n.usb : {d.vid, d.pid, d.serial} \subseteq Texts
  BY CollectAssumption DEF Plausible, Texts
<1>4. RamIds(m) \cap RamIds(n) = {}
  BY <1>1, SerialsTexts DEF ToldApart, RamIds
<1> DEFINE B(o) == Identifiers("board_serial", {o.dmi.board_serial})
           P(o) == Identifiers("product_uuid", {o.dmi.product_uuid})
<1>5. B(m) \cap B(n) = {} /\ P(m) \cap P(n) = {}
  BY <1>1, <1>3 DEF ToldApart
<1>6. UsbIds(m) \cap UsbIds(n) = {}
  <2> SUFFICES ASSUME NEW d \in m.usb, NEW e \in n.usb,
                      UsbIdentifiers(d) \cap UsbIdentifiers(e) # {}
               PROVE  FALSE
    BY DEF UsbIds
  <2>1. /\ ~SameWords(Attr(d.serial), Attr(e.serial))
        /\ \A t \in {Attr(d.vid), Attr(d.pid), Attr(e.vid), Attr(e.pid)} : OfLength(t, width)
    BY DEF ToldApart
  <2>2. {d.vid, d.pid, d.serial, e.vid, e.pid, e.serial} \subseteq Texts
    BY <1>3
  <2> QED BY <2>1, <2>2, SameUsb
<1>7. ASSUME NEW o \in {m, n}
      PROVE  /\ \A id \in RamIds(o) : id.class = "ram_serial"
             /\ \A id \in CpuIds(o) : id.class = "cpu"
             /\ \A id \in B(o) : id.class = "board_serial"
             /\ \A id \in P(o) : id.class = "product_uuid"
             /\ \A id \in UsbIds(o) : id.class = "usb_device"
  <2>1. \A d \in o.usb : \A id \in UsbIdentifiers(d) : id.class = "usb_device"
    BY DEF UsbIdentifiers, Identifiers
  <2>2. \A id \in UsbIds(o) : id.class = "usb_device"
    BY <2>1 DEF UsbIds
  <2> QED BY <1>2, <2>2 DEF RamIds, CpuIds
<1>8. \A o : IdsOf(o) = RamIds(o) \cup CpuIds(o) \cup B(o) \cup P(o) \cup UsbIds(o)
  BY DEF IdsOf, DmiIds
<1> HIDE DEF B, P
<1> SUFFICES ASSUME NEW id \in IdsOf(m), id \in IdsOf(n), id.class # "cpu" PROVE FALSE
  OBVIOUS
<1>9. \/ id \in RamIds(m) \/ id \in B(m) \/ id \in P(m) \/ id \in UsbIds(m)
  BY <1>7, <1>8
<1>10. \/ id \in RamIds(n) \/ id \in B(n) \/ id \in P(n) \/ id \in UsbIds(n)
  BY <1>7, <1>8
<1> QED BY <1>4, <1>5, <1>6, <1>7, <1>9, <1>10

(* The identifiers of a machine are finitely many.                          *)
LEMMA IdsOfShape ==
  ASSUME NEW m \in Machines
  PROVE  IdsOf(m) \in SUBSET Ids /\ IsFiniteSet(IdsOf(m))
PROOF
<1>1. /\ CpuIds(m) \in SUBSET Ids /\ IsFiniteSet(CpuIds(m))
      /\ DmiIds(m) \in SUBSET Ids /\ IsFiniteSet(DmiIds(m))
      /\ IsFiniteSet(m.usb)
      /\ \A d \in m.usb : UsbIdentifiers(d) \in SUBSET Ids /\ IsFiniteSet(UsbIdentifiers(d))
  BY MachineTexts
<1>2. RamIds(m) \in SUBSET Ids /\ IsFiniteSet(RamIds(m))
  BY SerialsTexts, RamTexts DEF RamIds
<1>3. UsbIds(m) \in SUBSET Ids /\ IsFiniteSet(UsbIds(m))
  <2> DEFINE g == [d \in m.usb |-> UsbIdentifiers(d)]
             S == {g[d] : d \in m.usb}
  <2>1. UsbIds(m) = UNION S
    BY DEF UsbIds
  <2>2. \A A \in S : A \in SUBSET Ids /\ IsFiniteSet(A)
    BY <1>1
  <2> HIDE DEF g
  <2>3. IsFiniteSet(S)
    BY <1>1, FiniteImage
  <2> HIDE DEF S
  <2>4. IsFiniteSet(UNION S)
    BY <2>2, <2>3, FS_UNION
  <2> QED BY <2>1, <2>2, <2>4
<1>4. IsFiniteSet(RamIds(m) \cup CpuIds(m))
  BY <1>1, <1>2, FS_Union
<1>5. IsFiniteSet((RamIds(m) \cup CpuIds(m)) \cup DmiIds(m))
  BY <1>1, <1>4, FS_Union
<1>6. IsFiniteSet(((RamIds(m) \cup CpuIds(m)) \cup DmiIds(m)) \cup UsbIds(m))
  BY <1>3, <1>5, FS_Union
<1> QED BY <1>1, <1>2, <1>3, <1>6 DEF IdsOf

(* Two machines of one model have no identifier in common but that of their *)
(* processor, when no part of the one carries a serial of the other's in    *)
(* any spelling.  Both may show any number of placeholders, the same ones   *)
(* included.                                                                *)
THEOREM NoFalseKinship ==
  ASSUME NEW width \in Nat,
         \A m, n \in Machines : m.chassis # n.chassis => ToldApart(m, n, width)
  PROVE  Spec => []NoFalseKin
PROOF
<1>1. SetInv /\ SourceInv /\ FirstInv => NoFalseKin
  <2> SUFFICES ASSUME SetInv, SourceInv, FirstInv, source = "done",
                      first.chassis \notin {"none", hw.chassis}
               PROVE  \A id \in Range(all) \cap Range(first.all) : id.class = "cpu"
    BY DEF NoFalseKin
  <2>1. first # NoBoot
    BY DEF NoBoot
  <2>2. PICK m \in Machines : first = [chassis |-> m.chassis, all |-> InOrder(IdsOf(m))]
    BY <2>1 DEF FirstInv
  <2>3. hw \in Machines /\ set = IdsOf(hw) /\ all = InOrder(set)
    BY <2>1 DEF FirstInv, SetInv, SourceInv
  <2>4. Range(all) = IdsOf(hw)
    BY <2>3, InOrderShape DEF SetInv
  <2>5. Range(first.all) = IdsOf(m)
    <3>1. IdsOf(m) \in SUBSET Ids /\ IsFiniteSet(IdsOf(m))
      BY IdsOfShape
    <3> QED BY <2>2, <3>1, InOrderShape
  <2>6. ToldApart(hw, m, width)
    BY <2>2, <2>3
  <2>7. \A id \in IdsOf(hw) \cap IdsOf(m) : id.class = "cpu"
    BY <2>2, <2>3, <2>6, ApartIds
  <2> QED BY <2>4, <2>5, <2>7
<1> QED BY <1>1, SerialsAreExact, BoundsInit, BoundsNext, SetInit, SetNext,
           SourceInit, SourceNext, PTL DEF Spec
=============================================================================
