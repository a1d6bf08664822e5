--------------------------- MODULE RecoverProofs ---------------------------
(***************************************************************************)
(* Proofs about one token, for every value of the constants: any machine   *)
(* and identifiers, hints that collide or not, any threshold, any number   *)
(* of enrollments and of altered fields.                                   *)
(*                                                                         *)
(* The argument: IInv is inductive.  A share nobody altered is still the   *)
(* one enroll() sealed, a box that opens is always in its own place, and   *)
(* the loop of recover() has opened every share it has passed that it      *)
(* could open.  What recover() returns is then a question of counting.     *)
(***************************************************************************)
EXTENDS Recover, SequenceTheorems, FiniteSetTheorems, TLAPS

-----------------------------------------------------------------------------
(* The inductive invariant. *)

Shares == [idx : Nat, class : Classes, hint : Hints, box : Boxes \cup {Broken}]
Tokens == [type : {"none", "luks-hwid", "other"}, version : Nat, k : Nat,
           kdf : {"none", "argon2id", "other", "invalid"},
           cipher : {"none", "xchacha20-poly1305", "other"}, shares : Seq(Shares)]

(* The variables, the token above all; one owner for each share. *)
DataInv ==
  /\ hw \in Machines /\ enrolled \in 0..MaxEnrolled
  /\ alterations \in 0..MaxChanges
  /\ meta \in Tokens /\ older \in Tokens
  /\ owners \in [1..Len(meta.shares) -> Ids]
  /\ \A i, j \in DOMAIN owners : owners[i] = owners[j] => i = j
  /\ touched \subseteq 0..Len(meta.shares)
  /\ meta = NoMeta => touched = {}

(* The fields outside the shares, as long as nobody altered one. *)
EnvelopeInv ==
  /\ meta.type = "none" => meta = NoMeta
  /\ meta # NoMeta /\ 0 \notin touched =>
       /\ meta.type = "luks-hwid" /\ meta.version = FORMAT_VERSION
       /\ meta.kdf = "argon2id" /\ meta.cipher = "xchacha20-poly1305"
       /\ 2 <= meta.k /\ meta.shares # <<>>

(* A share nobody altered is the one that enroll() sealed. *)
SealedInv ==
  \A i \in DOMAIN meta.shares \ touched :
    LET s == meta.shares[i]  id == owners[i] IN
      /\ s.idx = i /\ s.class = ClassOf[id] /\ s.hint = HintOf[id]
      /\ s.box \in Boxes
      /\ s.box.id = id /\ s.box.class = s.class /\ s.box.secret = enrolled

(* A box is in the place it was sealed for, also one of the older token. *)
PlaceInv ==
  /\ \A i \in DOMAIN meta.shares : LET b == meta.shares[i].box IN
       b # Broken => /\ b.idx = i /\ b.secret \in 1..enrolled
                     /\ b.secret = enrolled /\ 0 \notin touched => b.k = meta.k
  /\ \A i \in DOMAIN older.shares : LET b == older.shares[i].box IN
       b # Broken => b.idx = i /\ b.secret \in 1 .. enrolled - 1

(* The loop: what it has opened, and that it left out none it could open. *)
LoopInv ==
  /\ at \in {"idle", "loop", "done"} /\ pos \in 1 .. Len(meta.shares) + 1
  /\ at = "idle" => pos = 1 /\ opened = <<>>
  /\ at # "idle" => meta # NoMeta
  /\ at = "loop" => Refusal(meta) = "no"
  /\ opened \in Seq(Shares)
  /\ \A i \in DOMAIN opened : LET s == opened[i] IN
       /\ s.idx \in 1 .. pos - 1 /\ s = meta.shares[s.idx]
       /\ s.box # Broken /\ s.box.idx = s.idx /\ Candidates(s, hw) # {}
  /\ \A i, j \in DOMAIN opened : opened[i].idx = opened[j].idx => i = j
  /\ at = "loop" /\ 0 \notin touched =>
       \A j \in 1 .. pos - 1 : owners[j] \in hw /\ j \notin touched =>
         \E i \in DOMAIN opened : opened[i].idx = j

(* What status said is still true of the machine it was run on. *)
ToldInv ==
  /\ told \in [code : 0..2, margin : Int, hw : SUBSET Ids]
  /\ told.code = 0 => meta # NoMeta /\ told.margin = Margin(meta, told.hw)

(* What recover() returned. *)
ResultInv ==
  /\ res.secret \in 0..enrolled
  /\ WrongOnlyIfForged /\ QuorumSuffices /\ NoFalseAlarm

IInv ==
  DataInv /\ EnvelopeInv /\ SealedInv /\ PlaceInv /\ LoopInv /\ ToldInv /\ ResultInv
-----------------------------------------------------------------------------
(* The identifiers of a machine in order: each place has one, each one a    *)
(* place of its own.                                                        *)
LEMMA NthInto ==
  ASSUME NEW S \in SUBSET Ids
  PROVE  /\ \A i \in 1..Cardinality(S) : Nth(S, i) \in S
         /\ \A i, j \in 1..Cardinality(S) : Nth(S, i) = Nth(S, j) => i = j
PROOF
<1> DEFINE Below(x) == {y \in S : y < x}
           n == Cardinality(S)
           r == [x \in S |-> Cardinality(Below(x))]
<1>1. IsFiniteSet(S) /\ n \in Nat
  BY IdAssumption, FS_Subset, FS_CardinalityType
<1>2. \A x \in S : IsFiniteSet(Below(x)) /\ Cardinality(Below(x)) \in 0 .. n - 1
  <2>1. TAKE x \in S
  <2>2. Below(x) \in SUBSET S /\ Below(x) # S
    BY IdAssumption
  <2>3. IsFiniteSet(Below(x)) /\ Cardinality(Below(x)) <= n /\ Cardinality(Below(x)) # n
    BY <1>1, <2>2, FS_Subset
  <2>4. Cardinality(Below(x)) \in Nat
    BY <2>3, FS_CardinalityType
  <2> QED BY <1>1, <2>3, <2>4
<1>3. \A x, y \in S : x < y => r[x] < r[y]
  <2>1. SUFFICES ASSUME NEW x \in S, NEW y \in S, x < y PROVE r[x] < r[y]
    OBVIOUS
  <2>0. S \subseteq Nat
    BY IdAssumption
  <2>2. Below(x) \subseteq Below(y)
    <3>1. \A z \in S : z < x => z < y
      BY <2>0, <2>1
    <3> QED BY <3>1
  <2>3. x \in Below(y) /\ x \notin Below(x)
    BY <2>1, IdAssumption
  <2>4. Cardinality(Below(x)) <= Cardinality(Below(y))
        /\ Cardinality(Below(x)) # Cardinality(Below(y))
    BY <1>2, <2>2, <2>3, FS_Subset
  <2>5. r[x] = Cardinality(Below(x)) /\ r[y] = Cardinality(Below(y))
    OBVIOUS
  <2>6. Cardinality(Below(x)) \in Nat /\ Cardinality(Below(y)) \in Nat
    BY <1>2, FS_CardinalityType
  <2> HIDE DEF r, Below
  <2> QED BY <2>4, <2>5, <2>6
<1>4. r \in Injection(S, 0 .. n - 1)
  <2>1. r \in [S -> 0 .. n - 1]
    BY <1>2
  <2>2. \A x \in S : r[x] \in Nat /\ x \in Nat
    BY <1>1, <1>2, IdAssumption
  <2> HIDE DEF r, Below, n
  <2>3. \A x, y \in S : r[x] = r[y] => x = y
    BY <1>3, <2>2
  <2> QED BY <2>1, <2>3 DEF Injection, IsInjective
<1>5. IsFiniteSet(0 .. n - 1) /\ Cardinality(0 .. n - 1) = n
  BY <1>1, FS_Interval
<1>6. r \in Surjection(S, 0 .. n - 1)
  BY <1>4, <1>5, FS_Injection
<1>7. \A i \in 1..n : \E x \in S : Cardinality(Below(x)) = i - 1
  <2>1. TAKE i \in 1..n
  <2>2. i - 1 \in 0 .. n - 1
    BY <1>1
  <2>3. PICK x \in S : r[x] = i - 1
    BY <1>6, <2>2 DEF Surjection
  <2> QED BY <2>3
<1>8. \A i \in 1..n : Nth(S, i) \in S /\ Cardinality(Below(Nth(S, i))) = i - 1
  BY <1>7 DEF Nth
<1> QED
  <2>1. \A i, j \in 1..n : Nth(S, i) = Nth(S, j) => i = j
    <3>1. SUFFICES ASSUME NEW i \in 1..n, NEW j \in 1..n, Nth(S, i) = Nth(S, j)
                   PROVE  i = j
      OBVIOUS
    <3>2. i - 1 = j - 1
      BY <1>8, <3>1
    <3> QED BY <3>2
  <2> QED BY <1>8, <2>1

(* The places of a token's shares can be counted. *)
LEMMA Places ==
  ASSUME NEW n \in Nat
  PROVE  IsFiniteSet(1..n) /\ Cardinality(1..n) = n
PROOF
  BY FS_Interval

(* Enough points of one polynomial, each at its own abscissa, give its      *)
(* secret; a token that was not forged has no others.                       *)
LEMMA PointsAgree ==
  ASSUME NEW points \in Seq(Shares), NEW secret,
         points # <<>>, Len(points) >= points[1].box.k,
         \A i, j \in DOMAIN points : points[i].idx = points[j].idx => i = j,
         \A i \in DOMAIN points : LET b == points[i].box IN
           b.secret = secret /\ b.idx = points[i].idx
  PROVE  Reconstruct(points) = [err |-> "no", secret |-> secret]
PROOF
<1>1. 1 \in DOMAIN points
  OBVIOUS
<1>2. /\ points[1].box.secret = secret
      /\ \A i \in DOMAIN points : points[i].box.secret = secret
                                  /\ points[i].box.idx = points[i].idx
      /\ ~ \E i, j \in DOMAIN points : i # j /\ points[i].idx = points[j].idx
  BY <1>1
<1> QED BY <1>2 DEF Reconstruct

LEMMA InitIInv == Init => IInv
PROOF
<1> SUFFICES ASSUME Init PROVE IInv
  OBVIOUS
<1> USE DEF Init, NoMeta, Untold, Failed
<1>0. <<>> \in Seq(Shares) /\ Len(<<>>) = 0
  OBVIOUS
<1>1. DataInv
  <2>1. meta \in Tokens
    BY <1>0 DEF Tokens
  <2> QED BY <2>1, <1>0, BoundAssumption DEF DataInv
<1>2. EnvelopeInv
  BY DEF EnvelopeInv
<1>3. SealedInv /\ PlaceInv
  BY DEF SealedInv, PlaceInv
<1>4. LoopInv
  BY <1>0 DEF LoopInv
<1>5. ToldInv
  BY DEF ToldInv
<1>6. ResultInv
  BY DEF ResultInv, WrongOnlyIfForged, NeverWrong, QuorumSuffices, NoFalseAlarm
<1> QED BY <1>1, <1>2, <1>3, <1>4, <1>5, <1>6 DEF IInv

(* What is forgotten disturbs nothing: the process that knew it is gone.    *)
LEMMA ForgetRun ==
  ASSUME Forget, (Len(meta.shares))' \in Nat, (enrolled \in Nat)'
  PROVE  LoopInv' /\ ResultInv'
PROOF
<1> USE DEF Forget, Failed
<1>1. LoopInv'
  BY DEF LoopInv
<1>2. ResultInv'
  BY DEF ResultInv, WrongOnlyIfForged, NeverWrong, QuorumSuffices, NoFalseAlarm
<1> QED BY <1>1, <1>2

(* A new token: every share is sealed, in its place.                        *)
LEMMA EnrollStep == IInv /\ Enroll => IInv'
PROOF
<1> SUFFICES ASSUME IInv, Enroll PROVE IInv'
  OBVIOUS
<1> USE DEF IInv
<1>1. PICK k \in Thresholds :
        /\ Enrollable(k, Cardinality(hw))
        /\ owners' = [i \in 1..Cardinality(hw) |-> Nth(hw, i)]
        /\ meta' = SealedToken(hw, enrolled + 1, k)
  BY DEF Enroll
<1> DEFINE n == Cardinality(hw)
<1>2. /\ hw \in SUBSET Ids /\ hw' = hw /\ n \in Nat /\ 2 <= k /\ k <= n /\ k \in Nat
      /\ enrolled \in Nat /\ enrolled' = enrolled + 1 /\ enrolled' <= MaxEnrolled
  <2>1. hw \in SUBSET Ids
    BY IdAssumption DEF DataInv
  <2>2. n \in Nat
    BY <2>1, IdAssumption, FS_Subset, FS_CardinalityType
  <2>3. hw' = hw /\ enrolled < MaxEnrolled /\ enrolled' = enrolled + 1
    BY DEF Enroll
  <2> QED BY <1>1, <2>1, <2>2, <2>3, BoundAssumption DEF Enrollable, DataInv
<1>3. \A i \in 1..n : Nth(hw, i) \in Ids /\ SealedShare(hw, i, enrolled', k).box \in Boxes
                      /\ SealedShare(hw, i, enrolled', k) \in Shares
  BY <1>2, NthInto DEF SealedShare, Boxes, Shares, Classes, Hints
<1>4. /\ meta'.shares = [i \in 1..n |-> SealedShare(hw, i, enrolled', k)]
      /\ meta'.type = "luks-hwid" /\ meta'.version = FORMAT_VERSION /\ meta'.k = k
      /\ meta'.kdf = "argon2id" /\ meta'.cipher = "xchacha20-poly1305"
  BY <1>1, <1>2 DEF SealedToken
<1>5. meta'.shares \in Seq(Shares) /\ Len(meta'.shares) = n /\ DOMAIN meta'.shares = 1..n
  BY <1>2, <1>3, <1>4
<1>6. older' \in Tokens /\ (older' = meta \/ older' = NoMeta)
  BY DEF Enroll, DataInv, Tokens, NoMeta
<1>7. DataInv'
  <2>1. meta' \in Tokens
    BY <1>1, <1>2, <1>4, <1>5, BoundAssumption DEF SealedToken, Tokens
  <2>2. owners' \in [1..Len(meta'.shares) -> Ids]
        /\ \A i, j \in DOMAIN owners' : owners'[i] = owners'[j] => i = j
    BY <1>1, <1>2, <1>5, NthInto
  <2> QED BY <1>2, <1>6, <2>1, <2>2, BoundAssumption DEF DataInv, Enroll
<1>8. EnvelopeInv'
  BY <1>2, <1>4, <1>5 DEF EnvelopeInv
<1>9. SealedInv'
  <2>1. owners' = [i \in 1..n |-> Nth(hw, i)] /\ \A i \in 1..n : owners'[i] = Nth(hw, i)
    BY <1>1
  <2>2. SUFFICES ASSUME NEW i \in 1..n
                 PROVE  LET s == meta'.shares[i]  id == owners'[i] IN
                          /\ s.idx = i /\ s.class = ClassOf[id] /\ s.hint = HintOf[id]
                          /\ s.box \in Boxes /\ s.box.id = id
                          /\ s.box.class = s.class /\ s.box.secret = enrolled'
    BY <1>5 DEF SealedInv
  <2>3. meta'.shares[i] = SealedShare(hw, i, enrolled', k) /\ owners'[i] = Nth(hw, i)
    BY <1>4, <2>1
  <2>4. SealedShare(hw, i, enrolled', k).box \in Boxes
    BY <1>3
  <2> HIDE DEF n
  <2> QED BY <2>3, <2>4 DEF SealedShare
<1>10. PlaceInv'
  <2>1. \A i \in DOMAIN meta'.shares : LET b == meta'.shares[i].box IN
          b.idx = i /\ b.secret = enrolled' /\ b.k = meta'.k
    BY <1>4, <1>5 DEF SealedShare
  <2>2. \A i \in DOMAIN older'.shares : LET b == older'.shares[i].box IN
          b # Broken => b.idx = i /\ b.secret \in 1 .. enrolled' - 1
    BY <1>2, <1>6 DEF PlaceInv, NoMeta
  <2> QED BY <1>2, <2>1, <2>2 DEF PlaceInv
<1>11. LoopInv' /\ ResultInv'
  BY <1>2, <1>5, ForgetRun DEF Enroll
<1>12. ToldInv'
  BY DEF ToldInv, Enroll, Untold
<1> QED BY <1>7, <1>8, <1>9, <1>10, <1>11, <1>12

LEMMA BeginStep == IInv /\ BeginRecover => IInv'
PROOF
<1> SUFFICES ASSUME IInv, BeginRecover PROVE IInv'
  OBVIOUS
<1> USE DEF IInv, BeginRecover, token
<1>1. DataInv'
  BY DEF DataInv
<1>2. EnvelopeInv' /\ SealedInv' /\ PlaceInv'
  BY DEF EnvelopeInv, SealedInv, PlaceInv
<1>3. LoopInv'
  <2>1. Len(meta.shares) \in Nat /\ <<>> \in Seq(Shares)
    BY DEF DataInv, Tokens
  <2> QED BY <2>1 DEF LoopInv, Refusal
<1>4. ToldInv'
  BY DEF ToldInv, Margin, Available, Candidates
<1>5. ResultInv'
  <2>1. 0 \notin touched => Refusal(meta) = "no"
    <3>1. meta.k \in Nat /\ FORMAT_VERSION \in Nat
      BY BoundAssumption DEF DataInv, Tokens
    <3> QED BY <3>1 DEF EnvelopeInv, Refusal
  <2>2. Refusal(meta) # "no" => at' = "done" /\ res' = Failed(Refusal(meta))
    OBVIOUS
  <2>3. res'.secret = 0
    BY DEF Failed
  <2>4. at' = "done" => res'.err # "no" /\ 0 \in touched'
    BY <2>1, <2>2 DEF Failed
  <2>5. enrolled' \in Nat
    BY DEF DataInv
  <2> QED BY <2>3, <2>4, <2>5
          DEF ResultInv, WrongOnlyIfForged, NeverWrong, QuorumSuffices, NoFalseAlarm
<1> QED BY <1>1, <1>2, <1>3, <1>4, <1>5

(* What a turn of the loop leaves alone. *)
LEMMA TurnKeeps ==
  ASSUME IInv, UNCHANGED <<hw, token, touched, alterations, told>>
  PROVE  DataInv' /\ EnvelopeInv' /\ SealedInv' /\ PlaceInv' /\ ToldInv'
PROOF
<1> USE DEF IInv, token
<1>1. DataInv'
  BY DEF DataInv
<1>2. EnvelopeInv' /\ SealedInv' /\ PlaceInv'
  BY DEF EnvelopeInv, SealedInv, PlaceInv
<1>3. ToldInv'
  BY DEF ToldInv, Margin, Available, Candidates
<1> QED BY <1>1, <1>2, <1>3

(* One turn: the share is opened when it can be, once.  A share nobody      *)
(* altered, of an identifier that is there, can be.                         *)
LEMMA ReadStep == IInv /\ ReadShare => IInv'
PROOF
<1> SUFFICES ASSUME IInv, ReadShare PROVE IInv'
  OBVIOUS
<1> USE DEF IInv
<1>1. DataInv' /\ EnvelopeInv' /\ SealedInv' /\ PlaceInv' /\ ToldInv'
  BY TurnKeeps DEF ReadShare
<1> DEFINE share == meta.shares[pos]
           Opens == \E id \in Candidates(share, hw) : OpensWith(meta, share, id)
<1>2. /\ at = "loop" /\ at' = at /\ pos' = pos + 1 /\ hw' = hw /\ res' = res
      /\ meta' = meta /\ owners' = owners /\ touched' = touched /\ enrolled' = enrolled
      /\ pos \in 1..Len(meta.shares) /\ Len(meta.shares) \in Nat
      /\ share \in Shares
      /\ opened' = IF Opens THEN Append(opened, share) ELSE opened
  BY DEF ReadShare, InLoop, token, DataInv, Tokens, LoopInv
<1>3. Opens => share.box # Broken /\ share.box.idx = share.idx
               /\ share.idx = pos /\ Candidates(share, hw) # {}
  <2>1. ASSUME Opens
        PROVE  share.box # Broken /\ share.box.idx = share.idx /\ Candidates(share, hw) # {}
    BY <2>1 DEF OpensWith
  <2>2. share.box # Broken => share.box.idx = pos
    BY <1>2 DEF PlaceInv
  <2> QED BY <2>1, <2>2
<1>4. 0 \notin touched /\ owners[pos] \in hw /\ pos \notin touched => Opens
  <2>1. SUFFICES ASSUME 0 \notin touched, owners[pos] \in hw, pos \notin touched
                 PROVE  Opens
    OBVIOUS
  <2>2. /\ share.idx = pos /\ share.class = ClassOf[owners[pos]]
        /\ share.hint = HintOf[owners[pos]]
        /\ share.box \in Boxes /\ share.box.id = owners[pos]
        /\ share.box.class = share.class
    BY <1>2, <2>1 DEF SealedInv
  <2>3. share.box # Broken /\ share.box.kdf = meta.kdf /\ share.box.version = meta.version
    <3>1. share.box # Broken
      BY <2>2, BrokenAssumption
    <3>2. share.box.kdf = "argon2id" /\ share.box.version = FORMAT_VERSION
      BY <2>2 DEF Boxes
    <3>3. meta.kdf = "argon2id" /\ meta.version = FORMAT_VERSION
      BY <1>2, <2>1 DEF EnvelopeInv, LoopInv
    <3> QED BY <3>1, <3>2, <3>3
  <2>4. share.box.idx = share.idx
    BY <1>2, <2>2, <2>3 DEF PlaceInv
  <2>5. owners[pos] \in Candidates(share, hw)
    BY <2>1, <2>2 DEF Candidates
  <2> QED BY <2>2, <2>3, <2>4, <2>5 DEF OpensWith
<1>5. LoopInv'
  <2>1. /\ at' \in {"idle", "loop", "done"} /\ pos' \in 1 .. Len(meta'.shares) + 1
        /\ at' # "idle" /\ meta' # NoMeta /\ Refusal(meta') = "no"
    BY <1>2 DEF LoopInv
  <2>2. /\ opened' \in Seq(Shares)
        /\ \A i \in DOMAIN opened' :
             \/ i \in DOMAIN opened /\ opened'[i] = opened[i]
             \/ Opens /\ i = Len(opened) + 1 /\ opened'[i] = share
        /\ \A i \in DOMAIN opened : i \in DOMAIN opened' /\ opened'[i] = opened[i]
        /\ Opens => \E i \in DOMAIN opened' : opened'[i] = share
    <3>1. CASE Opens
      <4>1. opened' = Append(opened, share) /\ opened \in Seq(Shares)
        BY <1>2, <3>1 DEF LoopInv
      <4>2. /\ opened' \in Seq(Shares) /\ Len(opened') = Len(opened) + 1
            /\ \A i \in 1..Len(opened) : opened'[i] = opened[i]
            /\ opened'[Len(opened) + 1] = share
        BY <1>2, <4>1
      <4> HIDE DEF Opens, share
      <4> QED BY <3>1, <4>1, <4>2
    <3>2. CASE ~Opens
      BY <1>2, <3>2 DEF LoopInv
    <3> QED BY <3>1, <3>2
  <2> HIDE DEF Opens
  <2>3. \A i \in DOMAIN opened' : LET s == opened'[i] IN
          /\ s.idx \in 1 .. pos' - 1 /\ s = meta'.shares[s.idx]
          /\ s.box # Broken /\ s.box.idx = s.idx /\ Candidates(s, hw') # {}
    <3>1. SUFFICES ASSUME NEW i \in DOMAIN opened'
                   PROVE  LET s == opened'[i] IN
                            /\ s.idx \in 1 .. pos' - 1 /\ s = meta'.shares[s.idx]
                            /\ s.box # Broken /\ s.box.idx = s.idx
                            /\ Candidates(s, hw') # {}
      OBVIOUS
    <3>2. CASE i \in DOMAIN opened /\ opened'[i] = opened[i]
      <4>1. LET s == opened[i] IN
              /\ s.idx \in 1 .. pos - 1 /\ s = meta.shares[s.idx]
              /\ s.box # Broken /\ s.box.idx = s.idx /\ Candidates(s, hw) # {}
        BY <3>2 DEF LoopInv
      <4> HIDE DEF share
      <4> QED BY <1>2, <3>2, <4>1
    <3>3. CASE Opens /\ opened'[i] = share
      <4>1. /\ share.idx = pos /\ share.box # Broken /\ share.box.idx = share.idx
            /\ Candidates(share, hw) # {} /\ share = meta.shares[pos]
        BY <1>3, <3>3
      <4>2. Candidates(share, hw') # {} /\ meta' = meta /\ pos \in 1 .. pos' - 1
        BY <1>2, <4>1
      <4> HIDE DEF share
      <4> QED BY <3>3, <4>1, <4>2
    <3> QED BY <2>2, <3>2, <3>3
  <2>4. \A i, j \in DOMAIN opened' : opened'[i].idx = opened'[j].idx => i = j
    <3>1. \A i \in DOMAIN opened : opened[i].idx < pos
      BY <1>2 DEF LoopInv
    <3>2. Opens => share.idx = pos
      BY <1>3
    <3>3. \A i, j \in DOMAIN opened : opened[i].idx = opened[j].idx => i = j
      BY <1>2 DEF LoopInv
    <3> HIDE DEF share
    <3>4. \A i \in DOMAIN opened : opened[i].idx \in Nat /\ pos \in Nat
      BY <1>2 DEF LoopInv
    <3>5. SUFFICES ASSUME NEW i \in DOMAIN opened', NEW j \in DOMAIN opened',
                          opened'[i].idx = opened'[j].idx
                   PROVE  i = j
      OBVIOUS
    <3>6. CASE i \in DOMAIN opened /\ opened'[i] = opened[i]
               /\ j \in DOMAIN opened /\ opened'[j] = opened[j]
      BY <3>3, <3>5, <3>6
    <3>7. CASE Opens /\ i = Len(opened) + 1 /\ opened'[i] = share
               /\ j = Len(opened) + 1
      BY <3>7
    <3>8. CASE Opens /\ opened'[i] = share /\ j \in DOMAIN opened /\ opened'[j] = opened[j]
      BY <3>1, <3>2, <3>4, <3>5, <3>8
    <3>9. CASE Opens /\ opened'[j] = share /\ i \in DOMAIN opened /\ opened'[i] = opened[i]
      BY <3>1, <3>2, <3>4, <3>5, <3>9
    <3> QED BY <2>2, <3>5, <3>6, <3>7, <3>8, <3>9
  <2>5. 0 \notin touched' =>
          \A j \in 1 .. pos' - 1 : owners'[j] \in hw' /\ j \notin touched' =>
            \E i \in DOMAIN opened' : opened'[i].idx = j
    <3>1. \A j \in 1 .. pos' - 1 : j \in 1 .. pos - 1 \/ j = pos
      BY <1>2
    <3>2. 0 \notin touched =>
            \A j \in 1 .. pos - 1 : owners[j] \in hw /\ j \notin touched =>
              \E i \in DOMAIN opened' : opened'[i].idx = j
      BY <1>2, <2>2 DEF LoopInv
    <3>3. 0 \notin touched /\ owners[pos] \in hw /\ pos \notin touched =>
            \E i \in DOMAIN opened' : opened'[i].idx = pos
      BY <1>3, <1>4, <2>2
    <3> QED BY <1>2, <3>1, <3>2, <3>3
  <2> QED BY <2>1, <2>2, <2>3, <2>4, <2>5 DEF LoopInv
<1>6. ResultInv'
  BY <1>2 DEF ResultInv, WrongOnlyIfForged, NeverWrong, QuorumSuffices, NoFalseAlarm
<1> QED BY <1>1, <1>5, <1>6

(* With parameters no key can be derived from, nothing is opened.           *)
LEMMA BadKdfStep == IInv /\ ReadShareBadKdf => IInv'
PROOF
<1> SUFFICES ASSUME IInv, ReadShareBadKdf PROVE IInv'
  OBVIOUS
<1> USE DEF IInv
<1>1. DataInv' /\ EnvelopeInv' /\ SealedInv' /\ PlaceInv' /\ ToldInv'
  BY TurnKeeps DEF ReadShareBadKdf
<1>2. 0 \in touched /\ meta # NoMeta
  BY DEF ReadShareBadKdf, InLoop, LoopInv, EnvelopeInv
<1>3. /\ at = "loop" /\ hw' = hw /\ meta' = meta /\ touched' = touched /\ opened' = opened
      /\ owners' = owners /\ enrolled' = enrolled
      /\ \/ at' = at /\ res' = res /\ pos' = pos + 1
         \/ at' = "done" /\ res' = Failed("Kdf") /\ pos' = pos
      /\ pos \in 1..Len(meta.shares) /\ Len(meta.shares) \in Nat
  BY DEF ReadShareBadKdf, InLoop, token, DataInv, Tokens, LoopInv
<1>4. LoopInv'
  BY <1>2, <1>3 DEF LoopInv, Candidates
<1>5. ResultInv'
  BY <1>2, <1>3 DEF ResultInv, WrongOnlyIfForged, NeverWrong, QuorumSuffices, NoFalseAlarm,
                    Failed, DataInv
<1> QED BY <1>1, <1>4, <1>5

(* The machine shows every share that was opened. *)
LEMMA OpenedAreAvailable ==
  ASSUME IInv
  PROVE  Available(meta, hw) \in Nat /\ Len(opened) <= Available(meta, hw)
PROOF
<1> DEFINE A == {i \in DOMAIN meta.shares : Candidates(meta.shares[i], hw) # {}}
           f == [i \in 1..Len(opened) |-> opened[i].idx]
<1> USE DEF IInv
<1>1. Len(meta.shares) \in Nat /\ DOMAIN meta.shares = 1..Len(meta.shares)
  BY DEF DataInv, Tokens
<1>2. Len(opened) \in Nat /\ DOMAIN opened = 1..Len(opened)
  BY DEF LoopInv
<1>3. IsFiniteSet(A) /\ Cardinality(A) \in Nat
  <2>1. IsFiniteSet(1..Len(meta.shares)) /\ A \in SUBSET (1..Len(meta.shares))
    BY <1>1, Places
  <2> QED BY <2>1, FS_Subset, FS_CardinalityType
<1>4. \A i \in 1..Len(opened) : opened[i].idx \in A
  <2>1. TAKE i \in 1..Len(opened)
  <2>2. /\ opened[i].idx \in 1 .. pos - 1 /\ opened[i] = meta.shares[opened[i].idx]
        /\ Candidates(opened[i], hw) # {}
    BY <1>2 DEF LoopInv
  <2>3. opened[i].idx \in 1..Len(meta.shares)
    BY <1>1, <2>2 DEF LoopInv
  <2> QED BY <1>1, <2>2, <2>3
<1>5. f \in Injection(1..Len(opened), A)
  <2>1. \A i, j \in 1..Len(opened) : f[i] = f[j] => i = j
    BY <1>2 DEF LoopInv
  <2> QED BY <1>4, <2>1 DEF Injection, IsInjective
<1>6. Cardinality(1..Len(opened)) <= Cardinality(A)
  BY <1>3, <1>5, FS_Injection
<1>7. Cardinality(1..Len(opened)) = Len(opened)
  BY <1>2, Places
<1> QED BY <1>3, <1>6, <1>7 DEF Available

(* Shares nobody altered, of identifiers that are there. *)
Intact == {i \in DOMAIN owners : owners[i] \in hw /\ i \notin touched}

(* At the end of the token the loop has opened all of them. *)
LEMMA IntactAreOpened ==
  ASSUME IInv, at = "loop", 0 \notin touched, pos > Len(meta.shares)
  PROVE  Cardinality(Intact) \in Nat /\ Cardinality(Intact) <= Len(opened)
PROOF
<1> USE DEF IInv
<1>1. Len(meta.shares) \in Nat /\ DOMAIN owners = 1..Len(meta.shares)
      /\ Len(opened) \in Nat /\ DOMAIN opened = 1..Len(opened)
      /\ pos \in Nat
  BY DEF DataInv, Tokens, LoopInv
<1>2. \A j \in Intact : \E i \in 1..Len(opened) : opened[i].idx = j
  BY <1>1 DEF LoopInv, Intact
<1> DEFINE f == [j \in Intact |-> CHOOSE i \in 1..Len(opened) : opened[i].idx = j]
<1>3. \A j \in Intact : f[j] \in 1..Len(opened) /\ opened[f[j]].idx = j
  BY <1>2
<1>4. f \in Injection(Intact, 1..Len(opened))
  <2>1. f \in [Intact -> 1..Len(opened)]
    BY <1>3
  <2> HIDE DEF f
  <2>2. \A i, j \in Intact : f[i] = f[j] => i = j
    BY <1>3
  <2> QED BY <2>1, <2>2 DEF Injection, IsInjective
<1>5. IsFiniteSet(1..Len(opened)) /\ Cardinality(1..Len(opened)) = Len(opened)
  BY <1>1, Places
<1> QED BY <1>4, <1>5, FS_Injection, FS_CardinalityType

(* The end of the loop: a quorum of shares gives the secret, and too few    *)
(* opened means too few were there.                                         *)
LEMMA EndStep == IInv /\ EndRecover => IInv'
PROOF
<1> SUFFICES ASSUME IInv, EndRecover PROVE IInv'
  OBVIOUS
<1> USE DEF IInv
<1>1. DataInv' /\ EnvelopeInv' /\ SealedInv' /\ PlaceInv' /\ ToldInv'
  BY TurnKeeps DEF EndRecover
<1>2. /\ at = "loop" /\ at' = "done" /\ hw' = hw /\ meta' = meta /\ touched' = touched
      /\ opened' = opened /\ owners' = owners /\ enrolled' = enrolled /\ pos' = pos
      /\ Len(meta.shares) \in Nat /\ Len(opened) \in Nat /\ meta.k \in Nat
      /\ enrolled \in Nat /\ opened \in Seq(Shares) /\ pos \in Nat
  BY DEF EndRecover, token, DataInv, Tokens, LoopInv
<1>3. LoopInv'
  BY <1>2 DEF LoopInv, Candidates
<1>4. /\ Refusal(meta) = "no" /\ 2 <= meta.k
      /\ meta.type = "luks-hwid" /\ meta.version <= FORMAT_VERSION
  <2>1. Refusal(meta) = "no"
    BY <1>2 DEF LoopInv
  <2>2. meta.version \in Nat /\ FORMAT_VERSION \in Nat
    BY BoundAssumption DEF DataInv, Tokens
  <2> QED BY <1>2, <2>1, <2>2 DEF Refusal
<1>5. CASE Len(opened) < meta.k
  <2>1. res'.err # "no" /\ res'.secret = 0
    BY <1>5 DEF EndRecover, Failed
  <2>2. 0 \notin touched => Cardinality(Intact) < meta.k
    <3>1. pos > Len(meta.shares)
      BY <1>2, <1>5 DEF EndRecover, InLoop
    <3> QED BY <1>2, <1>5, <3>1, IntactAreOpened
  <2>3. 0 \notin touched => Cardinality(Intact) \in Nat
    BY <1>2, <1>5, IntactAreOpened DEF EndRecover, InLoop
  <2>4. QuorumSuffices'
    BY <1>2, <2>2, <2>3 DEF QuorumSuffices, Intact
  <2> QED BY <1>1, <1>2, <1>3, <2>1, <2>4
          DEF ResultInv, WrongOnlyIfForged, NeverWrong, NoFalseAlarm
<1>6. CASE Len(opened) >= meta.k
  <2>1. res' = Reconstruct(opened)
    BY <1>2, <1>6 DEF EndRecover
  <2>2. opened # <<>> /\ 1 \in DOMAIN opened
    BY <1>2, <1>4, <1>6
  <2>3. \A i \in DOMAIN opened :
          /\ opened[i].idx \in DOMAIN meta.shares
          /\ opened[i] = meta.shares[opened[i].idx]
          /\ opened[i].box # Broken /\ opened[i].box \in Boxes
          /\ opened[i].box.idx = opened[i].idx
    <3>1. TAKE i \in DOMAIN opened
    <3>2. /\ opened[i].idx \in 1 .. pos - 1 /\ opened[i] = meta.shares[opened[i].idx]
          /\ opened[i].box # Broken /\ opened[i].box.idx = opened[i].idx
      BY DEF LoopInv
    <3>3. opened[i] \in Shares
      BY <1>2
    <3>4. pos <= Len(meta.shares) + 1 /\ DOMAIN meta.shares = 1..Len(meta.shares)
      BY DEF LoopInv, DataInv, Tokens
    <3> QED BY <1>2, <3>2, <3>3, <3>4 DEF Shares
  <2>4. \A i, j \in DOMAIN opened : opened[i].idx = opened[j].idx => i = j
    BY DEF LoopInv
  <2>5. \A i \in DOMAIN opened : opened[i].box.secret \in 1..enrolled
    BY <2>3 DEF PlaceInv
  <2>6. res'.err = "no" /\ res'.secret \in 0..enrolled
    BY <1>2, <2>1, <2>2, <2>4, <2>5 DEF Reconstruct
  <2>7. ASSUME ~Spliced, opened[1].box.k <= meta.k
        PROVE  res' = [err |-> "no", secret |-> enrolled]
    <3>1. \A i \in DOMAIN opened : opened[i].box.secret = enrolled
      BY <2>3, <2>7 DEF Spliced
    <3>2. Len(opened) >= opened[1].box.k
      BY <1>2, <1>6, <2>2, <2>3, <2>7 DEF Boxes
    <3> QED BY <1>2, <2>1, <2>2, <2>3, <2>4, <3>1, <3>2, PointsAgree
  <2>8. ~Spliced /\ ~Lowered => res' = [err |-> "no", secret |-> enrolled]
    <3>1. ~Lowered => opened[1].box.k <= meta.k
      BY <1>2, <2>2, <2>3 DEF Lowered, Boxes
    <3> QED BY <2>7, <3>1
  <2>9. ~Spliced /\ 0 \notin touched => res' = [err |-> "no", secret |-> enrolled]
    <3>1. ~Spliced /\ 0 \notin touched => opened[1].box.k = meta.k
      BY <2>2, <2>3 DEF Spliced, PlaceInv
    <3> QED BY <1>2, <2>7, <3>1
  <2>10. WrongOnlyIfForged'
    BY <1>2, <2>8 DEF WrongOnlyIfForged, NeverWrong, Lowered, Spliced
  <2>11. QuorumSuffices'
    BY <1>2, <2>9 DEF QuorumSuffices, Spliced
  <2>12. NoFalseAlarm'
    <3>1. Available(meta, hw) >= meta.k
      BY <1>2, <1>6, OpenedAreAvailable
    <3>2. StatusCode(meta, hw) = 0
      BY <1>4, <3>1 DEF StatusCode, Readable, QuorumOk
    <3> QED BY <1>2, <3>2 DEF NoFalseAlarm, StatusCode, Readable, QuorumOk, Available, Candidates
  <2> QED BY <1>1, <1>2, <1>3, <2>6, <2>10, <2>11, <2>12 DEF ResultInv
<1> QED BY <1>2, <1>5, <1>6

(* Status, and new hardware, which only the next process sees. *)
LEMMA OutsideStep == IInv /\ (Status \/ SwapHardware) => IInv'
PROOF
<1> USE DEF IInv, token, run
<1>1. ASSUME IInv, Status PROVE IInv'
  <2>1. DataInv' /\ EnvelopeInv' /\ SealedInv' /\ PlaceInv'
    BY <1>1 DEF Status, DataInv, EnvelopeInv, SealedInv, PlaceInv
  <2>2. LoopInv'
    BY <1>1 DEF Status, LoopInv, Candidates
  <2>3. ResultInv'
    BY <1>1 DEF Status, ResultInv, WrongOnlyIfForged, NeverWrong, Lowered, Spliced,
                QuorumSuffices, NoFalseAlarm, StatusCode, QuorumOk, Available, Candidates
  <2>4. ToldInv'
    <3>1. IsFiniteSet({i \in DOMAIN meta.shares : Candidates(meta.shares[i], hw) # {}})
      <4>1. Len(meta.shares) \in Nat /\ DOMAIN meta.shares = 1..Len(meta.shares)
        BY <1>1 DEF DataInv, Tokens
      <4> QED BY <4>1, Places, FS_Subset
    <3>2. Available(meta, hw) \in Nat
      BY <3>1, FS_CardinalityType DEF Available
    <3>3. Margin(meta, hw) \in Int /\ hw \in SUBSET Ids
      BY <1>1, <3>2, IdAssumption DEF Margin, DataInv, Tokens
    <3>4. StatusCode(meta, hw) \in 0..2 /\ (StatusCode(meta, hw) = 0 => meta # NoMeta)
      BY DEF StatusCode, Readable, NoMeta
    <3> QED BY <1>1, <3>3, <3>4 DEF Status, ToldInv, Margin, Available, Candidates
  <2> QED BY <2>1, <2>2, <2>3, <2>4
<1>2. ASSUME IInv, SwapHardware PROVE IInv'
  <2>1. DataInv' /\ EnvelopeInv' /\ SealedInv' /\ PlaceInv'
    BY <1>2 DEF SwapHardware, DataInv, EnvelopeInv, SealedInv, PlaceInv
  <2>2. LoopInv' /\ ResultInv'
    <3>1. Forget /\ (Len(meta.shares))' \in Nat /\ (enrolled \in Nat)'
      BY <1>2 DEF SwapHardware, DataInv, Tokens
    <3> QED BY <3>1, ForgetRun
  <2>3. ToldInv'
    BY <1>2 DEF SwapHardware, ToldInv, Margin, Available, Candidates
  <2> QED BY <2>1, <2>2, <2>3
<1> QED BY <1>1, <1>2

(* An altered share is still a share, and its box, if it opens at all, was  *)
(* sealed for this place.                                                   *)
LEMMA AlteredShareKeeps ==
  ASSUME IInv, NEW i \in DOMAIN meta.shares, NEW share \in Shares,
         \/ share.box \in {Broken, meta.shares[i].box}
         \/ i \in DOMAIN older.shares /\ share = older.shares[i],
         AlteredShare(i, share), meta # NoMeta,
         UNCHANGED <<hw, enrolled, owners, older>>, alterations' \in 0..MaxChanges
  PROVE  DataInv' /\ EnvelopeInv' /\ SealedInv' /\ PlaceInv'
PROOF
<1> USE DEF IInv
<1>1. /\ meta.shares \in Seq(Shares) /\ Len(meta.shares) \in Nat
      /\ DOMAIN meta.shares = 1..Len(meta.shares) /\ meta \in Tokens
  BY DEF DataInv, Tokens
<1>2. /\ meta' = [meta EXCEPT !.shares[i] = share] /\ touched' = touched \cup {i}
      /\ meta'.shares = [meta.shares EXCEPT ![i] = share]
  BY <1>1 DEF AlteredShare, Tokens
<1>3. /\ meta'.shares \in Seq(Shares) /\ Len(meta'.shares) = Len(meta.shares)
      /\ DOMAIN meta'.shares = 1..Len(meta.shares)
      /\ meta'.shares[i] = share
      /\ \A j \in DOMAIN meta.shares \ {i} : meta'.shares[j] = meta.shares[j]
  BY <1>1, <1>2
<1>4. meta' \in Tokens /\ meta'.type = meta.type /\ meta'.version = meta.version
      /\ meta'.k = meta.k /\ meta'.kdf = meta.kdf /\ meta'.cipher = meta.cipher
  BY <1>1, <1>2, <1>3 DEF Tokens
<1>5. meta' # NoMeta
  BY <1>4 DEF EnvelopeInv, NoMeta
<1>6. DataInv'
  BY <1>1, <1>2, <1>3, <1>4, <1>5 DEF DataInv
<1>7. EnvelopeInv'
  BY <1>1, <1>2, <1>3, <1>4, <1>5 DEF EnvelopeInv
<1>8. SealedInv'
  BY <1>1, <1>2, <1>3 DEF SealedInv
<1>9. PlaceInv'
  <2>1. enrolled \in Nat
    BY DEF DataInv
  <2>2. share.box # Broken =>
          /\ share.box.idx = i /\ share.box.secret \in 1..enrolled
          /\ share.box.secret = enrolled /\ 0 \notin touched => share.box.k = meta.k
    BY <2>1 DEF PlaceInv
  <2> QED BY <1>1, <1>2, <1>3, <1>4, <2>2 DEF PlaceInv
<1> QED BY <1>6, <1>7, <1>8, <1>9

(* A field outside the shares. *)
LEMMA AlteredTokenKeeps ==
  ASSUME IInv, NEW m \in Tokens, m.shares = meta.shares, m.type # "none",
         AlteredToken(m), UNCHANGED <<hw, enrolled, owners, older>>,
         alterations' \in 0..MaxChanges
  PROVE  DataInv' /\ EnvelopeInv' /\ SealedInv' /\ PlaceInv'
PROOF
<1> USE DEF IInv, AlteredToken
<1>1. meta' = m /\ 0 \in touched' /\ Len(meta.shares) \in Nat /\ m # NoMeta
      /\ touched' = touched \cup {0}
  BY DEF DataInv, Tokens, NoMeta
<1>2. DataInv'
  BY <1>1 DEF DataInv
<1>3. EnvelopeInv'
  BY <1>1 DEF EnvelopeInv
<1>4. SealedInv' /\ PlaceInv'
  BY <1>1 DEF SealedInv, PlaceInv
<1> QED BY <1>2, <1>3, <1>4

LEMMA AlterStep == IInv /\ Alter => IInv'
PROOF
<1> SUFFICES ASSUME IInv, Alter PROVE IInv'
  OBVIOUS
<1> USE DEF IInv
<1>1. /\ meta # NoMeta /\ alterations' \in 0..MaxChanges
      /\ UNCHANGED <<hw, enrolled, owners, older>> /\ Forget /\ told' = Untold
      /\ meta \in Tokens /\ older \in Tokens /\ meta.type # "none"
      /\ enrolled' \in Nat
  BY BoundAssumption DEF Alter, DataInv, EnvelopeInv
<1>2. \A i \in DOMAIN meta.shares : meta.shares[i] \in Shares
  BY <1>1 DEF Tokens
<1>3. \A i \in DOMAIN older.shares : older.shares[i] \in Shares
  BY <1>1 DEF Tokens
<1>4. CASE AlterShare
  <2>1. PICK i \in DOMAIN meta.shares, share \in Shares :
          /\ AlteredShare(i, share)
          /\ \/ share.box \in {Broken, meta.shares[i].box}
             \/ i \in DOMAIN older.shares /\ share = older.shares[i]
    <3>1. PICK i \in DOMAIN meta.shares : LET s == meta.shares[i] IN
            \/ AlteredShare(i, [s EXCEPT !.box = Broken])
            \/ \E x \in 0..Len(meta.shares) : AlteredShare(i, [s EXCEPT !.idx = x])
            \/ \E c \in Classes : AlteredShare(i, [s EXCEPT !.class = c])
            \/ \E h \in Hints : AlteredShare(i, [s EXCEPT !.hint = h])
            \/ i \in DOMAIN older.shares /\ AlteredShare(i, older.shares[i])
      BY <1>4 DEF AlterShare
    <3>2. Len(meta.shares) \in Nat
      BY <1>1 DEF Tokens
    <3> DEFINE s == meta.shares[i]
    <3>3. s \in Shares
      BY <1>2
    <3>4. CASE AlteredShare(i, [s EXCEPT !.box = Broken])
      BY <3>3, <3>4 DEF Shares
    <3>5. ASSUME NEW x \in 0..Len(meta.shares), AlteredShare(i, [s EXCEPT !.idx = x])
          PROVE  [s EXCEPT !.idx = x] \in Shares /\ [s EXCEPT !.idx = x].box = s.box
      BY <3>2, <3>3 DEF Shares
    <3>6. ASSUME NEW c \in Classes
          PROVE  [s EXCEPT !.class = c] \in Shares /\ [s EXCEPT !.class = c].box = s.box
      BY <3>3 DEF Shares
    <3>7. ASSUME NEW h \in Hints
          PROVE  [s EXCEPT !.hint = h] \in Shares /\ [s EXCEPT !.hint = h].box = s.box
      BY <3>3 DEF Shares
    <3> QED BY <1>3, <3>1, <3>4, <3>5, <3>6, <3>7
  <2>2. DataInv' /\ EnvelopeInv' /\ SealedInv' /\ PlaceInv'
    BY <1>1, <2>1, AlteredShareKeeps
  <2> QED BY <1>1, <2>2, ForgetRun DEF DataInv, Tokens, ToldInv, Untold
<1>5. CASE AlterToken
  <2>1. PICK m \in Tokens :
          AlteredToken(m) /\ m.shares = meta.shares /\ m.type # "none"
    <3>1. Len(meta.shares) \in Nat /\ FORMAT_VERSION \in Nat
      BY <1>1, BoundAssumption DEF Tokens
    <3>2. PICK m : /\ AlteredToken(m)
                   /\ \/ m = [meta EXCEPT !.type = "other"]
                      \/ \E v \in {0, FORMAT_VERSION + 1} : m = [meta EXCEPT !.version = v]
                      \/ m = [meta EXCEPT !.cipher = "other"]
                      \/ \E x \in {"other", "invalid"} : m = [meta EXCEPT !.kdf = x]
                      \/ \E k \in 0..Len(meta.shares) : m = [meta EXCEPT !.k = k]
      <4>1. \/ AlteredToken([meta EXCEPT !.type = "other"])
            \/ \E v \in {0, FORMAT_VERSION + 1} : AlteredToken([meta EXCEPT !.version = v])
            \/ AlteredToken([meta EXCEPT !.cipher = "other"])
            \/ \E x \in {"other", "invalid"} : AlteredToken([meta EXCEPT !.kdf = x])
            \/ \E k \in 0..Len(meta.shares) : AlteredToken([meta EXCEPT !.k = k])
        BY <1>5 DEF AlterToken
      <4> QED BY <4>1
    <3>3. m \in Tokens /\ m.shares = meta.shares /\ m.type # "none"
      BY <1>1, <3>1, <3>2 DEF Tokens
    <3> QED BY <3>2, <3>3
  <2>2. DataInv' /\ EnvelopeInv' /\ SealedInv' /\ PlaceInv'
    BY <1>1, <2>1, AlteredTokenKeeps
  <2> QED BY <1>1, <2>2, ForgetRun DEF DataInv, Tokens, ToldInv, Untold
<1> QED BY <1>4, <1>5 DEF Alter

LEMMA NextIInv == IInv /\ [Next]_vars => IInv'
PROOF
<1>1. ASSUME IInv, UNCHANGED vars PROVE IInv'
  <2> USE <1>1 DEF vars, token, run, IInv
  <2>1. DataInv' /\ EnvelopeInv' /\ SealedInv' /\ PlaceInv' /\ ToldInv'
    BY TurnKeeps
  <2>2. LoopInv'
    BY DEF LoopInv, Candidates
  <2>3. ResultInv'
    BY DEF ResultInv, WrongOnlyIfForged, NeverWrong, Lowered, Spliced,
           QuorumSuffices, NoFalseAlarm, StatusCode, QuorumOk, Available, Candidates
  <2> QED BY <2>1, <2>2, <2>3
<1> QED
  BY <1>1, EnrollStep, BeginStep, ReadStep, BadKdfStep, EndStep, OutsideStep, AlterStep
     DEF Next

-----------------------------------------------------------------------------
(* What holds in every reachable state. *)

(* The invariant the other theorems rest on: the shares nobody altered are  *)
(* the sealed ones, each box is in its place, and the loop has opened all   *)
(* it passed that could be opened.                                          *)
THEOREM Invariance == Spec => []IInv
PROOF
  BY InitIInv, NextIInv, PTL DEF Spec

(* Types: the loop of recover() stays within the token, what it has opened  *)
(* are shares of the token, the secret it returns is one that was enrolled  *)
(* or the 0 that stands for none.                                           *)
THEOREM TypeCorrect == Spec => []TypeOK
PROOF
<1>1. IInv => TypeOK
  <2> SUFFICES ASSUME IInv PROVE TypeOK
    OBVIOUS
  <2> USE DEF IInv
  <2>1. Len(meta.shares) \in Nat /\ Len(owners) = Len(meta.shares)
    BY DEF DataInv, Tokens
  <2>2. \A i \in DOMAIN opened : \E j \in 1 .. pos - 1 : opened[i] = meta.shares[j]
    BY DEF LoopInv
  <2> QED BY <2>1, <2>2 DEF TypeOK, DataInv, LoopInv, ResultInv, ToldInv
<1> QED BY <1>1, Invariance, PTL

(* recover() returns a wrong secret only for a token whose threshold was    *)
(* lowered or that has a share of an older token in it, whichever fields    *)
(* were altered and whichever hints collide.                                *)
THEOREM WrongSecretNeedsForgery == Spec => []WrongOnlyIfForged
PROOF
  BY Invariance, PTL DEF IInv, ResultInv

(* With k unaltered shares of identifiers that are there recover() returns  *)
(* the secret, whatever became of the others.                               *)
THEOREM QuorumIsEnough == Spec => []QuorumSuffices
PROOF
  BY Invariance, PTL DEF IInv, ResultInv

(* When recover() succeeds, status does not say that the quorum is lost.    *)
THEOREM StatusRaisesNoFalseAlarm == Spec => []NoFalseAlarm
PROOF
  BY Invariance, PTL DEF IInv, ResultInv

(* Counting: of the shares status saw, those lost since are no more than    *)
(* the identifiers lost since.                                              *)
LEMMA MarginCounts ==
  ASSUME IInv, told.code = 0, touched = {},
         Cardinality(told.hw \ hw) <= told.margin,
         NoCollision({owners[i] : i \in DOMAIN owners} \cup told.hw)
  PROVE  Cardinality(Intact) >= meta.k
PROOF
<1> USE DEF IInv
<1> DEFINE Seen == {i \in DOMAIN meta.shares : Candidates(meta.shares[i], told.hw) # {}}
           Lost == Seen \ Intact
           f == [i \in Lost |-> owners[i]]
<1>1. /\ Len(meta.shares) \in Nat /\ DOMAIN meta.shares = 1..Len(meta.shares)
      /\ DOMAIN owners = 1..Len(meta.shares) /\ meta.k \in Nat
      /\ told.hw \in SUBSET Ids /\ told.margin = Cardinality(Seen) - meta.k
  BY DEF DataInv, Tokens, ToldInv, Margin, Available
<1>2. /\ IsFiniteSet(Seen) /\ Cardinality(Seen) \in Nat
      /\ IsFiniteSet(Intact) /\ Cardinality(Intact) \in Nat
  <2>1. Seen \in SUBSET (1..Len(meta.shares)) /\ Intact \in SUBSET (1..Len(meta.shares))
    BY <1>1 DEF Intact
  <2> QED BY <1>1, <2>1, Places, FS_Subset, FS_CardinalityType
<1>3. \A i \in Seen : owners[i] \in told.hw
  <2>1. SUFFICES ASSUME NEW i \in Seen PROVE owners[i] \in told.hw
    OBVIOUS
  <2>2. PICK c \in told.hw : HintOf[c] = meta.shares[i].hint /\ ClassOf[c] = meta.shares[i].class
    BY DEF Candidates
  <2>3. HintOf[c] = HintOf[owners[i]] /\ ClassOf[c] = ClassOf[owners[i]]
    BY <2>2 DEF SealedInv
  <2>4. c = owners[i]
    BY <1>1, <2>2, <2>3 DEF NoCollision
  <2> QED BY <2>2, <2>4
<1>4. f \in Injection(Lost, told.hw \ hw)
  <2>1. f \in [Lost -> told.hw \ hw]
    BY <1>1, <1>3 DEF Intact
  <2>2. \A i, j \in Lost : f[i] = f[j] => i = j
    BY <1>1 DEF DataInv
  <2> QED BY <2>1, <2>2 DEF Injection, IsInjective
<1>5. IsFiniteSet(told.hw \ hw) /\ Cardinality(told.hw \ hw) \in Nat
  BY <1>1, IdAssumption, FS_Subset, FS_CardinalityType
<1>6. Cardinality(Lost) <= Cardinality(told.hw \ hw)
  BY <1>4, <1>5, FS_Injection
<1>7. Cardinality(Lost) = Cardinality(Seen) - Cardinality(Seen \cap Intact)
  BY <1>2, FS_Difference
<1>8. Cardinality(Seen \cap Intact) \in Nat
      /\ Cardinality(Seen \cap Intact) <= Cardinality(Intact)
  BY <1>2, FS_Intersection, FS_CardinalityType
<1>9. told.margin \in Int
  BY DEF ToldInv
<1> HIDE DEF Seen, Lost
<1> QED BY <1>1, <1>2, <1>5, <1>6, <1>7, <1>8, <1>9

(* The margin status prints is the number of identifiers that may go away,  *)
(* any of them, before the machine needs the rescue stick.                  *)
THEOREM MarginIsReal == Spec => []MarginHolds
PROOF
<1>1. IInv => MarginHolds
  <2> SUFFICES ASSUME IInv, at = "done", told.code = 0, touched = {},
                      Cardinality(told.hw \ hw) <= told.margin,
                      NoCollision({owners[i] : i \in DOMAIN owners} \cup told.hw)
               PROVE  res.err = "no"
    BY DEF MarginHolds
  <2>1. Cardinality({i \in DOMAIN owners : owners[i] \in hw /\ i \notin touched}) >= meta.k
    BY MarginCounts DEF Intact
  <2>2. ~Spliced
    BY DEF IInv, SealedInv, Spliced
  <2> QED BY <2>1, <2>2 DEF IInv, ResultInv, QuorumSuffices
<1> QED BY <1>1, Invariance, PTL
=============================================================================
