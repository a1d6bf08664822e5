------------------------------ MODULE Recover ------------------------------
(***************************************************************************)
(* Enrollment, recovery and diagnosis of one token: enroll(), recover()    *)
(* and diagnose() of crates/luks-hwid-core/src/derive.rs, and what the     *)
(* status command says of the token.  Keyscript and Enroll know of all     *)
(* this only that a secret comes back when k identifiers are there; here   *)
(* are the shares, the truncated hints, which may collide, and a token     *)
(* whose fields may have been altered since it was written.                *)
(*                                                                         *)
(* An encrypted share is a box that remembers what it was sealed with:     *)
(* XChaCha20-Poly1305 opens it with the same key (identifier, salt and     *)
(* KDF parameters) and the same associated data, and with nothing else.    *)
(* What is inside is a point of a polynomial: the secret, named by a       *)
(* number, its degree, and the abscissa.                                   *)
(***************************************************************************)
EXTENDS Integers, FiniteSets, Sequences

CONSTANTS
  Ids,            (* identifiers, ordered as collect_all sorts them        *)
  ClassOf,        (* IdClass of an identifier                              *)
  HintOf,         (* its truncated BLAKE2b, which two may have in common   *)
  Machines,       (* the sets of identifiers the machine may show          *)
  Thresholds,     (* the thresholds a caller may ask for                   *)
  MAX_SHARES,     (* most shares in a token                                *)
  FORMAT_VERSION, (* the version of the format this program writes         *)
  Alterations,    (* the fields that may be altered on the volume          *)
  MaxChanges,     (* bound: enrollments, and alterations of the last token *)
  MaxEnrolled,    (* bound: enrollments                                    *)
  Broken          (* a box nothing opens: altered salt, nonce or ct        *)

Classes == {ClassOf[i] : i \in Ids}
Hints   == {HintOf[i] : i \in Ids}

ASSUME IdAssumption ==
  /\ IsFiniteSet(Ids) /\ Ids \subseteq Nat
  /\ DOMAIN ClassOf = Ids /\ DOMAIN HintOf = Ids
  /\ Machines \subseteq SUBSET Ids
ASSUME BoundAssumption ==
  /\ Thresholds \subseteq Nat /\ FORMAT_VERSION \in Nat \ {0}
  /\ MAX_SHARES \in Nat /\ MaxChanges \in Nat /\ MaxEnrolled \in Nat

(* What a share may be sealed with. *)
Boxes == [id : Ids, kdf : {"argon2id"}, version : {FORMAT_VERSION},
          class : Classes, idx : Nat, secret : Nat, k : Nat]
ASSUME BrokenAssumption == Broken \notin Boxes

VARIABLES
  hw,         (* what collect_all returns                                  *)
  enrolled,   (* number of enrollments: the secrets are 1 to enrolled      *)
  owners,     (* the identifiers of the current token, by share            *)
  meta,       (* the token on the volume                                   *)
  older,      (* the token before it, if nobody altered that               *)
  touched,    (* shares altered since; 0 stands for the other fields       *)
  alterations,(* how many alterations                                      *)
  at,         (* where recover() is                                        *)
  pos,        (* the share it looks at                                     *)
  opened,     (* the shares it has opened                                  *)
  res,        (* what it returned                                          *)
  told        (* what the last status run said, and of which machine       *)

token == <<enrolled, owners, meta, older>>
run   == <<at, pos, opened, res>>
vars  == <<hw, token, touched, alterations, run, told>>

NoMeta == [type |-> "none", version |-> 0, k |-> 0, kdf |-> "none",
           cipher |-> "none", shares |-> <<>>]
Untold == [code |-> 1, margin |-> 0, hw |-> {}]
Failed(why) == [err |-> why, secret |-> 0]
-----------------------------------------------------------------------------
(* identifiers.iter(): collect_all's order. *)
Nth(S, i) == CHOOSE x \in S : Cardinality({y \in S : y < x}) = i - 1

(* Share number i of n: the point i of the polynomial of the secret, sealed *)
(* with one identifier and with its place (aad: version, class, idx).       *)
SealedShare(S, i, secret, k) ==
  LET id == Nth(S, i) IN
    [idx |-> i, class |-> ClassOf[id], hint |-> HintOf[id],
     box |-> [id |-> id, kdf |-> "argon2id", version |-> FORMAT_VERSION,
              class |-> ClassOf[id], idx |-> i, secret |-> secret, k |-> k]]

(* enroll(): too low a threshold, too few identifiers, too many. *)
Enrollable(k, n) == 2 <= k /\ k <= n /\ n <= MAX_SHARES

SealedToken(S, secret, k) ==
  [type |-> "luks-hwid", version |-> FORMAT_VERSION, k |-> k,
   kdf |-> "argon2id", cipher |-> "xchacha20-poly1305",
   shares |-> [i \in 1..Cardinality(S) |-> SealedShare(S, i, secret, k)]]

(* Mutant: one identifier for each hint. *)
FirstCandidate(share, S) ==
  {i \in S : /\ HintOf[i] = share.hint /\ ClassOf[i] = share.class
             /\ \A j \in S : HintOf[j] = share.hint => i <= j}

(* by_hint, then the filter on the class. *)
Candidates(share, S) ==
  {i \in S : HintOf[i] = share.hint /\ ClassOf[i] = share.class}

(* Mutant: the associated data leave the position out. *)
OpensAnywhere(m, share, id) ==
  /\ share.box # Broken
  /\ share.box.id = id /\ share.box.kdf = m.kdf
  /\ share.box.version = m.version /\ share.box.class = share.class

(* cipher.decrypt: the same key and the same associated data. *)
OpensWith(m, share, id) ==
  /\ share.box # Broken
  /\ share.box.id = id /\ share.box.kdf = m.kdf
  /\ share.box.version = m.version /\ share.box.class = share.class
  /\ share.box.idx = share.idx

(* shamir::reconstruct: the secret when the points are those of one         *)
(* polynomial and enough for its degree, a number nobody chose otherwise.   *)
Reconstruct(points) ==
  IF \E i, j \in DOMAIN points : i # j /\ points[i].idx = points[j].idx
    THEN Failed("Corrupt")
    ELSE LET p == points[1].box IN
         IF /\ \A i \in DOMAIN points : /\ points[i].box.secret = p.secret
                                        /\ points[i].box.idx = points[i].idx
            /\ Len(points) >= p.k
           THEN [err |-> "no", secret |-> p.secret]
           ELSE [err |-> "no", secret |-> 0]

(* What recover() refuses before it looks at a share. *)
Refusal(m) ==
  CASE m.type # "luks-hwid"            -> "WrongTokenType"
    [] m.version > FORMAT_VERSION      -> "UnsupportedVersion"
    [] m.cipher # "xchacha20-poly1305" -> "Corrupt"
    [] m.k < 2 \/ m.shares = <<>>      -> "Corrupt"
    [] OTHER                           -> "no"

(* diagnose(): a share counts when the machine shows its class and hint. *)
Available(m, S) ==
  Cardinality({i \in DOMAIN m.shares : Candidates(m.shares[i], S) # {}})

(* Mutants: the margin counts the threshold itself; a quorum of exactly k  *)
(* is called lost.                                                         *)
WideMargin(m, S) == Available(m, S) - m.k + 1
StrictQuorum(m, S) == Available(m, S) > m.k

Margin(m, S)   == Available(m, S) - m.k
QuorumOk(m, S) == Available(m, S) >= m.k

(* find_hwid_token: the token parses, its type and version are known. *)
Readable(m) == m.type = "luks-hwid" /\ m.version <= FORMAT_VERSION

(* The exit code of status. *)
StatusCode(m, S) ==
  IF ~Readable(m) THEN 1 ELSE IF QuorumOk(m, S) THEN 0 ELSE 2
-----------------------------------------------------------------------------
Init ==
  /\ hw \in Machines
  /\ enrolled = 0 /\ owners = <<>> /\ meta = NoMeta /\ older = NoMeta
  /\ touched = {} /\ alterations = 0
  /\ at = "idle" /\ pos = 1 /\ opened = <<>> /\ res = Failed("none")
  /\ told = Untold

Idle == at \in {"idle", "done"}

(* What the process that ran recover() knew is gone. *)
Forget == at' = "idle" /\ pos' = 1 /\ opened' = <<>> /\ res' = Failed("none")

(* A new secret, shared and sealed; a backup has the token before it.       *)
Enroll ==
  /\ Idle /\ enrolled < MaxEnrolled
  /\ \E k \in Thresholds :
       /\ Enrollable(k, Cardinality(hw))
       /\ enrolled' = enrolled + 1
       /\ owners' = [i \in 1..Cardinality(hw) |-> Nth(hw, i)]
       /\ meta' = SealedToken(hw, enrolled + 1, k)
  /\ older' = IF touched = {} THEN meta ELSE NoMeta
  /\ touched' = {} /\ alterations' = 0 /\ told' = Untold
  /\ Forget
  /\ UNCHANGED hw

(* recover(): nothing is looked at before the fields outside the shares. *)
BeginRecover ==
  /\ Idle /\ meta # NoMeta
  /\ pos' = 1 /\ opened' = <<>>
  /\ IF Refusal(meta) = "no"
       THEN at' = "loop" /\ res' = Failed("none")
       ELSE at' = "done" /\ res' = Failed(Refusal(meta))
  /\ UNCHANGED <<hw, token, touched, alterations, told>>

InLoop == at = "loop" /\ pos <= Len(meta.shares) /\ Len(opened) < meta.k

(* Mutant: a share that opened is looked at again. *)
ReadShareAgain ==
  /\ InLoop /\ meta.kdf # "invalid"
  /\ LET share == meta.shares[pos] IN
       IF \E id \in Candidates(share, hw) : OpensWith(meta, share, id)
         THEN opened' = Append(opened, share) /\ UNCHANGED pos
         ELSE pos' = pos + 1 /\ UNCHANGED opened
  /\ UNCHANGED <<hw, token, touched, alterations, at, res, told>>

(* One turn of the loop over the shares; the key derivation may fail. *)
ReadShare ==
  /\ InLoop /\ meta.kdf # "invalid"
  /\ LET share == meta.shares[pos] IN
       opened' = IF \E id \in Candidates(share, hw) : OpensWith(meta, share, id)
                   THEN Append(opened, share) ELSE opened
  /\ pos' = pos + 1
  /\ UNCHANGED <<hw, token, touched, alterations, at, res, told>>

ReadShareBadKdf ==
  /\ InLoop /\ meta.kdf = "invalid"
  /\ IF Candidates(meta.shares[pos], hw) # {}
       THEN at' = "done" /\ res' = Failed("Kdf") /\ UNCHANGED pos
       ELSE pos' = pos + 1 /\ UNCHANGED <<at, res>>
  /\ UNCHANGED <<hw, token, touched, alterations, opened, told>>

(* After the loop: the quorum, then the secret. *)
EndRecover ==
  /\ at = "loop" /\ ~InLoop
  /\ at' = "done"
  /\ res' = IF Len(opened) < meta.k THEN Failed("QuorumNotMet")
                                    ELSE Reconstruct(opened)
  /\ UNCHANGED <<hw, token, touched, alterations, pos, opened, told>>

(* The administrator runs status, before anything is altered. *)
Status ==
  /\ Idle /\ touched = {}
  /\ told' = [code |-> StatusCode(meta, hw), hw |-> hw,
              margin |-> Margin(meta, hw)]
  /\ UNCHANGED <<hw, token, touched, alterations, run>>
-----------------------------------------------------------------------------
(* The environment: hardware, and what may happen to a token on the volume. *)
SwapHardware ==
  /\ Idle
  /\ hw' \in Machines \ {hw}
  /\ Forget
  /\ UNCHANGED <<token, touched, alterations, told>>

(* A field of share i, or of the token, now reads otherwise. *)
AlteredShare(i, share) ==
  meta' = [meta EXCEPT !.shares[i] = share] /\ touched' = touched \cup {i}

AlteredToken(m) == meta' = m /\ touched' = touched \cup {0}

AlterShare ==
  \E i \in DOMAIN meta.shares : LET s == meta.shares[i] IN
    \/ "box" \in Alterations /\ AlteredShare(i, [s EXCEPT !.box = Broken])
    \/ /\ "idx" \in Alterations
       /\ \E x \in 0..Len(meta.shares) : AlteredShare(i, [s EXCEPT !.idx = x])
    \/ /\ "class" \in Alterations
       /\ \E c \in Classes : AlteredShare(i, [s EXCEPT !.class = c])
    \/ /\ "hint" \in Alterations
       /\ \E h \in Hints : AlteredShare(i, [s EXCEPT !.hint = h])
    \/ /\ "mix" \in Alterations /\ i \in DOMAIN older.shares
       /\ AlteredShare(i, older.shares[i])

AlterToken ==
  \/ /\ "envelope" \in Alterations
     /\ \/ AlteredToken([meta EXCEPT !.type = "other"])
        \/ AlteredToken([meta EXCEPT !.version = 0])
        \/ AlteredToken([meta EXCEPT !.version = FORMAT_VERSION + 1])
        \/ AlteredToken([meta EXCEPT !.cipher = "other"])
        \/ \E kdf \in {"other", "invalid"} :
             AlteredToken([meta EXCEPT !.kdf = kdf])
  \/ /\ "k" \in Alterations
     /\ \E k \in 0..Len(meta.shares) : AlteredToken([meta EXCEPT !.k = k])

Alter ==
  /\ Idle /\ meta # NoMeta /\ enrolled + alterations < MaxChanges
  /\ AlterShare \/ AlterToken
  /\ alterations' = alterations + 1
  /\ Forget /\ told' = Untold
  /\ UNCHANGED <<hw, enrolled, owners, older>>

Next ==
  \/ Enroll \/ BeginRecover \/ ReadShare \/ ReadShareBadKdf \/ EndRecover
  \/ Status \/ SwapHardware \/ Alter

Spec == Init /\ [][Next]_vars
-----------------------------------------------------------------------------
(* Properties. *)

TypeOK ==
  /\ hw \in Machines /\ enrolled \in 0..MaxEnrolled
  /\ at \in {"idle", "loop", "done"} /\ pos \in 1 .. Len(meta.shares) + 1
  /\ \A i \in DOMAIN opened : \E j \in 1 .. pos - 1 : opened[i] = meta.shares[j]
  /\ touched \subseteq 0 .. Len(owners) /\ alterations \in 0..MaxChanges
  /\ res.secret \in 0..enrolled
  /\ told.code \in 0..2

(* README: "a wrong secret can never be silently reconstructed".  What      *)
(* recover() returns is the secret the token was made for, whichever fields *)
(* of it are altered, hints that collide included; run_inner puts it on     *)
(* stdout untested.                                                         *)
NeverWrong == at = "done" /\ res.err = "no" => res.secret = enrolled

Lowered == \E i \in DOMAIN meta.shares :
             meta.shares[i].box # Broken /\ meta.k < meta.shares[i].box.k
Spliced == \E i \in DOMAIN meta.shares :
             meta.shares[i].box # Broken /\ meta.shares[i].box.secret # enrolled

(* What is true of that promise: recover() returns the wrong secret only    *)
(* for a token whose threshold has been lowered or that holds a share of an *)
(* older token; every other altered field makes shares that do not open.    *)
WrongOnlyIfForged == NeverWrong \/ Lowered \/ Spliced

(* The boot does not depend on luck: when k shares nobody altered belong to *)
(* components that are there, the secret comes back, whatever became of the *)
(* other shares (unless one is an older token's, which opens too) and       *)
(* whatever else on the machine has the same hint.                          *)
QuorumSuffices ==
  /\ at = "done" /\ 0 \notin touched /\ ~Spliced
  /\ Cardinality({i \in DOMAIN owners : owners[i] \in hw /\ i \notin touched})
       >= meta.k
  => res = [err |-> "no", secret |-> enrolled]

(* status reports a lost quorum, or no token, only when the next boot will  *)
(* indeed need the rescue stick.                                            *)
NoFalseAlarm == at = "done" /\ res.err = "no" => StatusCode(meta, hw) = 0

(* No two identifiers that status could take for one another. *)
NoCollision(S) ==
  \A i, j \in S : HintOf[i] = HintOf[j] /\ ClassOf[i] = ClassOf[j] => i = j

(* The margin status prints is one: when it has said OK, the machine boots  *)
(* after any change that takes at most that many of its identifiers away,   *)
(* on a token nobody altered, unless a hint collides.                       *)
MarginHolds ==
  /\ at = "done" /\ told.code = 0 /\ touched = {}
  /\ Cardinality(told.hw \ hw) <= told.margin
  /\ NoCollision({owners[i] : i \in DOMAIN owners} \cup told.hw)
  => res.err = "no"
=============================================================================
