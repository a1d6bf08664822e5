---------------------------- MODULE VolumeProofs ----------------------------
(***************************************************************************)
(* Lemmas about the volume and the truncation that the proofs of the boot  *)
(* path, of the enroll command and of their composition have in common.    *)
(***************************************************************************)
EXTENDS LuksVolume, FiniteSetTheorems, TLAPS

(* A secret is neither an administrator's key nor the mark of a keyslot     *)
(* that is free or does not open.                                           *)
LEMMA SecretsApart ==
  ASSUME NEW x \in Secrets
  PROVE  x \notin AdminKeys /\ x # Garbage /\ x # NoKey
PROOF BY KeyAssumption DEF Secrets

(* What HwidIds selects is metadata: the two other contents are no record. *)
LEMMA HwidTokens ==
  ASSUME VolumeTypeOK, NEW t \in HwidIds
  PROVE  t \in SlotIds /\ tokens[t] \in Metadata
PROOF BY DEF VolumeTypeOK, HwidIds

(* A keyslot that holds no secret of a token is named by none. *)
LEMMA NotNamed ==
  ASSUME TokensBacked, NEW x, \A t \in HwidIds : slots[x] # tokens[t].secret
  PROVE  \A t \in HwidIds : x \notin tokens[t].keyslots
PROOF BY DEF TokensBacked

(* Writing a key in a keyslot keeps the volume typed. *)
LEMMA SetSlotType ==
  ASSUME VolumeTypeOK, NEW s, NEW key \in AdminKeys \cup Secrets \cup {Garbage, NoKey},
         SetSlot(s, key)
  PROVE  VolumeTypeOK'
PROOF BY DEF VolumeTypeOK, SetSlot

(* A keyslot no token names may take any content. *)
LEMMA SetSlotBacks ==
  ASSUME VolumeTypeOK, TokensBacked, NEW x, NEW key, SetSlot(x, key),
         \A t \in HwidIds : x \notin tokens[t].keyslots
  PROVE  TokensBacked' /\ HwidIds' = HwidIds
PROOF
<1>1. tokens' = tokens /\ HwidIds' = HwidIds
  BY DEF SetSlot, HwidIds
<1>2. \A s \in SlotIds : s # x => slots'[s] = slots[s]
  BY DEF SetSlot, VolumeTypeOK
<1>3. \A t \in HwidIds : tokens[t].keyslots \in SUBSET SlotIds
  BY HwidTokens DEF Metadata
<1> QED BY <1>1, <1>2, <1>3 DEF TokensBacked

(* A token removed, whichever it is: what the others say is still there. *)
LEMMA RemoveBacks ==
  ASSUME VolumeTypeOK, TokensBacked, NEW t \in HwidIds, RemoveToken(t)
  PROVE  /\ VolumeTypeOK' /\ TokensBacked' /\ slots' = slots
         /\ HwidIds' = HwidIds \ {t}
         /\ \A u \in HwidIds \ {t} : tokens'[u] = tokens[u]
PROOF
<1>1. tokens' = [tokens EXCEPT ![t] = NoToken] /\ slots' = slots
  BY DEF RemoveToken
<1>2. VolumeTypeOK'
  BY <1>1 DEF VolumeTypeOK
<1>3. /\ HwidIds' = HwidIds \ {t}
      /\ \A u \in HwidIds \ {t} : tokens'[u] = tokens[u]
  BY <1>1 DEF HwidIds, VolumeTypeOK
<1>4. TokensBacked'
  BY <1>1, <1>3 DEF TokensBacked
<1> QED BY <1>1, <1>2, <1>3, <1>4

(* A token imported that names one keyslot, which its secret opens. *)
LEMMA ImportBacks ==
  ASSUME VolumeTypeOK, TokensBacked,
         NEW t, NEW m \in Metadata, NEW s, ImportToken(t, m),
         m.keyslots = {s}, slots[s] = m.secret
  PROVE  /\ VolumeTypeOK' /\ TokensBacked' /\ slots' = slots
         /\ t \in SlotIds /\ t \notin HwidIds
         /\ HwidIds' = HwidIds \cup {t} /\ tokens'[t] = m
         /\ \A u \in HwidIds : tokens'[u] = tokens[u]
PROOF
<1>1. /\ t \in FreeTokenIds /\ slots' = slots
      /\ tokens' = [tokens EXCEPT ![t] = m]
  BY DEF ImportToken, IsLeast
<1>2. VolumeTypeOK'
  BY <1>1 DEF VolumeTypeOK
<1>3. /\ t \in SlotIds /\ t \notin HwidIds
      /\ HwidIds' = HwidIds \cup {t} /\ tokens'[t] = m
      /\ \A u \in HwidIds : tokens'[u] = tokens[u]
  BY <1>1, TokenAssumption DEF FreeTokenIds, HwidIds, VolumeTypeOK
<1>4. TokensBacked'
  BY <1>1, <1>3 DEF TokensBacked
<1> QED BY <1>1, <1>2, <1>3, <1>4

(* The truncation keeps a finite part of the identifiers. *)
LEMMA TruncateType ==
  ASSUME NEW S \in SUBSET Ids
  PROVE  /\ Truncate(S) \subseteq S
         /\ Truncate(S) \in SUBSET Ids /\ IsFiniteSet(Truncate(S))
         /\ Cardinality(Truncate(S)) \in Nat
PROOF
<1>1. Truncate(S) \subseteq S
  BY DEF Truncate
<1> QED BY <1>1, IdAssumption, FS_Subset, FS_CardinalityType

(* The default threshold is one an enrollment of n shares may have. *)
LEMMA DefaultFits ==
  ASSUME NEW n \in Nat, n >= 2
  PROVE  /\ DefaultThreshold(n) \in Nat
         /\ 2 <= DefaultThreshold(n) /\ DefaultThreshold(n) <= n
PROOF BY DEF DefaultThreshold
=============================================================================
