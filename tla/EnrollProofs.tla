---------------------------- MODULE EnrollProofs ----------------------------
(***************************************************************************)
(* Proofs about the enroll command, for every value of the constants: any  *)
(* number of keyslots, identifiers and faults, any thresholds asked for    *)
(* and any volume to start from that luks-hwid left, cut or not.           *)
(*                                                                         *)
(* The argument: IInv is inductive.  The keyslots a run destroys           *)
(* were noted when the header was loaded, because tokens named them; from  *)
(* then on the run is the only writer, so what it noted stays true.        *)
(***************************************************************************)
EXTENDS Enroll, VolumeProofs

-----------------------------------------------------------------------------
(* The inductive invariant behind the safety properties. *)

(* What was noted when the header was loaded is still true of it: no token  *)
(* came or went, and no keyslot to be destroyed is the administrator's.     *)
NotedInv ==
  /\ at = "off" => old_hwid_slots = {}
  /\ at \in {"loaded", "unlocked", "verify", "remove"} =>
       old_tokens = HwidIds /\ SlotsNamed \subseteq old_hwid_slots
  /\ at \in {"loaded", "unlocked", "verify"} => old_hwid_slots \subseteq SlotsNamed
  /\ at = "done" => old_hwid_slots \subseteq {slot}
  /\ \A s \in old_hwid_slots : slots[s] \notin AdminKeys

(* The new keyslot belongs to no token, and its metadata to this machine.   *)
NewKeyslotInv ==
  /\ at \in {"verify", "remove", "revoke", "done"} =>
       /\ slot \in SlotIds /\ meta \in Metadata
       /\ meta.ids = Truncate(hw)
       /\ 2 <= meta.k /\ meta.k <= Cardinality(meta.ids)
  /\ at = "verify" =>
       slots[slot] \in {meta.secret, Garbage} /\ slot \notin SlotsNamed
  /\ at \in {"remove", "revoke", "done"} =>
       slots[slot] = meta.secret /\ meta.keyslots = {slot}

(* Once written, the new token is the only one. *)
NewTokenInv ==
  at \in {"revoke", "done"} =>
    \E t \in HwidIds : HwidIds = {t} /\ tokens[t] = meta

IInv ==
  TypeOK /\ TokensBacked /\ Recoverable /\ NotedInv /\ NewKeyslotInv /\ NewTokenInv

(* Keyslots nobody names: without faults there is none that no run will     *)
(* destroy, unless the volume takes no token at all.                        *)
NoRoom == TokenRoom = 0 \/ (HwidIds = {} /\ FreeTokenIds = {})

OrphanInv ==
  /\ at \in {"off", "loaded", "unlocked"} => slot = NoId
  /\ at \in {"revoke", "done"} => ~NoRoom
  /\ faults = 0 /\ ~NoRoom =>
       FingerprintSlots \subseteq SlotsNamed \cup old_hwid_slots \cup {slot}
-----------------------------------------------------------------------------
(* What the keyslots that tokens name hold. *)
LEMMA NamedSlots ==
  ASSUME VolumeTypeOK, TokensBacked
  PROVE  /\ SlotsNamed \subseteq SlotIds
         /\ \A s \in SlotsNamed : slots[s] \in Secrets
PROOF
<1>1. \A t \in HwidIds : /\ tokens[t].keyslots \in SUBSET SlotIds
                         /\ tokens[t].secret \in Secrets
  BY HwidTokens DEF Metadata
<1> QED BY <1>1 DEF SlotsNamed, TokensBacked

(* Charging a fault keeps the fault count within its bound. *)
LEMMA ChargeType ==
  ASSUME NEW b, faults \in 0..MaxFaults, Charge(b)
  PROVE  faults' \in 0..MaxFaults
PROOF BY EnrollAssumption DEF Charge

(* The types of what a run knows. *)
LocalsType ==
  /\ at \in Places
  /\ old_tokens \subseteq SlotIds /\ old_hwid_slots \subseteq SlotIds
  /\ slot \in SlotIds \cup {NoId} /\ meta \in Metadata \cup {NoToken}

(* The conjuncts of IInv that say what a run knows. *)
RunInv == LocalsType /\ NotedInv /\ NewKeyslotInv /\ NewTokenInv

(* The others, which are about the volume and its environment. *)
HeaderInv ==
  /\ VolumeTypeOK /\ TokensBacked /\ Recoverable
  /\ hw \in SUBSET Ids /\ faults \in 0..MaxFaults

(* The invariant falls into what is said of the header and of the run. *)
LEMMA TwoParts == IInv <=> HeaderInv /\ RunInv
PROOF BY DEF IInv, HeaderInv, RunInv, TypeOK, LocalsType

(* A run that ends knows nothing any more. *)
LEMMA ExitForgets ==
  ASSUME Exit
  PROVE  RunInv'
PROOF
<1>1. LocalsType'
  BY DEF Exit, LocalsType, Places
<1> QED BY <1>1 DEF Exit, RunInv, NotedInv, NewKeyslotInv, NewTokenInv

(* A volume nobody wrote keeps what is said of it. *)
LEMMA HeaderUnchanged ==
  ASSUME VolumeTypeOK, TokensBacked, Recoverable, UNCHANGED volume
  PROVE  /\ VolumeTypeOK' /\ TokensBacked' /\ Recoverable'
         /\ HwidIds' = HwidIds /\ SlotsNamed' = SlotsNamed
PROOF
<1>1. HwidIds' = HwidIds /\ tokens' = tokens /\ slots' = slots
  BY DEF HwidIds, volume
<1> QED BY <1>1 DEF VolumeTypeOK, TokensBacked, Recoverable, SlotsNamed

(* The initial states satisfy the invariant. *)
LEMMA InitIInv == Init => IInv
PROOF
<1> SUFFICES ASSUME Init PROVE IInv
  OBVIOUS
<1>1. PICK v \in InitialVolumes : slots = v.slots /\ tokens = v.tokens
  BY DEF Init
<1>2. VolumeTypeOK
  BY <1>1, InitialAssumption DEF VolumeTypeOK
<1>3. TokensBacked /\ Recoverable
  BY <1>1, InitialAssumption DEF TokensBacked, Recoverable, HwidIds
<1>4. hw \in SUBSET Ids /\ faults \in 0..MaxFaults
  BY EnrollAssumption DEF Init
<1>5. LocalsType
  BY DEF Init, LocalsType, Places
<1>6. NotedInv /\ NewKeyslotInv /\ NewTokenInv
  BY DEF Init, NotedInv, NewKeyslotInv, NewTokenInv
<1> QED BY <1>2, <1>3, <1>4, <1>5, <1>6, TwoParts DEF HeaderInv, RunInv
-----------------------------------------------------------------------------
(* The actions that leave the volume alone. *)
LEMMA QuietStep ==
  ASSUME IInv,
         \/ LoadVolume \/ Unlock \/ VerifyKeyslot \/ Enrolled \/ Abandon
         \/ Finish \/ SwapHardware
  PROVE  IInv'
PROOF
<1> HeaderInv /\ RunInv
  BY TwoParts
<1> USE DEF HeaderInv, locals
<1>0. UNCHANGED volume
  BY DEF LoadVolume, Unlock, VerifyKeyslot, Enrolled, Abandon, Finish, SwapHardware
<1>a. /\ VolumeTypeOK' /\ TokensBacked' /\ Recoverable'
      /\ HwidIds' = HwidIds /\ SlotsNamed' = SlotsNamed
      /\ slots' = slots /\ tokens' = tokens
  BY <1>0, HeaderUnchanged DEF volume
<1>b. hw' \in SUBSET Ids /\ faults' \in 0..MaxFaults
  BY ChargeType, EnrollAssumption
  DEF LoadVolume, Unlock, VerifyKeyslot, Enrolled, Abandon, Finish, SwapHardware
<1> SUFFICES RunInv'
  BY <1>a, <1>b DEF IInv, TypeOK, RunInv, LocalsType
<1>1. CASE LoadVolume
  <2>1. HwidIds \subseteq SlotIds /\ SlotsNamed \subseteq SlotIds
    BY NamedSlots DEF HwidIds
  <2>2. LocalsType'
    BY <1>1, <2>1 DEF LoadVolume, RunInv, LocalsType, Places
  <2>3. \A s \in SlotsNamed : slots[s] \notin AdminKeys
    BY NamedSlots, SecretsApart
  <2>4. NotedInv'
    BY <1>1, <1>a, <2>3 DEF LoadVolume, NotedInv
  <2>5. NewKeyslotInv' /\ NewTokenInv'
    BY <1>1 DEF LoadVolume, NewKeyslotInv, NewTokenInv
  <2> QED BY <2>2, <2>4, <2>5 DEF RunInv
<1>2. CASE Unlock
  <2>1. LocalsType' /\ NewKeyslotInv' /\ NewTokenInv'
    BY <1>2 DEF Unlock, RunInv, LocalsType, Places, NewKeyslotInv, NewTokenInv
  <2>2. NotedInv'
    BY <1>2, <1>a DEF Unlock, RunInv, NotedInv
  <2> QED BY <2>1, <2>2 DEF RunInv
<1>3. CASE VerifyKeyslot
  <2>1. slot \in SlotIds /\ meta \in Metadata
    BY <1>3 DEF VerifyKeyslot, RunInv, NewKeyslotInv
  <2>2. /\ meta' \in Metadata /\ meta'.keyslots = {slot}
        /\ meta'.secret = meta.secret /\ meta'.ids = meta.ids /\ meta'.k = meta.k
    BY <1>3, <2>1 DEF VerifyKeyslot, Metadata
  <2>3. LocalsType'
    BY <1>3, <2>2 DEF VerifyKeyslot, RunInv, LocalsType, Places
  <2>4. NotedInv' /\ NewTokenInv'
    BY <1>3, <1>a DEF VerifyKeyslot, RunInv, NotedInv, NewTokenInv
  <2>5. NewKeyslotInv'
    BY <1>3, <1>a, <2>1, <2>2 DEF VerifyKeyslot, RunInv, NewKeyslotInv
  <2> QED BY <2>3, <2>4, <2>5 DEF RunInv
<1>4. CASE Enrolled
  <2>1. LocalsType'
    BY <1>4 DEF Enrolled, RunInv, LocalsType, Places
  <2>2. NotedInv' /\ NewKeyslotInv' /\ NewTokenInv'
    BY <1>4, <1>a DEF Enrolled, RunInv, NotedInv, NewKeyslotInv, NewTokenInv
  <2> QED BY <2>1, <2>2 DEF RunInv
<1>5. CASE Abandon \/ Finish
  BY <1>5, ExitForgets DEF Abandon, Finish
<1>6. CASE SwapHardware
  <2>1. LocalsType'
    BY <1>6 DEF SwapHardware, RunInv, LocalsType
  <2>2. NotedInv' /\ NewKeyslotInv' /\ NewTokenInv'
    BY <1>6, <1>a DEF SwapHardware, RunInv, NotedInv, NewKeyslotInv, NewTokenInv
  <2> QED BY <2>1, <2>2 DEF RunInv
<1> QED BY <1>1, <1>2, <1>3, <1>4, <1>5, <1>6
-----------------------------------------------------------------------------
(* The actions that write the volume. *)

(* The metadata under way are metadata, of this machine. *)
LEMMA NewMetadata ==
  ASSUME NEW S \in SUBSET Ids, NEW secret \in Secrets, NEW opt \in Thresholds,
         Enrollable(Policy(opt, Cardinality(Truncate(S))), Cardinality(Truncate(S)))
  PROVE  [keyslots |-> {}, secret |-> secret, ids |-> Truncate(S),
          k |-> Policy(opt, Cardinality(Truncate(S)))] \in Metadata
PROOF
<1>1. Truncate(S) \in SUBSET Ids /\ Cardinality(Truncate(S)) \in Nat
  BY TruncateType
<1>2. Policy(opt, Cardinality(Truncate(S))) \in Nat
  BY <1>1, EnrollAssumption, DefaultFits DEF Policy, Enrollable, DefaultThreshold
<1> QED BY <1>1, <1>2 DEF Metadata

(* luksAddKey fills a free keyslot: no token names it. *)
LEMMA AddStep ==
  ASSUME IInv, AddNewKeyslot
  PROVE  IInv'
PROOF
<1> HeaderInv /\ RunInv
  BY TwoParts
<1> USE DEF HeaderInv, locals
<1>1. PICK opt \in Thresholds, secret \in Secrets, good \in BOOLEAN,
            ok \in BOOLEAN, s \in FreeSlots :
        /\ Enrollable(Policy(opt, Cardinality(Truncate(hw))), Cardinality(Truncate(hw)))
        /\ IsLeast(secret, Secrets \ SecretsInUse)
        /\ Charge(~good \/ ~ok)
        /\ AddKeyslot(s, IF good THEN secret ELSE Garbage)
        /\ IF ok
             THEN /\ at' = "verify" /\ slot' = s
                  /\ meta' = [keyslots |-> {}, secret |-> secret,
                              ids |-> Truncate(hw),
                              k |-> Policy(opt, Cardinality(Truncate(hw)))]
                  /\ UNCHANGED <<old_tokens, old_hwid_slots>>
             ELSE Exit
  BY DEF AddNewKeyslot
<1> DEFINE key == IF good THEN secret ELSE Garbage
<1>2. at = "unlocked" /\ hw' = hw
  BY DEF AddNewKeyslot
<1>3. SetSlot(s, key) /\ s \in SlotIds /\ slots[s] = NoKey
  BY <1>1 DEF AddKeyslot, FreeSlots
<1>4. s \notin SlotsNamed
  BY <1>3, NamedSlots, SecretsApart
<1>5. \A t \in HwidIds : s \notin tokens[t].keyslots
  BY <1>4 DEF SlotsNamed
<1>6. TokensBacked' /\ HwidIds' = HwidIds /\ tokens' = tokens
  BY <1>3, <1>5, SetSlotBacks DEF SetSlot
<1>7. VolumeTypeOK'
  BY <1>3, SetSlotType
<1>8. Recoverable' /\ SlotsNamed' = SlotsNamed
  BY <1>6 DEF Recoverable, SlotsNamed
<1>9. faults' \in 0..MaxFaults
  BY <1>1, ChargeType
<1> SUFFICES RunInv'
  BY <1>2, <1>6, <1>7, <1>8, <1>9 DEF IInv, TypeOK, RunInv, LocalsType
<1>10. CASE ~ok
  BY <1>1, <1>10, ExitForgets
<1>11. CASE ok
  <2>1. /\ at' = "verify" /\ slot' = s
        /\ meta' = [keyslots |-> {}, secret |-> secret, ids |-> Truncate(hw),
                    k |-> Policy(opt, Cardinality(Truncate(hw)))]
        /\ UNCHANGED <<old_tokens, old_hwid_slots>>
    BY <1>1, <1>11
  <2>2. meta' \in Metadata
    BY <1>1, <2>1, NewMetadata
  <2>3. LocalsType'
    BY <1>3, <2>1, <2>2 DEF RunInv, LocalsType, Places
  <2>4. NotedInv'
    <3>1. old_tokens = HwidIds /\ old_hwid_slots = SlotsNamed
      BY <1>2 DEF RunInv, NotedInv
    <3>2. \A x \in SlotsNamed : slots'[x] = slots[x]
      BY <1>3, <1>4, NamedSlots DEF SetSlot, VolumeTypeOK
    <3>3. \A x \in SlotsNamed : slots'[x] \notin AdminKeys
      BY <3>2, NamedSlots, SecretsApart
    <3> QED BY <1>6, <1>8, <2>1, <3>1, <3>3 DEF NotedInv
  <2>5. NewKeyslotInv'
    <3>1. slots'[s] \in {secret, Garbage}
      BY <1>3 DEF SetSlot, VolumeTypeOK
    <3>2. meta'.ids = Truncate(hw) /\ meta'.secret = secret
      BY <2>1
    <3>3. 2 <= meta'.k /\ meta'.k <= Cardinality(meta'.ids)
      BY <1>1, <2>1 DEF Enrollable
    <3> QED BY <1>2, <1>3, <1>4, <1>8, <2>1, <2>2, <3>1, <3>2, <3>3 DEF NewKeyslotInv
  <2>6. NewTokenInv'
    BY <2>1 DEF NewTokenInv
  <2> QED BY <2>3, <2>4, <2>5, <2>6 DEF RunInv
<1> QED BY <1>10, <1>11

(* The keyslot killed after a failed test is the one just added. *)
LEMMA RejectStep ==
  ASSUME IInv, RejectKeyslot
  PROVE  IInv'
PROOF
<1> HeaderInv /\ RunInv
  BY TwoParts
<1> USE DEF HeaderInv, locals
<1>1. Exit /\ hw' = hw /\ faults' \in 0..MaxFaults
  BY ChargeType DEF RejectKeyslot
<1>2. VolumeTypeOK' /\ TokensBacked' /\ Recoverable'
  <2>1. CASE KillSlot(slot)
    <3>1. \A t \in HwidIds : slot \notin tokens[t].keyslots
      BY DEF RejectKeyslot, RunInv, NewKeyslotInv, SlotsNamed
    <3>2. TokensBacked' /\ HwidIds' = HwidIds /\ tokens' = tokens
      BY <2>1, <3>1, SetSlotBacks DEF KillSlot, SetSlot
    <3>3. VolumeTypeOK'
      BY <2>1, SetSlotType DEF KillSlot
    <3> QED BY <3>2, <3>3 DEF Recoverable
  <2>2. CASE UNCHANGED volume
    BY <2>2, HeaderUnchanged
  <2> QED BY <2>1, <2>2 DEF RejectKeyslot
<1>3. RunInv'
  BY <1>1, ExitForgets
<1> QED BY <1>1, <1>2, <1>3 DEF IInv, TypeOK, RunInv, LocalsType

(* What is left of old_tokens is what is left of the tokens. *)
LEMMA RemoveStep ==
  ASSUME IInv, RemoveOldToken
  PROVE  IInv'
PROOF
<1> HeaderInv /\ RunInv
  BY TwoParts
<1> USE DEF HeaderInv, locals
<1>1. PICK t \in old_tokens, ok \in BOOLEAN :
        /\ Charge(~ok) /\ RemoveToken(t)
        /\ IF ok THEN old_tokens' = old_tokens \ {t}
                      /\ UNCHANGED <<at, old_hwid_slots, slot, meta>>
                 ELSE Exit
  BY DEF RemoveOldToken
<1>2. at = "remove" /\ hw' = hw /\ old_tokens = HwidIds
  BY DEF RemoveOldToken, RunInv, NotedInv
<1>3. /\ VolumeTypeOK' /\ TokensBacked' /\ slots' = slots
      /\ HwidIds' = HwidIds \ {t}
      /\ \A u \in HwidIds \ {t} : tokens'[u] = tokens[u]
  BY <1>1, <1>2, RemoveBacks
<1>4. Recoverable' /\ SlotsNamed' \subseteq SlotsNamed
  BY <1>3 DEF Recoverable, SlotsNamed
<1>5. faults' \in 0..MaxFaults
  BY <1>1, ChargeType
<1> SUFFICES RunInv'
  BY <1>2, <1>3, <1>4, <1>5 DEF IInv, TypeOK, RunInv, LocalsType
<1>6. CASE ~ok
  BY <1>1, <1>6, ExitForgets
<1>7. CASE ok
  <2>1. /\ old_tokens' = HwidIds' /\ at' = "remove"
        /\ UNCHANGED <<old_hwid_slots, slot, meta>>
    BY <1>1, <1>2, <1>3, <1>7
  <2>2. LocalsType'
    BY <1>2, <1>3, <2>1 DEF RunInv, LocalsType
  <2>3. NotedInv'
    BY <1>2, <1>3, <1>4, <2>1 DEF RunInv, NotedInv
  <2>4. NewKeyslotInv' /\ NewTokenInv'
    BY <1>2, <1>3, <2>1 DEF RunInv, NewKeyslotInv, NewTokenInv
  <2> QED BY <2>2, <2>3, <2>4 DEF RunInv
<1> QED BY <1>6, <1>7

(* No token is left when the new one is written. *)
LEMMA ImportStep ==
  ASSUME IInv, AddNewToken
  PROVE  IInv'
PROOF
<1> HeaderInv /\ RunInv
  BY TwoParts
<1> USE DEF HeaderInv, locals
<1>1. PICK t \in FreeTokenIds, ok \in BOOLEAN :
        Charge(~ok) /\ ImportToken(t, meta) /\ Return(ok, "revoke")
  BY DEF AddNewToken
<1>2. at = "remove" /\ hw' = hw /\ HwidIds = {}
  BY DEF AddNewToken, RunInv, NotedInv
<1>3. /\ slot \in SlotIds /\ meta \in Metadata
      /\ slots[slot] = meta.secret /\ meta.keyslots = {slot}
      /\ 2 <= meta.k /\ meta.k <= Cardinality(meta.ids)
  BY <1>2 DEF RunInv, NewKeyslotInv
<1>4. /\ VolumeTypeOK' /\ TokensBacked' /\ slots' = slots
      /\ HwidIds' = HwidIds \cup {t} /\ tokens'[t] = meta
  BY <1>1, <1>3, ImportBacks
<1>5. Recoverable' /\ HwidIds' = {t}
  BY <1>2, <1>3, <1>4 DEF Recoverable
<1>6. faults' \in 0..MaxFaults
  BY <1>1, ChargeType
<1> SUFFICES RunInv'
  BY <1>2, <1>4, <1>5, <1>6 DEF IInv, TypeOK, RunInv, LocalsType
<1>7. CASE ~ok
  BY <1>1, <1>7, ExitForgets DEF Return
<1>8. CASE ok
  <2>1. at' = "revoke" /\ UNCHANGED locals
    BY <1>1, <1>8 DEF Return
  <2>2. LocalsType'
    BY <2>1 DEF RunInv, LocalsType, Places
  <2>3. NotedInv' /\ NewKeyslotInv'
    BY <1>2, <1>4, <2>1 DEF RunInv, NotedInv, NewKeyslotInv
  <2>4. NewTokenInv'
    BY <1>4, <1>5, <2>1 DEF NewTokenInv
  <2> QED BY <2>2, <2>3, <2>4 DEF RunInv
<1> QED BY <1>7, <1>8

(* The only token there is names the new keyslot, which is skipped. *)
LEMMA DestroyStep ==
  ASSUME IInv, DestroyOldSlot
  PROVE  IInv'
PROOF
<1> HeaderInv /\ RunInv
  BY TwoParts
<1> USE DEF HeaderInv, locals
<1>1. PICK s \in old_hwid_slots \ {slot}, ok \in BOOLEAN :
        /\ Charge(~ok) /\ SetSlot(s, NoKey)
        /\ IF ok THEN old_hwid_slots' = old_hwid_slots \ {s}
                      /\ UNCHANGED <<at, old_tokens, slot, meta>>
                 ELSE Exit
  BY DEF DestroyOldSlot, KillSlot
<1>2. at = "revoke" /\ hw' = hw
  BY DEF DestroyOldSlot
<1>3. PICK t \in HwidIds : HwidIds = {t} /\ tokens[t] = meta /\ meta.keyslots = {slot}
  BY <1>2 DEF RunInv, NewTokenInv, NewKeyslotInv
<1>4. /\ TokensBacked' /\ HwidIds' = HwidIds /\ tokens' = tokens
      /\ \A x \in SlotIds \ {s} : slots'[x] = slots[x]
  BY <1>1, <1>3, SetSlotBacks DEF SetSlot, VolumeTypeOK
<1>5. VolumeTypeOK' /\ Recoverable'
  BY <1>1, <1>4, SetSlotType DEF Recoverable
<1>6. faults' \in 0..MaxFaults
  BY <1>1, ChargeType
<1> SUFFICES RunInv'
  BY <1>2, <1>4, <1>5, <1>6 DEF IInv, TypeOK, RunInv, LocalsType
<1>7. CASE ~ok
  BY <1>1, <1>7, ExitForgets
<1>8. CASE ok
  <2>1. /\ old_hwid_slots' = old_hwid_slots \ {s} /\ at' = "revoke"
        /\ UNCHANGED <<old_tokens, slot, meta>>
    BY <1>1, <1>2, <1>8
  <2>2. LocalsType'
    BY <2>1 DEF RunInv, LocalsType, Places
  <2>3. NotedInv'
    BY <1>4, <2>1 DEF RunInv, LocalsType, NotedInv
  <2>4. NewKeyslotInv' /\ NewTokenInv'
    BY <1>1, <1>2, <1>4, <2>1 DEF RunInv, NewKeyslotInv, NewTokenInv
  <2> QED BY <2>2, <2>3, <2>4 DEF RunInv
<1> QED BY <1>7, <1>8

(* Between two runs nothing is noted, and no token names a keyslot of the   *)
(* administrator or a free one.                                             *)
LEMMA AdminStep ==
  ASSUME IInv, AddAdminKeyslot \/ KillAdminKeyslot
  PROVE  IInv'
PROOF
<1> HeaderInv /\ RunInv
  BY TwoParts
<1> USE DEF HeaderInv, locals
<1>1. at = "off" /\ UNCHANGED <<hw, faults, at, locals>>
  BY DEF AddAdminKeyslot, KillAdminKeyslot
<1>2. PICK s \in SlotIds, key \in AdminKeys \cup {NoKey} :
        SetSlot(s, key) /\ slots[s] \in AdminKeys \cup {NoKey}
  BY DEF AddAdminKeyslot, KillAdminKeyslot, AddKeyslot, KillSlot, FreeSlots
<1>3. \A t \in HwidIds : s \notin tokens[t].keyslots
  BY <1>2, NamedSlots, SecretsApart DEF SlotsNamed
<1>4. TokensBacked' /\ VolumeTypeOK' /\ HwidIds' = HwidIds /\ tokens' = tokens
  BY <1>2, <1>3, SetSlotBacks, SetSlotType DEF SetSlot
<1>5. Recoverable'
  BY <1>4 DEF Recoverable
<1>6. LocalsType' /\ NotedInv' /\ NewKeyslotInv' /\ NewTokenInv'
  BY <1>1 DEF RunInv, LocalsType, NotedInv, NewKeyslotInv, NewTokenInv
<1> QED BY <1>1, <1>4, <1>5, <1>6 DEF IInv, TypeOK, LocalsType

(* Every step keeps the invariant. *)
LEMMA NextIInv ==
  ASSUME IInv, [Next]_vars
  PROVE  IInv'
PROOF
<1>1. CASE UNCHANGED vars
  <2>1. VolumeTypeOK' /\ TokensBacked' /\ Recoverable'
        /\ HwidIds' = HwidIds /\ SlotsNamed' = SlotsNamed
    BY <1>1, HeaderUnchanged DEF IInv, TypeOK, vars, volume
  <2> QED BY <1>1, <2>1
      DEF IInv, TypeOK, vars, locals, NotedInv, NewKeyslotInv, NewTokenInv
<1>2. CASE Next
  BY <1>2, QuietStep, AddStep, RejectStep, RemoveStep, ImportStep, DestroyStep,
     AdminStep DEF Next
<1> QED BY <1>1, <1>2
-----------------------------------------------------------------------------
(* Keyslots nobody names. *)

(* A volume on which every keyslot that is no administrator's is named by a *)
(* token.  A re-enrollment cut at boot right after luksAddKey leaves one    *)
(* that is not, so this is a hypothesis of one theorem, not of all.         *)
NoOrphans(v) ==
  \A s \in SlotIds : v.slots[s] \notin AdminKeys \cup {NoKey} =>
    \E t \in SlotIds : /\ v.tokens[t] \notin {NoToken, ForeignToken}
                       /\ s \in v.tokens[t].keyslots

(* Without orphans at first, there are none to count. *)
LEMMA InitOrphans ==
  ASSUME Init, \A v \in InitialVolumes : NoOrphans(v)
  PROVE  OrphanInv
PROOF
<1>1. PICK v \in InitialVolumes : slots = v.slots /\ tokens = v.tokens
  BY DEF Init
<1>2. \A s \in FingerprintSlots : s \in SlotsNamed
  BY <1>1 DEF FingerprintSlots, SlotsNamed, HwidIds, NoOrphans
<1>3. slot = NoId /\ at = "off"
  BY DEF Init
<1> QED BY <1>2, <1>3 DEF OrphanInv

(* On a volume that takes no token, tokens stay as they are. *)
LEMMA NoRoomStays ==
  ASSUME IInv, NoRoom, [Next]_vars
  PROVE  NoRoom'
PROOF
<1>1. CASE TokenRoom = 0
  BY <1>1 DEF NoRoom
<1>2. CASE HwidIds = {} /\ FreeTokenIds = {}
  <2>1. CASE UNCHANGED tokens
    BY <1>2, <2>1 DEF NoRoom, HwidIds, FreeTokenIds
  <2>2. CASE RemoveOldToken
    <3>1. old_tokens = HwidIds /\ \E t \in old_tokens : TRUE
      BY <2>2 DEF RemoveOldToken, IInv, NotedInv
    <3> QED BY <1>2, <3>1
  <2>3. CASE AddNewToken
    BY <1>2, <2>3 DEF AddNewToken
  <2> QED
    BY <2>1, <2>2, <2>3
    DEF Next, vars, volume, LoadVolume, Unlock, AddNewKeyslot, AddKeyslot, KillSlot,
        SetSlot, VerifyKeyslot, RejectKeyslot, DestroyOldSlot, Enrolled, Abandon,
        Finish, SwapHardware, AddAdminKeyslot, KillAdminKeyslot
<1> QED BY <1>1, <1>2 DEF NoRoom

(* Where the JSON area has no room, CanImport is false for good. *)
LEMMA ImportHasRoom ==
  ASSUME CanImport
  PROVE  ~NoRoom
PROOF
<1>1. HwidIds \subseteq 0 .. (MAX_SLOTS - 1) /\ IsFiniteSet(0 .. (MAX_SLOTS - 1))
  BY SizeAssumption, FS_Interval DEF HwidIds, SlotIds
<1>2. Cardinality(HwidIds) \in Nat
  BY <1>1, FS_Subset, FS_CardinalityType
<1> QED BY <1>2, SizeAssumption DEF CanImport, NoRoom

(* Without faults a keyslot loses its last token only to be destroyed by    *)
(* the same run.                                                            *)
LEMMA OrphanStep ==
  ASSUME IInv, OrphanInv, [Next]_vars
  PROVE  OrphanInv'
PROOF
<1> USE DEF volume, locals
<1> TypeOK /\ VolumeTypeOK /\ NotedInv /\ NewKeyslotInv /\ NewTokenInv
  BY DEF IInv, TypeOK
<1>0. NoRoom => NoRoom'
  BY NoRoomStays
<1>a. IInv'
  BY NextIInv
<1> DEFINE Covered == SlotsNamed \cup old_hwid_slots \cup {slot}
<1>b. faults' = 0 => faults = 0
  BY DEF TypeOK, vars, Next, Charge, LoadVolume, Unlock, AddNewKeyslot,
         VerifyKeyslot, RejectKeyslot, RemoveOldToken, AddNewToken, DestroyOldSlot,
         Enrolled, Abandon, Finish, SwapHardware, AddAdminKeyslot, KillAdminKeyslot
<1>c. ASSUME UNCHANGED volume
      PROVE  /\ FingerprintSlots' = FingerprintSlots
             /\ SlotsNamed' = SlotsNamed /\ (NoRoom' <=> NoRoom)
  BY <1>c DEF FingerprintSlots, SlotsNamed, HwidIds, FreeTokenIds, NoRoom
<1>1. CASE LoadVolume \/ Unlock \/ VerifyKeyslot \/ Enrolled \/ SwapHardware
           \/ UNCHANGED vars
  <2>1. /\ UNCHANGED <<volume, slot>>
        /\ old_hwid_slots' = old_hwid_slots \/ old_hwid_slots' = SlotsNamed
        /\ LoadVolume => old_hwid_slots = {}
    BY <1>1 DEF LoadVolume, Unlock, VerifyKeyslot, Enrolled, SwapHardware, vars,
                NotedInv
  <2>2. /\ at' \in {"off", "loaded", "unlocked"} =>
             at \in {"off", "loaded", "unlocked"}
        /\ at' \in {"revoke", "done"} => at \in {"revoke", "done"}
    BY <1>1 DEF LoadVolume, Unlock, VerifyKeyslot, Enrolled, SwapHardware, vars
  <2>3. Covered \subseteq Covered'
    BY <1>1, <1>c, <2>1
    DEF LoadVolume, Unlock, VerifyKeyslot, Enrolled, SwapHardware, vars
  <2> QED BY <1>b, <1>c, <2>1, <2>2, <2>3 DEF OrphanInv
<1>2. CASE AddAdminKeyslot \/ KillAdminKeyslot
  <2>1. PICK s \in SlotIds, key \in AdminKeys \cup {NoKey} :
          SetSlot(s, key) /\ slots[s] \in AdminKeys \cup {NoKey}
    BY <1>2 DEF AddAdminKeyslot, KillAdminKeyslot, AddKeyslot, KillSlot, FreeSlots
  <2>2. /\ UNCHANGED <<at, faults, locals, tokens>>
        /\ FingerprintSlots' = FingerprintSlots
    BY <1>2, <2>1
    DEF AddAdminKeyslot, KillAdminKeyslot, SetSlot, FingerprintSlots, VolumeTypeOK
  <2>3. SlotsNamed' = SlotsNamed /\ (NoRoom' <=> NoRoom)
    BY <2>2 DEF SlotsNamed, HwidIds, FreeTokenIds, NoRoom
  <2> QED BY <2>2, <2>3 DEF OrphanInv
<1>3. CASE AddNewKeyslot
  <2>1. PICK s \in FreeSlots, ok \in BOOLEAN, key \in Secrets \cup {Garbage} :
          /\ SetSlot(s, key) /\ (~ok => faults' # 0)
          /\ IF ok THEN at' = "verify" /\ slot' = s
                        /\ UNCHANGED <<old_tokens, old_hwid_slots>>
                   ELSE Exit
    BY <1>3 DEF AddNewKeyslot, AddKeyslot, Charge, TypeOK
  <2>2. tokens' = tokens /\ \A x \in SlotIds \ {s} : slots'[x] = slots[x]
    BY <2>1 DEF SetSlot, VolumeTypeOK
  <2>3. SlotsNamed' = SlotsNamed /\ (NoRoom' <=> NoRoom)
    BY <2>2 DEF SlotsNamed, HwidIds, FreeTokenIds, NoRoom
  <2>4. FingerprintSlots' \subseteq FingerprintSlots \cup {s}
    BY <2>2 DEF FingerprintSlots
  <2>5. slot = NoId /\ NoId \notin SlotIds /\ FingerprintSlots \subseteq SlotIds
    BY <1>3, SizeAssumption DEF AddNewKeyslot, OrphanInv, NoId, SlotIds, FingerprintSlots
  <2>6. CASE ok
    BY <1>b, <2>1, <2>3, <2>4, <2>5, <2>6 DEF OrphanInv
  <2>7. CASE ~ok
    BY <2>1, <2>7 DEF Exit, OrphanInv
  <2> QED BY <2>6, <2>7
<1>4. CASE RejectKeyslot
  <2>1. Exit /\ (faults' = 0 => KillSlot(slot))
    BY <1>4 DEF RejectKeyslot, Charge, TypeOK
  <2>2. /\ slot \in SlotIds /\ old_hwid_slots = SlotsNamed
    BY <1>4 DEF RejectKeyslot, NewKeyslotInv, NotedInv
  <2>3. ASSUME KillSlot(slot)
        PROVE  /\ FingerprintSlots' \subseteq FingerprintSlots \ {slot}
               /\ SlotsNamed' = SlotsNamed /\ (NoRoom' <=> NoRoom)
    <3>1. tokens' = tokens /\ slots' = [slots EXCEPT ![slot] = NoKey]
      BY <2>3 DEF KillSlot, SetSlot
    <3> QED BY <2>2, <3>1
        DEF FingerprintSlots, VolumeTypeOK, SlotsNamed, HwidIds, FreeTokenIds, NoRoom
  <2> QED BY <1>b, <2>1, <2>2, <2>3 DEF Exit, OrphanInv
<1>5. CASE RemoveOldToken
  <2>1. PICK t \in old_tokens, ok \in BOOLEAN :
          /\ RemoveToken(t) /\ (~ok => faults' # 0)
          /\ IF ok THEN UNCHANGED <<at, old_hwid_slots, slot, meta>> ELSE Exit
    BY <1>5 DEF RemoveOldToken, Charge, TypeOK
  <2>2. at = "remove" /\ SlotsNamed \subseteq old_hwid_slots
    BY <1>5 DEF RemoveOldToken, NotedInv
  <2>3. FingerprintSlots' = FingerprintSlots
    BY <2>1 DEF RemoveToken, FingerprintSlots
  <2>4. CASE ok
    BY <1>0, <1>b, <2>1, <2>2, <2>3, <2>4 DEF OrphanInv
  <2>5. CASE ~ok
    BY <2>1, <2>5 DEF Exit, OrphanInv
  <2> QED BY <2>4, <2>5
<1>6. CASE AddNewToken
  <2>1. PICK t \in FreeTokenIds, ok \in BOOLEAN :
          /\ ImportToken(t, meta) /\ (~ok => faults' # 0) /\ Return(ok, "revoke")
    BY <1>6 DEF AddNewToken, Charge, TypeOK
  <2>2. at = "remove" /\ HwidIds = {}
    BY <1>6 DEF AddNewToken, NotedInv
  <2>3. FingerprintSlots' = FingerprintSlots /\ SlotsNamed = {}
    BY <2>1, <2>2 DEF ImportToken, FingerprintSlots, SlotsNamed
  <2>4. CASE ok
    <3>1. at' = "revoke" /\ UNCHANGED <<slot, old_hwid_slots>>
      BY <2>1, <2>4 DEF Return
    <3>2. HwidIds' # {}
      BY <1>a, <3>1 DEF IInv, NewTokenInv
    <3>3. ~NoRoom' /\ ~NoRoom
      BY <2>1, <3>2, ImportHasRoom DEF ImportToken, NoRoom
    <3> QED BY <1>b, <2>3, <3>1, <3>3 DEF OrphanInv
  <2>5. CASE ~ok
    BY <2>1, <2>5 DEF Return, Exit, OrphanInv
  <2> QED BY <2>4, <2>5
<1>7. CASE DestroyOldSlot
  <2>1. PICK s \in old_hwid_slots \ {slot}, ok \in BOOLEAN :
          /\ SetSlot(s, NoKey) /\ (~ok => faults' # 0)
          /\ IF ok THEN /\ old_hwid_slots' = old_hwid_slots \ {s}
                        /\ UNCHANGED <<at, slot>>
                   ELSE Exit
    BY <1>7 DEF DestroyOldSlot, KillSlot, Charge, TypeOK
  <2>2. FingerprintSlots' \subseteq FingerprintSlots \ {s} /\ tokens' = tokens
    BY <2>1 DEF SetSlot, FingerprintSlots, VolumeTypeOK, TypeOK
  <2>3. SlotsNamed' = SlotsNamed /\ (NoRoom' <=> NoRoom) /\ at = "revoke"
    BY <1>7, <2>2 DEF SlotsNamed, HwidIds, FreeTokenIds, NoRoom, DestroyOldSlot
  <2>4. CASE ok
    BY <1>b, <2>1, <2>2, <2>3, <2>4 DEF OrphanInv
  <2>5. CASE ~ok
    BY <2>1, <2>5 DEF Exit, OrphanInv
  <2> QED BY <2>4, <2>5
<1>8. CASE Abandon
  <2>1. Exit /\ UNCHANGED volume
    BY <1>8 DEF Abandon
  <2>2. CASE at \in {"loaded", "unlocked"}
    <3>1. slot = NoId /\ NoId \notin SlotIds /\ FingerprintSlots \subseteq SlotIds
      BY <2>2, SizeAssumption DEF OrphanInv, NoId, SlotIds, FingerprintSlots
    <3>2. old_hwid_slots \subseteq SlotsNamed
      BY <2>2 DEF NotedInv
    <3> QED BY <1>b, <1>c, <2>1, <3>1, <3>2 DEF Exit, OrphanInv
  <2>3. CASE at = "remove" /\ old_tokens = {} /\ ~CanImport
    <3>1. HwidIds = {}
      BY <2>3 DEF NotedInv
    <3>2. Cardinality(HwidIds) = 0
      BY <3>1, FS_EmptySet
    <3>3. NoRoom
      BY <2>3, <3>1, <3>2, SizeAssumption DEF CanImport, NoRoom
    <3> QED BY <1>0, <2>1, <3>3 DEF Exit, OrphanInv
  <2>4. CASE faults' # 0
    BY <2>1, <2>4 DEF Exit, OrphanInv
  <2> QED BY <1>8, <2>2, <2>3, <2>4 DEF Abandon, Charge, TypeOK
<1>9. CASE Finish
  <2>1. Exit /\ UNCHANGED <<volume, faults>> /\ at = "done"
    BY <1>9 DEF Finish
  <2>2. slot \in SlotsNamed
    BY <2>1 DEF NewTokenInv, NewKeyslotInv, SlotsNamed
  <2>3. ~NoRoom /\ old_hwid_slots \subseteq {slot}
    BY <2>1 DEF OrphanInv, NotedInv
  <2> QED BY <1>c, <2>1, <2>2, <2>3 DEF Exit, OrphanInv
<1> QED BY <1>1, <1>2, <1>3, <1>4, <1>5, <1>6, <1>7, <1>8, <1>9 DEF Next
-----------------------------------------------------------------------------
(* The theorems. *)

(* The inductive invariant holds in every reachable state. *)
THEOREM Invariance == Spec => []IInv
PROOF
<1>1. IInv /\ [Next]_vars => IInv'
  BY NextIInv
<1> QED BY InitIInv, <1>1, PTL DEF Spec

(* Types: every keyslot number and token id run() uses is of the header. *)
THEOREM TypeCorrect == Spec => []TypeOK
PROOF
<1>1. IInv => TypeOK
  BY DEF IInv
<1> QED BY Invariance, <1>1, PTL

(* No run of enroll, cut or failed, leaves a token whose keyslots do not    *)
(* open with the secret its shares rebuild.                                 *)
THEOREM TokensAreBacked == Spec => []TokensBacked
PROOF
<1>1. IInv => TokensBacked
  BY DEF IInv
<1> QED BY Invariance, <1>1, PTL

(* Whatever --threshold says and however many identifiers the truncation   *)
(* drops, a token that is written has its quorum on its own machine.        *)
THEOREM AlwaysRecoverable == Spec => []Recoverable
PROOF
<1>1. IInv => Recoverable
  BY DEF IInv
<1> QED BY Invariance, <1>1, PTL

(* A run that ends well leaves one fingerprint, this machine's. *)
LEMMA DoneKnowsOne ==
  ASSUME IInv, at = "done"
  PROVE  /\ \E t \in HwidIds : HwidIds = {t} /\ tokens[t] = meta
         /\ QuorumMet(meta, hw) /\ meta.keyslots = {slot} /\ Opens(meta.secret)
PROOF
<1>1. \E t \in HwidIds : HwidIds = {t} /\ tokens[t] = meta
  BY DEF IInv, NewTokenInv
<1>2. /\ meta.ids = Truncate(hw) /\ meta.k <= Cardinality(meta.ids)
      /\ meta.keyslots = {slot} /\ slot \in SlotIds /\ slots[slot] = meta.secret
  BY DEF IInv, NewKeyslotInv
<1>3. meta.ids \cap hw = meta.ids
  BY <1>2 DEF Truncate
<1> QED BY <1>1, <1>2, <1>3 DEF QuorumMet, Opens

(* The same as a theorem, whatever volume the command found.                *)
THEOREM OneFingerprintLeft ==
  Spec => [](at = "done" =>
               \E t \in HwidIds : /\ HwidIds = {t} /\ QuorumMet(tokens[t], hw)
                                 /\ Opens(tokens[t].secret))
PROOF
<1>1. IInv => (at = "done" =>
                 \E t \in HwidIds : /\ HwidIds = {t} /\ QuorumMet(tokens[t], hw)
                                   /\ Opens(tokens[t].secret))
  BY DoneKnowsOne
<1> QED BY Invariance, <1>1, PTL

(* Without faults, a run that ends well leaves no keyslot but its own that  *)
(* no administrator made, on a volume that began without orphans.           *)
THEOREM EnrollmentIsReplacement ==
  ASSUME \A v \in InitialVolumes : NoOrphans(v)
  PROVE  Spec => []EnrollmentReplaces
PROOF
<1>1. Init => IInv /\ OrphanInv
  BY InitIInv, InitOrphans
<1>2. IInv /\ OrphanInv /\ [Next]_vars => IInv' /\ OrphanInv'
  BY NextIInv, OrphanStep
<1>3. IInv /\ OrphanInv => EnrollmentReplaces
  <2> SUFFICES ASSUME IInv, OrphanInv, at = "done"
               PROVE  \E t \in HwidIds :
                        /\ HwidIds = {t} /\ tokens[t] = meta
                        /\ QuorumMet(meta, hw)
                        /\ \A s \in FingerprintSlots :
                             s \in meta.keyslots \/ faults > 0
    BY DEF EnrollmentReplaces
  <2>1. PICK t \in HwidIds : HwidIds = {t} /\ tokens[t] = meta
    BY DoneKnowsOne
  <2>2. QuorumMet(meta, hw) /\ meta.keyslots = {slot}
    BY DoneKnowsOne
  <2>3. SlotsNamed = {slot} /\ old_hwid_slots \subseteq {slot}
    BY <2>1, <2>2 DEF SlotsNamed, IInv, NotedInv
  <2>4. faults = 0 => FingerprintSlots \subseteq {slot}
    BY <2>3 DEF OrphanInv
  <2>5. faults = 0 \/ faults > 0
    BY DEF IInv, TypeOK
  <2> QED BY <2>1, <2>2, <2>4, <2>5
<1> QED BY <1>1, <1>2, <1>3, PTL DEF Spec

(* No run destroys a keyslot of the administrator. *)
THEOREM AdminKeyslotsAreKept == Spec => AdminKeyslotsKept
PROOF
<1> USE DEF volume, locals
<1> DEFINE Kept == at # "off" =>
             \A s \in SlotIds : slots[s] \in AdminKeys => slots'[s] = slots[s]
<1>1. ASSUME IInv, Next PROVE Kept
  <2> VolumeTypeOK /\ NotedInv /\ NewKeyslotInv
    BY <1>1 DEF IInv, TypeOK
  <2>1. ASSUME NEW x, NEW key, SetSlot(x, key), slots[x] \notin AdminKeys
        PROVE  Kept
    BY <2>1 DEF SetSlot, VolumeTypeOK
  <2>2. CASE AddNewKeyslot
    <3>1. PICK x \in FreeSlots : \E key : SetSlot(x, key)
      BY <2>2 DEF AddNewKeyslot, AddKeyslot
    <3>2. slots[x] \notin AdminKeys
      BY KeyAssumption DEF FreeSlots
    <3> QED BY <2>1, <3>1, <3>2
  <2>3. CASE RejectKeyslot
    <3>1. slots[slot] \notin AdminKeys
      BY <2>3, SecretsApart, KeyAssumption DEF RejectKeyslot, NewKeyslotInv, Metadata
    <3> QED BY <2>1, <2>3, <3>1 DEF RejectKeyslot, KillSlot
  <2>4. CASE DestroyOldSlot
    <3>1. PICK x \in old_hwid_slots : SetSlot(x, NoKey)
      BY <2>4 DEF DestroyOldSlot, KillSlot
    <3> QED BY <2>1, <3>1 DEF NotedInv
  <2>5. CASE UNCHANGED slots
    BY <2>5
  <2>6. CASE AddAdminKeyslot \/ KillAdminKeyslot
    BY <2>6 DEF AddAdminKeyslot, KillAdminKeyslot
  <2> QED
    BY <1>1, <2>2, <2>3, <2>4, <2>5, <2>6
    DEF Next, LoadVolume, Unlock, VerifyKeyslot, RemoveOldToken, RemoveToken,
        AddNewToken, ImportToken, Enrolled, Abandon, Finish, SwapHardware
<1>2. IInv /\ [Next]_vars => [Kept]_vars
  BY <1>1
<1> QED BY Invariance, <1>2, PTL DEF Spec, AdminKeyslotsKept
=============================================================================
