--------------------------- MODULE LifecycleProofs ---------------------------
(***************************************************************************)
(* Proofs about the life of a volume: boots and runs of enroll on the same *)
(* header, for every value of the constants.                               *)
(*                                                                         *)
(* The argument: what the boot path relies on (KeyscriptProofs) and what   *)
(* enroll relies on (EnrollProofs) hold side by side.  Either program      *)
(* knows nothing while the other runs, so of its own invariant only what   *)
(* is said of the volume is at stake then; LifeInv adds what each needs to *)
(* know of the other's writes.                                             *)
(*                                                                         *)
(* On top of it, LifeLeak counts keyslots as LeakInv does, as long as      *)
(* nothing has failed, and StatusInv says what is left to do of what       *)
(* status announced.                                                       *)
(***************************************************************************)
EXTENDS VolumeLifecycle, KeyscriptProofs

(* Enroll, as VolumeLifecycle instantiates it, with its proofs. *)
P == INSTANCE EnrollProofs
       WITH hw <- Present, at <- command, slot <- new_slot,
            meta <- new_meta, InitialVolumes <- {}
-----------------------------------------------------------------------------
(* Both programs mean the same by a volume. *)

LEMMA SameData ==
  /\ P!Metadata = Metadata /\ P!AdminKeys = AdminKeys
  /\ P!SlotIds = SlotIds /\ P!Secrets = Secrets /\ P!NoId = NoId
  /\ P!IsFiniteSet(Ids)
  /\ \A S : P!Cardinality(S) = Cardinality(S) /\ P!Truncate(S) = Truncate(S)
PROOF
<1>1. \A S : P!Cardinality(S) = Cardinality(S)
  BY DEF P!Cardinality, Cardinality
<1>2. \A S : P!Truncate(S) = Truncate(S)
  BY <1>1 DEF P!Truncate, Truncate
<1>3. P!IsFiniteSet(Ids)
  BY IdAssumption DEF P!IsFiniteSet, IsFiniteSet
<1> QED
  BY <1>1, <1>2, <1>3
  DEF P!Metadata, Metadata, P!AdminKeys, AdminKeys, P!SlotIds, SlotIds,
      P!Secrets, Secrets, P!NoId, NoId

LEMMA SameVolume ==
  /\ P!HwidIds = HwidIds /\ P!FreeSlots = FreeSlots
  /\ P!FreeTokenIds = FreeTokenIds /\ P!FingerprintSlots = FingerprintSlots
  /\ P!VolumeTypeOK <=> VolumeTypeOK
  /\ P!TokensBacked <=> TokensBacked
  /\ P!CanImport <=> CanImport
PROOF
<1>1. /\ P!HwidIds = HwidIds /\ P!FreeSlots = FreeSlots
      /\ P!FreeTokenIds = FreeTokenIds /\ P!FingerprintSlots = FingerprintSlots
  BY SameData
  DEF P!HwidIds, HwidIds, P!FreeSlots, FreeSlots, P!FreeTokenIds, FreeTokenIds,
      P!FingerprintSlots, FingerprintSlots
<1> QED
  BY <1>1, SameData
  DEF P!VolumeTypeOK, VolumeTypeOK, P!TokensBacked, TokensBacked, P!CanImport,
      CanImport

LEMMA SameVolumeNext ==
  /\ P!HwidIds' = HwidIds' /\ P!FingerprintSlots' = FingerprintSlots'
  /\ P!VolumeTypeOK' <=> VolumeTypeOK'
  /\ P!TokensBacked' <=> TokensBacked'
PROOF
<1>1. P!HwidIds' = HwidIds' /\ P!FingerprintSlots' = FingerprintSlots'
  BY SameData
  DEF P!HwidIds, HwidIds, P!FingerprintSlots, FingerprintSlots
<1> QED
  BY <1>1, SameData
  DEF P!VolumeTypeOK, VolumeTypeOK, P!TokensBacked, TokensBacked

(* A step of enroll in the life of a volume is one of the command. *)
LEMMA EnrollSteps ==
  ASSUME EnrollRuns
  PROVE  \/ P!LoadVolume \/ P!Unlock \/ P!AddNewKeyslot \/ P!VerifyKeyslot
         \/ P!RejectKeyslot \/ P!RemoveOldToken \/ P!AddNewToken
         \/ P!DestroyOldSlot \/ P!Enrolled \/ P!Abandon \/ P!Finish
PROOF
<1>1. Command!LoadVolume => P!LoadVolume
  BY DEF Command!LoadVolume, P!LoadVolume, Command!volume, P!volume,
      Command!HwidIds, P!HwidIds, Command!SlotsNamed, P!SlotsNamed,
      Command!SlotIds, P!SlotIds
<1>2. Command!Unlock => P!Unlock
  BY DEF Command!Unlock, P!Unlock, Command!UsedSlots, P!UsedSlots,
      Command!SlotIds, P!SlotIds, Command!FreeSlots, P!FreeSlots,
      Command!AdminKeys, P!AdminKeys, Command!Opens, P!Opens,
      Command!volume, P!volume, Command!locals, P!locals
<1>3. Command!AddNewKeyslot => P!AddNewKeyslot
  BY DEF Command!AddNewKeyslot, P!AddNewKeyslot, Command!Secrets,
      P!Secrets, Command!Truncate, P!Truncate, Command!Policy, P!Policy,
      Command!DefaultThreshold, P!DefaultThreshold, Command!Enrollable,
      P!Enrollable, Command!IsLeast, P!IsLeast, Command!SecretsInUse,
      P!SecretsInUse, Command!SlotIds, P!SlotIds, Command!HwidIds,
      P!HwidIds, Command!Charge, P!Charge, Command!FreeSlots,
      P!FreeSlots, Command!AddKeyslot, P!AddKeyslot, Command!SetSlot,
      P!SetSlot, Command!Exit, P!Exit, Command!NoId, P!NoId,
      Command!Cardinality, P!Cardinality
<1>4. Command!VerifyKeyslot => P!VerifyKeyslot
  BY DEF Command!VerifyKeyslot, P!VerifyKeyslot, Command!volume,
      P!volume
<1>5. Command!RejectKeyslot => P!RejectKeyslot
  BY DEF Command!RejectKeyslot, P!RejectKeyslot, Command!Charge,
      P!Charge, Command!KillSlot, P!KillSlot, Command!SetSlot,
      P!SetSlot, Command!volume, P!volume, Command!Exit, P!Exit,
      Command!NoId, P!NoId
<1>6. Command!RemoveOldToken => P!RemoveOldToken
  BY DEF Command!RemoveOldToken, P!RemoveOldToken, Command!IsLeast,
      P!IsLeast, Command!Charge, P!Charge, Command!RemoveToken,
      P!RemoveToken, Command!Exit, P!Exit, Command!NoId, P!NoId
<1>7. Command!AddNewToken => P!AddNewToken
  BY DEF Command!AddNewToken, P!AddNewToken, Command!FreeTokenIds,
      P!FreeTokenIds, Command!SlotIds, P!SlotIds, Command!Charge,
      P!Charge, Command!ImportToken, P!ImportToken, Command!CanImport,
      P!CanImport, Command!HwidIds, P!HwidIds, Command!IsLeast,
      P!IsLeast, Command!Return, P!Return, Command!Exit, P!Exit,
      Command!NoId, P!NoId, Command!locals, P!locals,
      Command!Cardinality, P!Cardinality
<1>8. Command!DestroyOldSlot => P!DestroyOldSlot
  BY DEF Command!DestroyOldSlot, P!DestroyOldSlot, Command!Charge,
      P!Charge, Command!KillSlot, P!KillSlot, Command!SetSlot,
      P!SetSlot, Command!Exit, P!Exit, Command!NoId, P!NoId
<1>9. Command!Enrolled => P!Enrolled
  BY DEF Command!Enrolled, P!Enrolled, Command!volume, P!volume,
      Command!locals, P!locals
<1>10. Command!Abandon => P!Abandon
  BY DEF Command!Abandon, P!Abandon, Command!CanImport, P!CanImport,
      Command!FreeTokenIds, P!FreeTokenIds, Command!HwidIds, P!HwidIds,
      Command!SlotIds, P!SlotIds, Command!Charge, P!Charge,
      Command!Exit, P!Exit, Command!NoId, P!NoId, Command!volume,
      P!volume, Command!Cardinality, P!Cardinality
<1>11. Command!Finish => P!Finish
  BY DEF Command!Finish, P!Finish, Command!Exit, P!Exit, Command!NoId,
      P!NoId, Command!volume, P!volume
<1> QED
  BY <1>1, <1>2, <1>3, <1>4, <1>5, <1>6, <1>7, <1>8, <1>9, <1>10, <1>11
  DEF EnrollRuns

(* The administrator of VolumeLifecycle is the one of Enroll. *)
LEMMA AdminSteps ==
  ASSUME Administers
  PROVE  P!AddAdminKeyslot \/ P!KillAdminKeyslot
PROOF
<1>1. Command!AddAdminKeyslot => P!AddAdminKeyslot
  BY DEF Command!AddAdminKeyslot, P!AddAdminKeyslot, Command!AdminKeys,
      P!AdminKeys, Command!FreeSlots, P!FreeSlots, Command!SlotIds,
      P!SlotIds, Command!AddKeyslot, P!AddKeyslot, Command!IsLeast,
      P!IsLeast, Command!SetSlot, P!SetSlot, Command!locals, P!locals
<1>2. Command!KillAdminKeyslot => P!KillAdminKeyslot
  BY DEF Command!KillAdminKeyslot, P!KillAdminKeyslot, Command!SlotIds,
      P!SlotIds, Command!AdminKeys, P!AdminKeys, Command!KillSlot,
      P!KillSlot, Command!SetSlot, P!SetSlot, Command!locals, P!locals
<1> QED BY <1>1, <1>2 DEF Administers

(* Enroll keeps its invariant here too. *)
LEMMA EnrollKeeps ==
  ASSUME P!IInv, EnrollRuns \/ Administers \/ UNCHANGED P!vars
  PROVE  P!IInv'
PROOF
<1>1. [P!Next]_(P!vars)
  BY EnrollSteps, AdminSteps DEF P!Next
<1> QED
  BY <1>1, P!NextIInv, SameData, TokenAssumption, KeyAssumption, SizeAssumption,
     SiteAssumption, IdAssumption, ThresholdAssumption
  DEF P!Next
-----------------------------------------------------------------------------
(* The inductive invariant. *)

(* Enroll draws a secret nothing on the volume mentions, and runs on a      *)
(* volume a key of the administrator opens.                                 *)
CommandInv ==
  /\ command # "off" => pc = "off"
  /\ command \in {"verify", "remove"} =>
       \A t \in HwidIds : tokens[t].secret # new_meta.secret
  /\ command \in {"unlocked", "verify", "remove", "revoke", "done"} =>
       \E key \in AdminKeys : Opens(key)

(* What the boot path is about to publish can be recovered from. *)
Recovers(m) == 2 <= m.k /\ m.k <= Cardinality(m.ids)
PendingInv == pc \in {"verify", "import"} => Recovers(meta)

LifeInv == IInv /\ P!IInv /\ CommandInv /\ PendingInv

(* Between two boots the boot path knows nothing: what is left of its       *)
(* invariant is about the volume.                                           *)
LEMMA OffIInv ==
  ASSUME IInv, pc = "off", UNCHANGED <<env, boot>>, faults' \in 0..MaxFaults,
         VolumeTypeOK', TokensBacked', DistinctSecrets'
  PROVE  IInv'
PROOF
<1> USE DEF env, boot, ctx, enr
<1>1. /\ st = "Init" /\ act = "None" /\ rescue_key = NoKey
      /\ fingerprint_key = NoKey /\ out = NoKey /\ revoke = {}
  BY DEF IInv, ScriptInv, RescueInv, KeysInv, RevokeInv, Writing
<1>2. TypeOK'
  BY DEF IInv, TypeOK
<1>3. ScriptInv' /\ RescueInv' /\ KeysInv' /\ RevokeInv'
  BY <1>1 DEF ScriptInv, RescueInv, KeysInv, RevokeInv, Writing
<1>4. TokenCurrent' /\ NewKeyslotInv' /\ NewTokenInv' /\ ReplacedInv'
  BY DEF TokenCurrent, ReplacementPending, Writing, NewKeyslotInv, NewTokenInv,
         ReplacedInv
<1> QED BY <1>2, <1>3, <1>4 DEF IInv

(* Between two runs enroll knows nothing either. *)
LEMMA OffEnroll ==
  ASSUME P!IInv, command = "off", UNCHANGED enroll, TypeOK',
         TokensBacked', \A t \in HwidIds' : Recovers(tokens[t])'
  PROVE  P!IInv'
PROOF
<1> USE DEF enroll
<1>1. P!TypeOK'
  <2>1. Present' \in SUBSET Ids
    BY IdAssumption DEF TypeOK, Present
  <2> QED BY <2>1, SameData, SameVolumeNext
      DEF P!IInv, P!TypeOK, TypeOK, P!Places
<1>2. P!TokensBacked' /\ P!Recoverable'
  BY SameData, SameVolumeNext DEF P!Recoverable, Recovers
<1>3. P!NotedInv' /\ P!NewKeyslotInv' /\ P!NewTokenInv'
  BY DEF P!IInv, P!NotedInv, P!NewKeyslotInv, P!NewTokenInv
<1> QED BY <1>1, <1>2, <1>3 DEF P!IInv

(* The metadata of a re-enrollment can be recovered from. *)
LEMMA PendingStep ==
  ASSUME IInv, PendingInv, Next
  PROVE  PendingInv'
PROOF
<1> USE DEF volume, env, ctx, enr
<1>1. CASE AddNewKeyslot
  <2>1. PICK late \in Unseen, secret \in Secrets :
          /\ Cardinality(Truncate(Present \ late)) >= 2
          /\ meta' = [keyslots |-> {}, secret |-> secret,
                      ids |-> Truncate(Present \ late),
                      k |-> DefaultThreshold(Cardinality(Truncate(Present \ late)))]
    BY <1>1 DEF AddNewKeyslot
  <2>2. Present \ late \in SUBSET Ids
    BY IdAssumption DEF IInv, TypeOK, Present
  <2>3. Recovers(meta)'
    BY <2>1, <2>2, TruncateType, DefaultFits DEF Recovers
  <2> QED BY <2>3 DEF PendingInv
<1>2. CASE VerifyKeyslot
  <2>1. /\ pc = "verify" /\ meta' = [meta EXCEPT !.keyslots = {slot}]
        /\ meta \in Metadata
    BY <1>2 DEF VerifyKeyslot, IInv, NewKeyslotInv
  <2>2. meta'.k = meta.k /\ meta'.ids = meta.ids
    BY <2>1 DEF Metadata
  <2> QED BY <2>1, <2>2 DEF PendingInv, Recovers
<1>3. CASE \/ ResolveHeader \/ ReadToken \/ CollectAndRecover \/ SearchUsb
           \/ BackupHeader \/ RejectKeyslot \/ ReenrollEnds \/ ReenrollFails
           \/ EmitFingerprintKey \/ EmitRescueKey \/ ExitWithError \/ PowerOn
           \/ PowerOff \/ PowerCut \/ ImportNewToken \/ RemoveOldToken
           \/ RevokeOldKeyslot
  <2>1. pc' \notin {"verify", "import"}
    BY <1>3, Driven
    DEF ResolveHeader, ReadToken, CollectAndRecover, SearchUsb, BackupHeader,
        RejectKeyslot, ReenrollEnds, ReenrollFails, EmitFingerprintKey,
        EmitRescueKey, Emit, ExitWithError, PowerOn, PowerOff, PowerCut, Reset,
        ImportNewToken, RemoveOldToken, RevokeOldKeyslot, Proceed
  <2> QED BY <2>1 DEF PendingInv
<1>4. CASE SwapHardware \/ InsertStick \/ PullStick
  BY <1>4 DEF SwapHardware, InsertStick, PullStick, PendingInv, Recovers
<1> QED BY <1>1, <1>2, <1>3, <1>4 DEF Next, Program, Environment

(* What the boot path adds to the tokens is what was pending. *)
LEMMA TokenStep ==
  ASSUME IInv, Next
  PROVE  \A t \in HwidIds' :
           \/ t \in HwidIds /\ tokens'[t] = tokens[t]
           \/ pc = "import" /\ tokens'[t] = meta
PROOF
<1> USE DEF volume, env, ctx, enr
<1>1. CASE ImportNewToken
  BY <1>1 DEF ImportNewToken, ImportToken, FreeTokenIds, HwidIds, IInv, TypeOK,
              VolumeTypeOK
<1>2. CASE RemoveOldToken
  BY <1>2 DEF RemoveOldToken, RemoveToken, HwidIds, IInv, TypeOK, VolumeTypeOK
<1>3. CASE UNCHANGED tokens
  BY <1>3 DEF HwidIds
<1> QED
  BY <1>1, <1>2, <1>3
  DEF Next, Program, Environment, ResolveHeader, ReadToken, CollectAndRecover,
      SearchUsb, BackupHeader, AddNewKeyslot, AddKeyslot, SetSlot, KillSlot,
      VerifyKeyslot, RejectKeyslot, RevokeOldKeyslot, ReenrollEnds,
      ReenrollFails, EmitFingerprintKey, EmitRescueKey, Emit, ExitWithError,
      PowerOn, PowerOff, PowerCut, Reset, SwapHardware, InsertStick, PullStick

(* A step of the boot path, or of its environment. *)
BootStep == command = "off" /\ Next /\ UNCHANGED enroll

(* A step of a boot keeps what enroll left in order. *)
LEMMA BootLife ==
  ASSUME LifeInv, BootStep
  PROVE  LifeInv'
PROOF
<1>1. IInv' /\ PendingInv'
  BY NextIInv, PendingStep DEF LifeInv, BootStep
<1>2. \A t \in HwidIds' : Recovers(tokens[t])'
  <2>1. \A t \in HwidIds : Recovers(tokens[t])
    BY SameData, SameVolume DEF LifeInv, P!IInv, P!Recoverable, Recovers
  <2> QED BY <2>1, TokenStep DEF LifeInv, PendingInv, BootStep, Recovers
<1>3. P!IInv'
  BY <1>1, <1>2, OffEnroll DEF LifeInv, BootStep, IInv
<1>4. CommandInv'
  BY DEF CommandInv, BootStep, enroll
<1> QED BY <1>1, <1>3, <1>4 DEF LifeInv
-----------------------------------------------------------------------------
(* What each command of enroll does to the volume. *)

(* What a run of enroll knows of the volume, in the words of LuksVolume. *)
LEMMA EnrollKnows ==
  ASSUME LifeInv
  PROVE  /\ VolumeTypeOK /\ TokensBacked
         /\ command \in {"verify", "remove", "revoke", "done"} =>
              new_slot \in SlotIds /\ new_meta \in Metadata
              /\ new_meta.ids = Truncate(Present) /\ Recovers(new_meta)
         /\ command = "verify" => slots[new_slot] \in {new_meta.secret, Garbage}
         /\ command \in {"remove", "revoke", "done"} =>
              slots[new_slot] = new_meta.secret /\ new_meta.keyslots = {new_slot}
         /\ command = "remove" => old_tokens = HwidIds
         /\ \A x \in old_hwid_slots : x \in SlotIds /\ slots[x] \notin AdminKeys
PROOF
<1>1. VolumeTypeOK /\ TokensBacked
  BY DEF LifeInv, IInv, TypeOK
<1>2. /\ command \in {"verify", "remove", "revoke", "done"} =>
           new_slot \in SlotIds /\ new_meta \in Metadata
           /\ new_meta.ids = Truncate(Present) /\ Recovers(new_meta)
      /\ command = "verify" => slots[new_slot] \in {new_meta.secret, Garbage}
      /\ command \in {"remove", "revoke", "done"} =>
           slots[new_slot] = new_meta.secret /\ new_meta.keyslots = {new_slot}
  BY SameData DEF LifeInv, P!IInv, P!NewKeyslotInv, Recovers
<1>3. /\ command = "remove" => old_tokens = HwidIds
      /\ \A x \in old_hwid_slots : x \in SlotIds /\ slots[x] \notin AdminKeys
  BY SameData, SameVolume DEF LifeInv, P!IInv, P!NotedInv, P!TypeOK
<1> QED BY <1>1, <1>2, <1>3

(* The steps of enroll that write nothing. *)
LEMMA EnrollQuiet ==
  ASSUME P!LoadVolume \/ P!Unlock \/ P!VerifyKeyslot \/ P!Enrolled \/ P!Abandon
         \/ P!Finish
  PROVE  /\ UNCHANGED volume
         /\ \/ command = "off" /\ command' = "loaded"
            \/ /\ command = "loaded" /\ command' = "unlocked"
               /\ \E key \in AdminKeys : Opens(key)
            \/ /\ command = "verify" /\ command' = "remove"
               /\ new_meta' = [new_meta EXCEPT !.keyslots = {new_slot}]
            \/ command = "revoke" /\ command' = "done"
            \/ command' = "off"
PROOF
BY SameData
DEF volume, P!volume, P!locals, P!LoadVolume, P!Unlock, P!Opens, Opens,
    P!VerifyKeyslot, P!Enrolled, P!Abandon, P!Finish, P!Exit

(* enroll draws a secret no token holds and puts it in a free keyslot. *)
LEMMA EnrollAdds ==
  ASSUME P!AddNewKeyslot
  PROVE  /\ command = "unlocked"
         /\ \E x \in FreeSlots, secret \in Secrets, key \in Secrets \cup {Garbage} :
              /\ SetSlot(x, key) /\ key \in {secret, Garbage}
              /\ \A t \in HwidIds : tokens[t].secret # secret
              /\ \/ command' = "verify" /\ new_meta'.secret = secret
                 \/ command' = "off"
PROOF
<1>1. PICK x \in FreeSlots, secret \in Secrets, good \in BOOLEAN :
        /\ SetSlot(x, IF good THEN secret ELSE Garbage)
        /\ secret \notin P!SecretsInUse
        /\ \/ command' = "verify" /\ new_meta'.secret = secret
           \/ command' = "off"
  <2>1. PICK secret \in P!Secrets, good \in BOOLEAN, ok \in BOOLEAN,
              x \in P!FreeSlots :
          /\ P!IsLeast(secret, P!Secrets \ P!SecretsInUse)
          /\ P!AddKeyslot(x, IF good THEN secret ELSE Garbage)
          /\ \/ command' = "verify" /\ new_meta'.secret = secret
             \/ P!Exit
    BY DEF P!AddNewKeyslot
  <2> QED BY <2>1, SameData, SameVolume
      DEF P!AddKeyslot, P!SetSlot, SetSlot, P!IsLeast, P!Exit
<1>2. \A t \in HwidIds : tokens[t].secret # secret
  BY <1>1, SameVolume DEF P!SecretsInUse
<1>3. command = "unlocked"
  BY DEF P!AddNewKeyslot
<1> QED BY <1>1, <1>2, <1>3

(* The keyslots enroll empties are not the administrator's. *)
LEMMA EnrollDestroys ==
  ASSUME LifeInv, P!RejectKeyslot \/ P!DestroyOldSlot
  PROVE  /\ command = "verify" \/ command = "revoke"
         /\ command' = "off" \/ command' = command
         /\ command' = "verify" => command # "verify"
         /\ \/ UNCHANGED volume
            \/ \E x \in SlotIds : SetSlot(x, NoKey) /\ slots[x] \notin AdminKeys
PROOF
<1>1. CASE P!RejectKeyslot
  <2>1. /\ command = "verify" /\ command' = "off"
        /\ UNCHANGED volume \/ SetSlot(new_slot, NoKey)
    BY <1>1 DEF P!RejectKeyslot, P!KillSlot, P!SetSlot, SetSlot, P!volume, volume, P!Exit
  <2>2. new_slot \in SlotIds /\ slots[new_slot] \notin AdminKeys
    BY <2>1, EnrollKnows, SecretsApart, KeyAssumption DEF Metadata
  <2> QED BY <2>1, <2>2
<1>2. CASE P!DestroyOldSlot
  <2>1. /\ command = "revoke" /\ command' \in {"off", "revoke"}
        /\ \E x \in old_hwid_slots : SetSlot(x, NoKey)
    BY <1>2 DEF P!DestroyOldSlot, P!KillSlot, P!SetSlot, SetSlot, P!Exit
  <2> QED BY <2>1, EnrollKnows
<1> QED BY <1>1, <1>2

(* enroll removes the tokens there are, then writes its own. *)
LEMMA EnrollTokens ==
  ASSUME LifeInv
  PROVE  /\ P!RemoveOldToken =>
              /\ command = "remove" /\ \E t \in HwidIds : RemoveToken(t)
              /\ command' = "off" \/ (command' = command /\ new_meta' = new_meta)
         /\ P!AddNewToken =>
              /\ command = "remove" /\ HwidIds = {}
              /\ \E t \in FreeTokenIds : ImportToken(t, new_meta)
              /\ command' \in {"off", "revoke"}
PROOF
<1>1. command = "remove" => old_tokens = HwidIds
  BY EnrollKnows
<1>2. ASSUME P!RemoveOldToken
      PROVE  /\ command = "remove" /\ \E t \in HwidIds : RemoveToken(t)
             /\ command' = "off" \/ (command' = command /\ new_meta' = new_meta)
  BY <1>1, <1>2 DEF P!RemoveOldToken, P!RemoveToken, RemoveToken, P!Exit
<1>3. ASSUME P!AddNewToken
      PROVE  /\ command = "remove" /\ HwidIds = {}
             /\ \E t \in FreeTokenIds : ImportToken(t, new_meta)
             /\ command' \in {"off", "revoke"}
  BY <1>1, <1>3, SameVolume
  DEF P!AddNewToken, P!ImportToken, ImportToken, P!IsLeast, IsLeast, P!Return, P!Exit
<1> QED BY <1>2, <1>3

(* The administrator touches his own keyslots only. *)
LEMMA AdminWrites ==
  ASSUME P!AddAdminKeyslot \/ P!KillAdminKeyslot
  PROVE  /\ command = "off" /\ command' = "off"
         /\ \E x \in SlotIds, key \in AdminKeys \cup {NoKey} :
              SetSlot(x, key) /\ slots[x] \in AdminKeys \cup {NoKey}
PROOF
BY SameData, SameVolume
DEF P!AddAdminKeyslot, P!KillAdminKeyslot, P!AddKeyslot, P!KillSlot, P!SetSlot,
    SetSlot, P!IsLeast, FreeSlots
-----------------------------------------------------------------------------
(* The invariant holds through boots, runs of enroll and the administrator. *)

(* Tokens written by enroll still tell their secrets apart. *)
LEMMA EnrollDistinct ==
  ASSUME LifeInv, EnrollRuns \/ Administers
  PROVE  DistinctSecrets'
PROOF
<1>1. VolumeTypeOK /\ TokensBacked /\ DistinctSecrets
  BY DEF LifeInv, IInv, TypeOK
<1>2. CASE P!RemoveOldToken
  <2>1. PICK t \in HwidIds : RemoveToken(t)
    BY <1>2, EnrollTokens
  <2> QED BY <1>1, <2>1, RemoveBacks DEF DistinctSecrets
<1>3. CASE P!AddNewToken
  <2>1. PICK t \in FreeTokenIds : ImportToken(t, new_meta)
    BY <1>3, EnrollTokens
  <2>2. /\ new_meta \in Metadata /\ new_meta.keyslots = {new_slot}
        /\ slots[new_slot] = new_meta.secret
        /\ \A u \in HwidIds : tokens[u].secret # new_meta.secret
    BY <1>3, EnrollTokens, EnrollKnows DEF LifeInv, CommandInv
  <2> QED BY <1>1, <2>1, <2>2, ImportBacks DEF DistinctSecrets
<1>4. CASE UNCHANGED tokens
  BY <1>1, <1>4 DEF DistinctSecrets, HwidIds
<1>5. CASE P!LoadVolume \/ P!Unlock \/ P!VerifyKeyslot \/ P!Enrolled \/ P!Abandon
           \/ P!Finish
  BY <1>4, <1>5, EnrollQuiet DEF volume
<1>6. CASE P!AddNewKeyslot
  BY <1>4, <1>6, EnrollAdds DEF SetSlot
<1>7. CASE P!RejectKeyslot \/ P!DestroyOldSlot
  BY <1>4, <1>7, EnrollDestroys DEF SetSlot, volume
<1>8. CASE P!AddAdminKeyslot \/ P!KillAdminKeyslot
  BY <1>4, <1>8, AdminWrites DEF SetSlot
<1> QED
  BY <1>2, <1>3, <1>5, <1>6, <1>7, <1>8, EnrollSteps, AdminSteps

(* A keyslot of the administrator still opens, and the new secret is still  *)
(* new.                                                                     *)
LEMMA EnrollCommand ==
  ASSUME LifeInv, EnrollRuns
  PROVE  CommandInv'
PROOF
<1> USE DEF CommandInv
<1>1. VolumeTypeOK /\ TokensBacked /\ CommandInv
  BY EnrollKnows DEF LifeInv
<1>2. pc' = "off"
  BY DEF EnrollRuns, Between, boot
<1>3. CASE P!LoadVolume \/ P!Unlock \/ P!VerifyKeyslot \/ P!Enrolled \/ P!Abandon
           \/ P!Finish
  <2>1. HwidIds' = HwidIds /\ tokens' = tokens /\ \A k : Opens(k)' <=> Opens(k)
    BY <1>3, EnrollQuiet DEF volume, HwidIds, Opens
  <2>2. command' = "remove" => new_meta'.secret = new_meta.secret /\ command = "verify"
    BY <1>3, EnrollQuiet, EnrollKnows DEF Metadata
  <2> QED BY <1>1, <1>2, <1>3, <2>1, <2>2, EnrollQuiet
<1>4. CASE P!AddNewKeyslot
  <2>1. PICK x \in FreeSlots, secret \in Secrets, key \in Secrets \cup {Garbage} :
              /\ SetSlot(x, key) /\ key \in {secret, Garbage}
              /\ \A t \in HwidIds : tokens[t].secret # secret
              /\ \/ command' = "verify" /\ new_meta'.secret = secret
                 \/ command' = "off"
    BY <1>4, EnrollAdds
  <2>2. tokens' = tokens /\ HwidIds' = HwidIds
    BY <2>1 DEF SetSlot, HwidIds
  <2>3. \E k \in AdminKeys : Opens(k)'
    <3>1. PICK k \in AdminKeys : Opens(k)
      BY <1>1, <1>4, EnrollAdds
    <3>2. PICK y \in SlotIds : slots[y] = k
      BY <3>1 DEF Opens
    <3>3. y # x
      BY <2>1, <3>2, KeyAssumption DEF FreeSlots
    <3>4. slots'[y] = k
      BY <1>1, <2>1, <3>2, <3>3 DEF SetSlot, VolumeTypeOK
    <3> QED BY <3>1, <3>2, <3>4 DEF Opens
  <2> QED BY <1>2, <2>1, <2>2, <2>3
<1>5. CASE P!RejectKeyslot \/ P!DestroyOldSlot
  <2>1. \E k \in AdminKeys : Opens(k)'
    <3>1. PICK k \in AdminKeys : Opens(k)
      BY <1>1, <1>5, EnrollDestroys
    <3>2. PICK y \in SlotIds : slots[y] = k
      BY <3>1 DEF Opens
    <3>3. slots'[y] = k
      BY <1>1, <1>5, <3>1, <3>2, EnrollDestroys DEF SetSlot, VolumeTypeOK, volume
    <3> QED BY <3>1, <3>2, <3>3 DEF Opens
  <2>2. command' \in {"off", "revoke"}
    BY <1>5, EnrollDestroys
  <2> QED BY <1>2, <2>1, <2>2
<1>6. CASE P!RemoveOldToken \/ P!AddNewToken
  <2>1. \A k : Opens(k)' <=> Opens(k)
    BY <1>6, EnrollTokens DEF RemoveToken, ImportToken, Opens
  <2>2. command = "remove" /\ command' \in {"remove", "revoke", "off"}
    BY <1>6, EnrollTokens
  <2>3. command' = "remove" =>
          /\ new_meta' = new_meta
          /\ \A t \in HwidIds' : t \in HwidIds /\ tokens'[t] = tokens[t]
    <3>1. ASSUME NEW t \in HwidIds, RemoveToken(t)
          PROVE  \A u \in HwidIds' : u \in HwidIds /\ tokens'[u] = tokens[u]
      BY <1>1, <3>1, RemoveBacks
    <3> QED BY <1>6, <3>1, EnrollTokens
  <2> QED BY <1>1, <1>2, <2>1, <2>2, <2>3
<1> QED BY <1>3, <1>4, <1>5, <1>6, EnrollSteps

(* A step of enroll, or of the administrator, keeps the invariant. *)
LEMMA EnrollLife ==
  ASSUME LifeInv, EnrollRuns \/ Administers
  PROVE  LifeInv'
PROOF
<1>1. P!IInv'
  BY EnrollKeeps DEF LifeInv
<1>2. VolumeTypeOK' /\ TokensBacked' /\ faults' \in 0..MaxFaults
  BY <1>1, SameVolumeNext DEF P!IInv, P!TypeOK
<1>3. pc = "off" /\ UNCHANGED <<env, boot>>
  BY DEF EnrollRuns, Administers, Between
<1>4. IInv'
  BY <1>2, <1>3, EnrollDistinct, OffIInv DEF LifeInv
<1>5. PendingInv'
  BY <1>3 DEF PendingInv, boot
<1>6. CommandInv'
  <2>1. CASE Administers
    <3>1. command' = "off"
      BY <2>1, AdminSteps, AdminWrites
    <3> QED BY <3>1 DEF CommandInv
  <2> QED BY <2>1, EnrollCommand
<1> QED BY <1>1, <1>4, <1>5, <1>6 DEF LifeInv

(* Boots begin, go on and end as Keyscript has it. *)
LEMMA BootSteps ==
  ASSUME BootBegins \/ BootGoesOn \/ BootEnds \/ HardwareChanges
  PROVE  BootStep
PROOF
BY DEF BootBegins, BootGoesOn, BootEnds, HardwareChanges, BootStep, Next,
       Environment

(* Nothing has run on the initial volume. *)
LEMMA InitLife == LifeInit => LifeInv
PROOF
<1> SUFFICES ASSUME LifeInit PROVE LifeInv
  OBVIOUS
<1>1. IInv
  BY InitIInv DEF LifeInit
<1>2. HwidIds = {}
  BY SiteAssumption DEF LifeInit, Init, HwidIds
<1>3. P!IInv
  <2>1. Present \in SUBSET Ids
    BY <1>1, IdAssumption DEF IInv, TypeOK, Present
  <2>2. P!TypeOK /\ P!TokensBacked
    BY <1>1, <2>1, SameData, SameVolume
    DEF LifeInit, IInv, TypeOK, P!TypeOK, P!Places
  <2>3. P!Recoverable /\ P!NotedInv /\ P!NewKeyslotInv /\ P!NewTokenInv
    BY <1>2, SameVolume
    DEF LifeInit, P!Recoverable, P!NotedInv, P!NewKeyslotInv, P!NewTokenInv
  <2> QED BY <2>2, <2>3 DEF P!IInv
<1>4. CommandInv /\ PendingInv
  BY DEF LifeInit, Init, CommandInv, PendingInv
<1> QED BY <1>1, <1>3, <1>4 DEF LifeInv

(* A step that changes nothing. *)
LEMMA StutterLife ==
  ASSUME LifeInv, UNCHANGED all
  PROVE  LifeInv'
PROOF
<1> USE DEF all, enroll
<1>1. UNCHANGED P!vars
  BY DEF P!vars, P!locals, Present, vars, env
<1>2. P!IInv' /\ IInv'
  BY <1>1, EnrollKeeps, StutterIInv DEF LifeInv
<1>3. CommandInv' /\ PendingInv'
  BY DEF vars, enr, LifeInv, CommandInv, PendingInv, Recovers, HwidIds, Opens
<1> QED BY <1>2, <1>3 DEF LifeInv

(* Through any sequence of boots, runs of enroll and keyslots of the        *)
(* administrator, cut or failing anywhere, both programs find the volume    *)
(* as they need it.                                                         *)
THEOREM LifeInvariance == LifeSpec => []LifeInv
PROOF
<1>1. LifeInv /\ [LifeNext]_all => LifeInv'
  BY BootSteps, BootLife, EnrollLife, StutterLife DEF LifeNext
<1> QED BY InitLife, <1>1, PTL DEF LifeSpec
-----------------------------------------------------------------------------
(* What the two programs promise together. *)

(* Whatever enroll did before and whatever becomes of a boot: tokens are    *)
(* backed, what is put on stdout opens the volume, the driver keeps to its  *)
(* script, a verified rescue key boots and a completed re-enrollment has    *)
(* retired what it found.                                                   *)
THEOREM BootsStaySound ==
  LifeSpec => /\ [](TokensBacked /\ EmittedKeyOpens /\ DriverOnScript /\ ReplacedRevoked)
              /\ RescueBoots
PROOF
<1> DEFINE Ends ==
      pc # "done" /\ pc' = "done" /\ rescue_key # NoKey
        => Executes("EmitRescueKey") /\ (out' = rescue_key \/ faults' > faults)
<1>1. LifeInv => TokensBacked /\ EmittedKeyOpens /\ DriverOnScript /\ ReplacedRevoked
  BY DEF LifeInv, IInv, KeysInv, EmittedKeyOpens, ScriptInv, DriverOnScript,
         Executes, ReplacedInv, ReplacedRevoked
<1>2. ASSUME LifeInv, [LifeNext]_all PROVE [Ends]_vars
  <2>1. CASE BootStep
    BY <1>2, <2>1, RescueEnds DEF LifeInv, BootStep
  <2>2. CASE EnrollRuns \/ Administers
    BY <2>2 DEF EnrollRuns, Administers, boot
  <2>3. CASE UNCHANGED all
    BY <2>3 DEF all
  <2> QED BY <1>2, <2>1, <2>2, <2>3, BootSteps DEF LifeNext
<1> QED BY LifeInvariance, <1>1, <1>2, PTL DEF LifeSpec, RescueBoots

(* Enroll publishes a fingerprint only on a volume that a key of the        *)
(* administrator opens.                                                     *)
THEOREM NeverTheOnlyKey == LifeSpec => NeverTheOnlyWay
PROOF
<1> DEFINE Safe == command # "off" /\ Published' \ Published # {}
                     => \E key \in AdminKeys : Opens(key)
<1>1. ASSUME LifeInv, LifeNext PROVE Safe
  <2> SUFFICES ASSUME command # "off", Published' \ Published # {}
               PROVE  \E key \in AdminKeys : Opens(key)
    OBVIOUS
  <2>1. EnrollRuns
    BY <1>1 DEF LifeNext, BootBegins, BootGoesOn, BootEnds, Administers,
                HardwareChanges
  <2>2. ~UNCHANGED tokens
    BY DEF Published, HwidIds
  <2>3. P!RemoveOldToken \/ P!AddNewToken
    BY <1>1, <2>1, <2>2, EnrollSteps, EnrollQuiet, EnrollAdds, EnrollDestroys
    DEF volume, SetSlot
  <2>4. command = "remove"
    BY <1>1, <2>3, EnrollTokens
  <2> QED BY <1>1, <2>4 DEF LifeInv, CommandInv
<1>2. LifeInv /\ [LifeNext]_all => [Safe]_all
  BY <1>1
<1> QED BY LifeInvariance, <1>2, PTL DEF LifeSpec, NeverTheOnlyWay

LifeStoreStep == [LifeStore!Next]_(LifeStore!store)

(* A store that never retracts its last fingerprint is one that may. *)
LEMMA StoreIsWeaker == StoreStep => LifeStoreStep
PROOF
BY DEF StoreStep, LifeStoreStep, Store!Next, Store!Add, Store!Publish,
       Store!Retract, Store!Revoke, Store!store, LifeStore!Next, LifeStore!Add,
       LifeStore!Publish, LifeStore!Retract, LifeStore!Revoke, LifeStore!store

(* The commands of enroll that touch tokens. *)
LEMMA TokensStore ==
  ASSUME LifeInv, P!RemoveOldToken \/ P!AddNewToken
  PROVE  LifeStoreStep
PROOF
<1>1. VolumeTypeOK /\ TokensBacked /\ DistinctSecrets
  BY DEF LifeInv, IInv, TypeOK
<1>2. CASE P!RemoveOldToken
  <2>1. PICK t \in HwidIds : RemoveToken(t)
    BY <1>2, EnrollTokens
  <2> DEFINE gone == tokens[t].secret
  <2>2. gone \in Published /\ Published' = Published \ {gone}
    BY <1>1, <2>1, RemoveBacks DEF Published, DistinctSecrets
  <2>3. Openers' = Openers /\ gone \in Secrets
    BY <1>1, <2>1, RemoveBacks, HwidTokens DEF Openers, Metadata
  <2> QED BY <2>2, <2>3
      DEF LifeStoreStep, LifeStore!Next, LifeStore!Retract, LifeStore!store
<1>3. CASE P!AddNewToken
  <2>1. PICK t \in FreeTokenIds : ImportToken(t, new_meta)
    BY <1>3, EnrollTokens
  <2>2. /\ new_meta \in Metadata /\ new_meta.keyslots = {new_slot}
        /\ slots[new_slot] = new_meta.secret /\ new_slot \in SlotIds
    BY <1>3, EnrollTokens, EnrollKnows
  <2>3. Published' = Published \cup {new_meta.secret} /\ Openers' = Openers
    BY <1>1, <2>1, <2>2, ImportBacks DEF Published, Openers
  <2>4. new_meta.secret \in Secrets /\ new_meta.secret \in Openers
    BY <2>2 DEF Metadata, Openers
  <2> QED BY <2>3, <2>4
      DEF LifeStoreStep, LifeStore!Next, LifeStore!Publish, LifeStore!store
<1> QED BY <1>2, <1>3

(* Every step of either program, or of the administrator, is one of the     *)
(* store.                                                                   *)
LEMMA LifeStores ==
  ASSUME LifeInv, LifeNext
  PROVE  LifeStoreStep
PROOF
<1>1. VolumeTypeOK /\ TokensBacked /\ VolumeTypeOK' /\ TokensBacked'
  BY BootSteps, BootLife, EnrollLife DEF LifeNext, LifeInv, IInv, TypeOK
<1>2. CASE UNCHANGED volume
  BY <1>2 DEF volume, LifeStoreStep, LifeStore!store, Openers, Published, HwidIds
<1>3. CASE BootStep
  BY <1>3, NextStores, StoreIsWeaker DEF BootStep, LifeInv
<1>4. CASE P!AddNewKeyslot
  <2>1. PICK x \in FreeSlots : \E key : SetSlot(x, key)
    BY <1>4, EnrollAdds
  <2>2. x \in SlotIds /\ slots[x] \notin Secrets
    BY <2>1, SecretsApart DEF FreeSlots
  <2> QED BY <1>1, <2>1, <2>2, SetSlotStores, StoreIsWeaker
<1>5. CASE P!RejectKeyslot \/ P!DestroyOldSlot
  <2>1. NoKey \notin Secrets
    BY SecretsApart
  <2> QED BY <1>1, <1>2, <1>5, <2>1, EnrollDestroys, SetSlotStores, StoreIsWeaker
<1>6. CASE P!AddAdminKeyslot \/ P!KillAdminKeyslot
  <2>1. PICK x \in SlotIds, key \in AdminKeys \cup {NoKey} :
          SetSlot(x, key) /\ slots[x] \in AdminKeys \cup {NoKey}
    BY <1>6, AdminWrites
  <2>2. slots[x] \notin Secrets
    BY <2>1, SecretsApart
  <2> QED BY <1>1, <2>1, <2>2, SetSlotStores, StoreIsWeaker
<1>7. CASE P!RemoveOldToken \/ P!AddNewToken
  BY <1>7, TokensStore
<1> QED
  BY <1>2, <1>3, <1>4, <1>5, <1>6, <1>7, BootSteps, EnrollSteps, AdminSteps,
     EnrollQuiet
  DEF LifeNext

(* Boots and runs of enroll together keep what a volume promises: a key     *)
(* opens before it is published and is retracted before it is revoked.      *)
THEOREM LifeKeepsTheStore == LifeSpec => LifeKeepsStore
PROOF
<1>1. LifeInit => LifeStore!Init
  <2> SUFFICES ASSUME LifeInit PROVE LifeStore!Init
    OBVIOUS
  <2>1. VolumeTypeOK /\ TokensBacked
    BY InitLife DEF LifeInv, IInv, TypeOK
  <2> QED BY <2>1, PublishedOpens DEF LifeStore!Init
<1>2. LifeInv /\ [LifeNext]_all => LifeStoreStep
  <2>1. ASSUME UNCHANGED all PROVE LifeStoreStep
    BY <2>1 DEF all, vars, volume, LifeStoreStep, LifeStore!store, Openers,
                Published, HwidIds
  <2> QED BY <2>1, LifeStores
<1> QED
  BY LifeInvariance, <1>1, <1>2, PTL
  DEF LifeSpec, LifeKeepsStore, LifeStore!Spec, LifeStoreStep
-----------------------------------------------------------------------------
(* How many components may go, with tokens of enroll too. *)

CommandQuorum ==
  command \in {"verify", "remove", "revoke", "done"} => HasDefault(new_meta)

(* Without a threshold of its own, enroll writes the default one. *)
LEMMA EnrollDefaults ==
  ASSUME LifeInv, CommandQuorum, Thresholds \subseteq {Unset}, EnrollRuns
  PROVE  CommandQuorum'
PROOF
<1>1. CASE P!AddNewKeyslot
  <2>1. PICK opt \in Thresholds :
          \/ /\ new_meta'.ids = P!Truncate(Present)
             /\ new_meta'.k = P!Policy(opt, P!Cardinality(P!Truncate(Present)))
          \/ command' = "off"
    BY <1>1 DEF P!AddNewKeyslot, P!Exit
  <2>2. command' # "off" => HasDefault(new_meta)'
    BY <2>1, SameData
    DEF P!Policy, P!DefaultThreshold, DefaultThreshold, HasDefault
  <2> QED BY <2>2 DEF CommandQuorum
<1>2. CASE P!VerifyKeyslot
  <2>1. /\ command = "verify" /\ new_meta \in Metadata
        /\ new_meta' = [new_meta EXCEPT !.keyslots = {new_slot}]
    BY <1>2, EnrollKnows DEF P!VerifyKeyslot
  <2>2. new_meta'.k = new_meta.k /\ new_meta'.ids = new_meta.ids
    BY <2>1 DEF Metadata
  <2> QED BY <2>1, <2>2 DEF CommandQuorum, HasDefault
<1>3. CASE P!LoadVolume \/ P!Unlock \/ P!RejectKeyslot \/ P!RemoveOldToken
           \/ P!AddNewToken \/ P!DestroyOldSlot \/ P!Enrolled \/ P!Abandon
           \/ P!Finish
  <2>1. \/ command' \in {"loaded", "unlocked", "off"}
        \/ /\ command \in {"remove", "revoke"}
           /\ new_meta' = new_meta
    BY <1>3
    DEF P!LoadVolume, P!Unlock, P!RejectKeyslot, P!RemoveOldToken, P!AddNewToken,
        P!DestroyOldSlot, P!Enrolled, P!Abandon, P!Finish, P!Exit, P!Return, P!locals
  <2> QED BY <2>1 DEF CommandQuorum, HasDefault
<1> QED BY <1>1, <1>2, <1>3, EnrollSteps

(* Neither program writes a threshold that two components can miss. *)
LEMMA LifeQuorum ==
  ASSUME LifeInv, QuorumInv, CommandQuorum, Thresholds \subseteq {Unset}, LifeNext
  PROVE  QuorumInv' /\ CommandQuorum'
PROOF
<1>1. CASE BootStep
  BY <1>1, NextQuorum DEF BootStep, LifeInv, CommandQuorum, enroll
<1>2. CASE EnrollRuns \/ Administers
  <2>1. CommandQuorum'
    BY <1>2, EnrollDefaults, AdminSteps, AdminWrites DEF CommandQuorum
  <2>2. VolumeTypeOK /\ TokensBacked
    BY EnrollKnows
  <2>3. \A t \in HwidIds' : HasDefault(tokens[t])'
    <3>1. CASE UNCHANGED tokens
      BY <3>1 DEF QuorumInv, HwidIds, HasDefault
    <3>2. CASE P!RemoveOldToken
      <4>1. PICK t \in HwidIds : RemoveToken(t)
        BY <3>2, EnrollTokens
      <4> QED BY <2>2, <4>1, RemoveBacks DEF QuorumInv, HasDefault
    <3>3. CASE P!AddNewToken
      <4>1. PICK t \in FreeTokenIds : ImportToken(t, new_meta)
        BY <3>3, EnrollTokens
      <4>2. /\ new_meta \in Metadata /\ new_meta.keyslots = {new_slot}
            /\ slots[new_slot] = new_meta.secret /\ HasDefault(new_meta)
        BY <3>3, EnrollTokens, EnrollKnows DEF CommandQuorum
      <4> QED BY <2>2, <4>1, <4>2, ImportBacks DEF QuorumInv, HasDefault
    <3> QED
      BY <1>2, <3>1, <3>2, <3>3, EnrollSteps, AdminSteps, EnrollQuiet, EnrollAdds,
         EnrollDestroys, AdminWrites
      DEF volume, SetSlot
  <2>4. /\ pc' = "off" /\ st' = "Init" /\ token' = token
        /\ token # NoToken => HasDefault(token)
    BY <1>2 DEF EnrollRuns, Administers, Between, boot, ctx, LifeInv, IInv, ScriptInv,
                QuorumInv
  <2> QED BY <2>1, <2>3, <2>4 DEF QuorumInv, HasDefault
<1> QED BY <1>1, <1>2, BootSteps DEF LifeNext

(* As long as enroll is not asked for another threshold, tokens of both     *)
(* programs let a machine lose one component.                               *)
THEOREM OneSwapIsSurvivedInLife ==
  ASSUME Thresholds \subseteq {Unset}
  PROVE  LifeSpec => [](token.ids \cap RescueIds = {} => OneSwapBoots)
PROOF
<1>1. LifeInit => QuorumInv /\ CommandQuorum
  <2>1. LifeInit => HwidIds = {}
    BY SiteAssumption DEF LifeInit, Init, HwidIds
  <2> QED BY <2>1 DEF LifeInit, Init, QuorumInv, CommandQuorum
<1>2. QuorumInv /\ CommandQuorum /\ UNCHANGED all => QuorumInv' /\ CommandQuorum'
  BY DEF all, vars, env, ctx, enr, enroll, QuorumInv, CommandQuorum, HwidIds,
         HasDefault
<1>3. LifeInv /\ QuorumInv /\ CommandQuorum /\ [LifeNext]_all
        => QuorumInv' /\ CommandQuorum'
  BY <1>2, LifeQuorum
<1>4. LifeInv /\ QuorumInv => (token.ids \cap RescueIds = {} => OneSwapBoots)
  BY QuorumSwap DEF LifeInv
<1> QED BY LifeInvariance, <1>1, <1>3, <1>4, PTL DEF LifeSpec
-----------------------------------------------------------------------------
(* What completed re-enrollments leave, whatever enroll did before. *)

(* Without faults, enroll hands the volume over as it takes it: with the    *)
(* keyslots of the fingerprint it knows, and no other.  In between it has   *)
(* noted every keyslot it is to destroy (EnrollProofs!OrphanInv).           *)
LifeLeak ==
  faults = 0 =>
    /\ SiteInv
    /\ command = "off" => LeakInv
    /\ command \in {"off", "loaded", "unlocked"} => new_slot = NoId
    /\ command \in {"loaded", "unlocked"} => Leaked <= Known
    /\ command # "off" => P!OrphanInv
    /\ command = "verify" => slots[new_slot] = new_meta.secret

(* A volume with no keyslot but those of its fingerprint has no orphan. *)
LEMMA KnownIsNamed ==
  ASSUME VolumeTypeOK, TokensBacked, Leaked <= Known
  PROVE  \A s \in FingerprintSlots : \E t \in HwidIds : s \in tokens[t].keyslots
PROOF
<1> TAKE s \in FingerprintSlots
<1>1. IsFiniteSet(FingerprintSlots) /\ Leaked \in Nat
  BY LeakedType
<1>2. Leaked <= 1 /\ Leaked # 0
  BY <1>1, FS_EmptySet DEF Leaked, Known
<1>3. HwidIds # {}
  BY <1>1, <1>2 DEF Known
<1>4. PICK t \in HwidIds, x \in SlotIds :
        x \in tokens[t].keyslots /\ slots[x] \in Secrets
  BY <1>3, HwidTokens DEF TokensBacked, Metadata
<1>5. x \in FingerprintSlots
  BY <1>4, SecretsApart DEF FingerprintSlots
<1>6. PICK y : FingerprintSlots = {y}
  BY <1>1, <1>2, FS_Singleton DEF Leaked
<1> QED BY <1>4, <1>5, <1>6

(* When no keyslot is nobody's, enroll starts without orphans. *)
LEMMA OffOrphans ==
  ASSUME LifeInv, command = "off", new_slot = NoId, Leaked <= Known
  PROVE  P!OrphanInv
PROOF
<1>1. \A s \in FingerprintSlots : \E t \in HwidIds : s \in tokens[t].keyslots
  BY KnownIsNamed, EnrollKnows
<1> QED BY <1>1, SameData, SameVolume DEF P!OrphanInv, P!SlotsNamed

(* Enroll counts on its own bookkeeping at each step. *)
LEMMA EnrollOrphans ==
  ASSUME LifeInv, P!OrphanInv, EnrollRuns \/ UNCHANGED P!vars
  PROVE  P!OrphanInv'
PROOF
<1>1. [P!Next]_(P!vars)
  BY EnrollSteps DEF P!Next
<1> QED
  BY <1>1, P!OrphanStep, SameData, TokenAssumption, KeyAssumption, SizeAssumption,
     SiteAssumption, IdAssumption, ThresholdAssumption
  DEF LifeInv

(* Without a fault, a run of enroll is over when it gives up before it      *)
(* writes, when it finds no room for its token, or when it has finished.    *)
LEMMA FaultlessEnroll ==
  ASSUME LifeInv, LifeLeak, EnrollRuns, faults' = 0
  PROVE  /\ faults = 0
         /\ \/ /\ command \in {"off", "loaded", "unlocked"}
               /\ command' \in {"off", "loaded", "unlocked"}
               /\ UNCHANGED volume
            \/ command' = "verify" /\ slots'[new_slot'] = new_meta'.secret
            \/ command' \in {"remove", "revoke", "done"}
            \/ command = "done" /\ command' = "off" /\ UNCHANGED volume
            \/ /\ command = "remove" /\ command' = "off"
               /\ old_tokens = {} /\ ~CanImport
PROOF
<1> USE DEF volume, P!volume, P!locals, P!Exit
<1>1. faults \in Nat /\ VolumeTypeOK
  BY EnrollKnows DEF LifeInv, IInv, TypeOK
<1>2. CASE P!LoadVolume \/ P!Unlock \/ P!VerifyKeyslot \/ P!Enrolled \/ P!Finish
  BY <1>2 DEF P!LoadVolume, P!Unlock, P!VerifyKeyslot, P!Enrolled, P!Finish
<1>3. CASE P!AddNewKeyslot
  <2>1. PICK secret \in P!Secrets, good \in BOOLEAN, ok \in BOOLEAN, x \in P!FreeSlots :
          /\ P!Charge(~good \/ ~ok)
          /\ P!AddKeyslot(x, IF good THEN secret ELSE Garbage)
          /\ ok => command' = "verify" /\ new_slot' = x /\ new_meta'.secret = secret
    BY <1>3 DEF P!AddNewKeyslot
  <2>2. faults = 0 /\ good /\ ok
    BY <1>1, <2>1 DEF P!Charge
  <2>3. SetSlot(x, secret) /\ x \in SlotIds
    BY <2>1, <2>2, SameData DEF P!AddKeyslot, P!SetSlot, SetSlot, P!FreeSlots
  <2>4. slots'[x] = secret
    BY <1>1, <2>3 DEF SetSlot, VolumeTypeOK
  <2> QED BY <2>1, <2>2, <2>4
<1>4. CASE P!RejectKeyslot
  <2>1. /\ command = "verify" /\ faults = 0 /\ slots[new_slot] # new_meta.secret
    BY <1>1, <1>4 DEF P!RejectKeyslot, P!Charge
  <2> QED BY <2>1 DEF LifeLeak
<1>5. CASE P!RemoveOldToken \/ P!AddNewToken \/ P!DestroyOldSlot
  <2>1. PICK ok \in BOOLEAN :
          /\ P!Charge(~ok)
          /\ ok => command' \in {command, "revoke"} /\ command \in {"remove", "revoke"}
    BY <1>5 DEF P!RemoveOldToken, P!AddNewToken, P!DestroyOldSlot, P!Return
  <2>2. faults = 0 /\ ok
    BY <1>1, <2>1 DEF P!Charge
  <2> QED BY <2>1, <2>2
<1>6. CASE P!Abandon
  BY <1>1, <1>6, SameVolume DEF P!Abandon, P!Charge
<1> QED BY <1>2, <1>3, <1>4, <1>5, <1>6, EnrollSteps

(* No run touches a token that is not luks-hwid's. *)
LEMMA EnrollTokenIds ==
  ASSUME LifeInv, EnrollRuns \/ Administers
  PROVE  TokenIds(tokens)' = TokenIds(tokens)
PROOF
<1>1. VolumeTypeOK /\ TokensBacked
  BY EnrollKnows
<1>2. CASE P!RemoveOldToken
  <2>1. PICK t \in HwidIds : RemoveToken(t)
    BY <1>2, EnrollTokens
  <2> QED BY <1>1, <2>1, TokenAssumption DEF RemoveToken, TokenIds, HwidIds, VolumeTypeOK
<1>3. CASE P!AddNewToken
  <2>1. PICK t \in FreeTokenIds : ImportToken(t, new_meta)
    BY <1>3, EnrollTokens
  <2>2. new_meta # ForeignToken
    BY <1>3, EnrollTokens, EnrollKnows, TokenAssumption
  <2> QED BY <1>1, <2>1, <2>2, TokenAssumption
      DEF ImportToken, TokenIds, FreeTokenIds, VolumeTypeOK
<1>4. CASE UNCHANGED tokens
  BY <1>4 DEF TokenIds
<1> QED
  BY <1>2, <1>3, <1>4, EnrollSteps, AdminSteps, EnrollQuiet, EnrollAdds,
     EnrollDestroys, AdminWrites
  DEF volume, SetSlot

(* A run that has finished leaves the keyslot of its token, and no other.   *)
LEMMA FinishedCounts ==
  ASSUME LifeInv, P!OrphanInv, command = "done", faults = 0
  PROVE  Leaked <= Known
PROOF
<1>1. /\ new_slot \in SlotIds /\ new_meta.keyslots = {new_slot}
      /\ \E t \in HwidIds : HwidIds = {t} /\ tokens[t] = new_meta
      /\ old_hwid_slots \subseteq {new_slot}
  BY EnrollKnows, SameData, SameVolume DEF LifeInv, P!IInv, P!NewTokenInv, P!NotedInv
<1>2. P!SlotsNamed = {new_slot}
  BY <1>1, SameVolume DEF P!SlotsNamed
<1>3. FingerprintSlots \subseteq {new_slot}
  BY <1>1, <1>2, SameVolume DEF P!OrphanInv
<1>4. IsFiniteSet({new_slot}) /\ Cardinality({new_slot}) = 1
  BY FS_Singleton
<1>5. Leaked <= 1
  BY <1>3, <1>4, FS_Subset DEF Leaked
<1> QED BY <1>1, <1>5 DEF Known

(* A run of enroll in which nothing fails leaves its keyslot and no other. *)
LEMMA EnrollLeak ==
  ASSUME LifeInv, LifeLeak, RoomForFaults, EnrollRuns
  PROVE  LifeLeak'
PROOF
<1> SUFFICES ASSUME faults' = 0 PROVE LifeLeak'
  BY DEF LifeLeak
<1>1. faults = 0 /\ SiteInv
  BY FaultlessEnroll DEF LifeLeak
<1>2. pc = "off" /\ pc' = "off" /\ UNCHANGED <<usb, act, keyfile, detached>>
  BY DEF EnrollRuns, Between, boot, ctx, env
<1>3. SiteInv'
  BY <1>1, <1>2, EnrollTokenIds DEF SiteInv, Writing, Reenrolling, Executes
<1>4. P!OrphanInv
  <2>1. CASE command = "off"
    <3>1. Leaked <= Known
      <4>1. Leaked <= faults + Known
        BY <1>1, <1>2, <2>1 DEF LifeLeak, LeakInv, Reenrolling
      <4>2. Known = 0 \/ Known = 1
        BY DEF Known
      <4> QED BY <1>1, <4>1, <4>2
    <3> QED BY <1>1, <2>1, <3>1, OffOrphans DEF LifeLeak
  <2> QED BY <1>1, <2>1 DEF LifeLeak
<1>5. P!OrphanInv'
  BY <1>4, EnrollOrphans
<1>6. command' \in {"off", "loaded", "unlocked"} => new_slot' = NoId
  BY <1>5, SameData DEF P!OrphanInv
<1>7. command' \in {"off", "loaded", "unlocked"} => Leaked' <= Known'
  <2>1. UNCHANGED volume => Leaked' = Leaked /\ Known' = Known
    BY Unwritten
  <2>2. command \in {"off", "loaded", "unlocked"} => Leaked <= Known
    <3>1. command = "off" => Leaked <= faults + Known
      BY <1>1, <1>2 DEF LifeLeak, LeakInv, Reenrolling
    <3>2. Known = 0 \/ Known = 1
      BY DEF Known
    <3> QED BY <1>1, <3>1, <3>2 DEF LifeLeak
  <2>3. command = "done" => Leaked <= Known
    BY <1>1, <1>4, FinishedCounts
  <2>4. ~(command = "remove" /\ old_tokens = {} /\ ~CanImport)
    <3> SUFFICES ASSUME command = "remove", old_tokens = {}, ~CanImport PROVE FALSE
      OBVIOUS
    <3>1. HwidIds = {}
      BY EnrollKnows
    <3>2. Cardinality(HwidIds) = 0
      BY <3>1, FS_EmptySet
    <3>3. TokenRoom >= 2 /\ TokenRoom \in Nat
      BY SiteAssumption, SizeAssumption DEF RoomForFaults
    <3>4. FreeTokenIds = {}
      BY <3>2, <3>3 DEF CanImport
    <3>5. TokenIds(tokens) = {}
      BY <3>1, <3>4 DEF TokenIds, HwidIds, FreeTokenIds
    <3>6. Cardinality(TokenIds(tokens)) = 0
      BY <3>5, FS_EmptySet
    <3> QED BY <1>1, <3>6, SiteAssumption DEF SiteInv
  <2> QED BY <2>1, <2>2, <2>3, <2>4, FaultlessEnroll
<1>8. command' = "off" => LeakInv'
  <2>1. command' = "off" => Leaked' <= faults' + Known'
    <3>1. Known' = 0 \/ Known' = 1
      BY DEF Known
    <3> QED BY <1>7, <3>1
  <2> QED BY <1>2, <2>1 DEF LeakInv, Reenrolling, Executes
<1>9. command' = "verify" => slots'[new_slot'] = new_meta'.secret
  BY FaultlessEnroll
<1> QED BY <1>3, <1>5, <1>6, <1>7, <1>8, <1>9 DEF LifeLeak

(* What the administrator adds or kills is not counted. *)
LEMMA AdminLeak ==
  ASSUME LifeInv, LifeLeak, Administers
  PROVE  LifeLeak'
PROOF
<1> USE DEF env, ctx
<1>1. PICK x \in SlotIds, key \in AdminKeys \cup {NoKey} :
        SetSlot(x, key) /\ slots[x] \in AdminKeys \cup {NoKey}
  BY AdminSteps, AdminWrites
<1>2. /\ command = "off" /\ command' = "off" /\ new_slot' = new_slot
      /\ pc = "off" /\ pc' = "off" /\ UNCHANGED <<usb, act, keyfile, detached, faults>>
  BY AdminSteps, AdminWrites
  DEF Administers, Between, boot, enroll, P!AddAdminKeyslot, P!KillAdminKeyslot
<1>3. tokens' = tokens /\ FingerprintSlots' = FingerprintSlots
  BY <1>1, EnrollKnows DEF SetSlot, FingerprintSlots, VolumeTypeOK
<1>4. Leaked' = Leaked /\ Known' = Known /\ TokenIds(tokens)' = TokenIds(tokens)
  BY <1>3 DEF Leaked, Known, HwidIds, TokenIds
<1>5. SiteInv => SiteInv'
  BY <1>2, <1>4 DEF SiteInv, Writing, Reenrolling, Executes
<1>6. LeakInv => LeakInv'
  BY <1>2, <1>4 DEF LeakInv, Reenrolling, Executes
<1> QED BY <1>2, <1>5, <1>6 DEF LifeLeak

(* One step of either program. *)
LEMMA LifeLeaks ==
  ASSUME LifeInv, LifeLeak, RoomForFaults, LifeNext
  PROVE  LifeLeak'
PROOF
<1>1. CASE BootStep
  <2>1. faults' = 0 => faults = 0
    <3>1. (\E bad : Charge(bad)) \/ faults' = faults
      BY <1>1
      DEF BootStep, Next, Program, Environment, ResolveHeader, ReadToken,
          CollectAndRecover, SearchUsb, BackupHeader, AddNewKeyslot, VerifyKeyslot,
          RejectKeyslot, ImportNewToken, RemoveOldToken, RevokeOldKeyslot,
          ReenrollEnds, ReenrollFails, EmitFingerprintKey, EmitRescueKey, Emit,
          ExitWithError, PowerOn, PowerOff, PowerCut, SwapHardware, InsertStick,
          PullStick
    <3>2. faults \in Nat
      BY DEF LifeInv, IInv, TypeOK
    <3> QED BY <3>1, <3>2 DEF Charge
  <2>2. faults' = 0 => LeakInv' /\ SiteInv'
    BY <1>1, <2>1, NextLeak DEF LifeLeak, LifeInv, BootStep
  <2>3. command = "off" /\ command' = "off" /\ new_slot' = new_slot
    BY <1>1 DEF BootStep, enroll
  <2> QED BY <2>1, <2>2, <2>3 DEF LifeLeak
<1> QED BY <1>1, BootSteps, EnrollLeak, AdminLeak DEF LifeNext

(* A step that changes nothing. *)
LEMMA StutterLifeLeak ==
  ASSUME LifeInv, LifeLeak, UNCHANGED all
  PROVE  LifeLeak'
PROOF
<1> USE DEF all, enroll
<1>1. UNCHANGED vars /\ UNCHANGED volume
  BY DEF vars, volume
<1>2. LeakInv /\ SiteInv => LeakInv' /\ SiteInv'
  BY <1>1, StutterLeak
<1>3. command # "off" /\ SiteInv => SiteInv'
  <2>1. command # "off" => pc = "off"
    BY DEF LifeInv, CommandInv
  <2>2. TokenIds(tokens)' = TokenIds(tokens) /\ UNCHANGED <<pc, usb>>
    BY DEF TokenIds, vars, ctx
  <2> QED BY <2>1, <2>2 DEF SiteInv, Executes, Writing, Reenrolling
<1>4. UNCHANGED P!vars
  BY <1>1 DEF P!vars, P!locals, Present, vars, env
<1>5. P!OrphanInv => P!OrphanInv'
  BY <1>4, EnrollOrphans
<1>6. Leaked' = Leaked /\ Known' = Known
  BY <1>1, Unwritten
<1>7. UNCHANGED <<slots, faults>>
  BY <1>1 DEF vars
<1>8. UNCHANGED <<command, new_slot, new_meta>>
  OBVIOUS
<1> QED BY <1>2, <1>5, <1>6, <1>7, <1>8, <1>3 DEF LifeLeak, NoId

(* Runs of enroll in between, cut or failing, do not change what a boot     *)
(* that re-enrolls without faults leaves: its own keyslot, and no other.    *)
THEOREM StaleIsRevokedInLife == RoomForFaults /\ LifeSpec => []StaleRevoked
PROOF
<1> SUFFICES ASSUME RoomForFaults PROVE LifeSpec => []StaleRevoked
  OBVIOUS
<1>1. LifeInit => LifeLeak
  BY InitLeak DEF LifeInit, LifeLeak
<1>2. LifeInv /\ LifeLeak /\ [LifeNext]_all => LifeLeak'
  BY LifeLeaks, StutterLifeLeak
<1>3. LifeInv /\ LifeLeak => StaleRevoked
  BY RevokedOne DEF LifeInv, CommandInv, LifeLeak, StaleRevoked
<1> QED BY LifeInvariance, <1>1, <1>2, <1>3, PTL DEF LifeSpec
-----------------------------------------------------------------------------
(* What status foretells. *)

(* A boot in which nothing has gone wrong so far. *)
Steady == pc # "off" /\ ~detached /\ status.faults = faults

(* The stick is there and its keyfile opens the volume. *)
Rescuer == inserted /\ keyfile # NoKey /\ Opens(keyfile)

(* What a re-enrollment takes is still there, and nothing is replaced yet:  *)
(* the token read, if any, is one of another machine.                       *)
Replaceable ==
  /\ CanImport /\ Cardinality(Truncate(Present)) >= 2
  /\ Cardinality(Stale) = status.stale
  /\ IF token = NoToken THEN HwidIds = {} ELSE token_id \in Stale

Healed == StatusCode = 0 \/ Cardinality(Stale) < status.stale

(* Up to the search for the stick, status still says what it said.          *)
AsSaid ==
  /\ usb = "none"
  /\ status.code = StatusCode /\ status.stale = Cardinality(Stale)
  /\ status.room <=> Room

(* Status decides which arm of the script is taken. *)
ForetellInv ==
  Steady =>
    /\ pc = "resolve" \/ Executes("ReadToken") => AsSaid
    /\ Executes("CollectAndRecover") => AsSaid /\ HwidIds # {} /\ token = Current
    /\ Executes("EmitFingerprintKey") => status.code = 0
    /\ Executes("SearchUsb") =>
         /\ AsSaid /\ status.code # 0
         /\ status.room => Replaceable
    /\ Executes("Abort") => status.code # 0 /\ ~Rescuer
    /\ Executes("Reenroll") \/ pc \in Writing \/ Executes("EmitRescueKey") =>
         status.code # 0 /\ Rescuer /\ rescue_key = keyfile
    /\ pc = "done" =>
         IF status.code = 0 THEN out \in Secrets
         ELSE out = IF Rescuer THEN keyfile ELSE NoKey

(* With room for it, a re-enrollment nothing disturbs gets to its end.      *)
HealInv ==
  Steady /\ status.room =>
    /\ Executes("Reenroll") => Replaceable /\ usb = "ro" /\ FreeSlots # {}
    /\ pc \in Writing \ {"revoke"} => StickReadable
    /\ pc = "enroll" => Replaceable /\ FreeSlots # {}
    /\ pc \in {"verify", "import"} =>
         Replaceable /\ slots[slot] = meta.secret /\ meta.ids = Truncate(Present)
    /\ pc = "remove" => token_id \in Stale /\ Cardinality(Stale) = status.stale
    /\ pc = "revoke" \/ Executes("EmitRescueKey") => Healed
    /\ pc = "done" /\ out = RescueKey => Healed

StatusInv ==
  /\ pc = "off" => usb = "none"
  /\ pc # "off" => status.faults \in Nat /\ status.faults <= faults
  /\ ForetellInv /\ HealInv

(* What is said of the volume depends on the header and the hardware alone. *)
LEMMA SameOutlook ==
  ASSUME UNCHANGED <<tokens, hw, inserted>>
  PROVE  /\ HwidIds' = HwidIds /\ Present' = Present /\ Stale' = Stale
         /\ Current' = Current /\ StatusCode' = StatusCode
         /\ FreeTokenIds' = FreeTokenIds /\ (CanImport' <=> CanImport)
PROOF
<1>1. HwidIds' = HwidIds /\ Present' = Present /\ FreeTokenIds' = FreeTokenIds
  BY DEF HwidIds, Present, FreeTokenIds
<1>2. Stale' = Stale /\ Current' = Current /\ (CanImport' <=> CanImport)
  BY <1>1 DEF Stale, Current, CanImport
<1> QED BY <1>1, <1>2 DEF StatusCode

(* What the room to re-enroll and the stick's key are made of. *)
LEMMA SameRoom ==
  ASSUME UNCHANGED <<slots, tokens, hw, inserted, keyfile>>
  PROVE  (Room' <=> Room) /\ FreeSlots' = FreeSlots /\ (Rescuer' <=> Rescuer)
PROOF
BY SameOutlook DEF Room, FreeSlots, Rescuer, Opens

(* The token a boot reads is the one status spoke of. *)
LEMMA LeastIsCurrent ==
  ASSUME VolumeTypeOK, NEW t \in HwidIds, IsLeast(t, HwidIds)
  PROVE  /\ tokens[t] = Current
         /\ StatusCode = IF QuorumMet(tokens[t], Present) THEN 0 ELSE 2
PROOF
<1>1. HwidIds \subseteq Int
  BY SizeAssumption DEF HwidIds, SlotIds
<1> DEFINE least == CHOOSE x \in HwidIds : \A y \in HwidIds : x <= y
<1>2. least \in HwidIds /\ \A y \in HwidIds : least <= y
  BY DEF IsLeast
<1>3. tokens[least] = Current
  BY DEF Current
<1> HIDE DEF least
<1>4. least = t
  BY <1>1, <1>2 DEF IsLeast
<1> QED BY <1>3, <1>4 DEF StatusCode

(* A boot still undisturbed after a step was so before, and the step was    *)
(* not charged to a fault.                                                  *)
LEMMA SteadyBack ==
  ASSUME LifeInv, StatusInv, Program, UNCHANGED status, Steady'
  PROVE  /\ Steady /\ faults' = faults
         /\ \A bad : Charge(bad) => ~bad
PROOF
<1>1. faults \in Nat /\ status.faults = faults'
  BY DEF LifeInv, IInv, TypeOK, Steady
<1>2. pc # "off"
  BY DEF Program, ResolveHeader, ReadToken, CollectAndRecover, SearchUsb,
         BackupHeader, AddNewKeyslot, VerifyKeyslot, RejectKeyslot, ImportNewToken,
         RemoveOldToken, RevokeOldKeyslot, ReenrollEnds, ReenrollFails, Blocked,
         EmitFingerprintKey, EmitRescueKey, Emit, ExitWithError, Executes
<1>3. (\E bad : Charge(bad)) \/ faults' = faults
  BY DEF Program, ResolveHeader, ReadToken, CollectAndRecover, SearchUsb,
         BackupHeader, AddNewKeyslot, VerifyKeyslot, RejectKeyslot, ImportNewToken,
         RemoveOldToken, RevokeOldKeyslot, ReenrollEnds, ReenrollFails,
         EmitFingerprintKey, EmitRescueKey, Emit, ExitWithError
<1>4. status.faults \in Nat /\ status.faults <= faults
  BY <1>2 DEF StatusInv
<1>5. faults' = faults
  BY <1>1, <1>3, <1>4 DEF Charge
<1>6. ~detached
  <2>1. UNCHANGED env
    BY DEF Program, ResolveHeader, ReadToken, CollectAndRecover, SearchUsb,
           BackupHeader, AddNewKeyslot, VerifyKeyslot, RejectKeyslot, ImportNewToken,
           RemoveOldToken, RevokeOldKeyslot, ReenrollEnds, ReenrollFails,
           EmitFingerprintKey, EmitRescueKey, Emit, ExitWithError
  <2> QED BY <2>1 DEF env, Steady
<1>7. \A bad : Charge(bad) => ~bad
  BY <1>1, <1>5 DEF Charge
<1> QED BY <1>1, <1>2, <1>5, <1>6, <1>7 DEF Steady

(* Up to the search for the stick. *)
LEMMA SearchForetold ==
  ASSUME LifeInv, StatusInv, UNCHANGED status, Steady', Program,
         \/ ResolveHeader \/ ReadToken \/ CollectAndRecover \/ SearchUsb
  PROVE  ForetellInv' /\ HealInv'
PROOF
<1> USE DEF volume, env, ctx, enr, Executes
<1>1. UNCHANGED <<slots, tokens, hw, inserted, keyfile, detached>>
  BY DEF ResolveHeader, ReadToken, CollectAndRecover, SearchUsb
<1>2. /\ Steady /\ ~detached /\ faults' = faults
      /\ \A bad : Charge(bad) => ~bad
  BY SteadyBack DEF Steady
<1>3. /\ HwidIds' = HwidIds /\ Present' = Present /\ Stale' = Stale
      /\ Current' = Current /\ StatusCode' = StatusCode
      /\ (CanImport' <=> CanImport) /\ (Room' <=> Room) /\ FreeSlots' = FreeSlots
      /\ (Rescuer' <=> Rescuer)
  BY <1>1, SameOutlook, SameRoom
<1>4. TypeOK /\ ScriptInv /\ TokenCurrent /\ ForetellInv
  BY DEF LifeInv, IInv, StatusInv
<1>5. CASE ResolveHeader
  <2>1. /\ pc = "resolve" /\ usb' = usb /\ Drive("HeaderFound")
    BY <1>2, <1>5 DEF ResolveHeader
  <2>2. pc' = "drive" /\ act' = "ReadToken"
    BY <1>4, <2>1, Driven, DriveArms DEF ScriptInv
  <2>3. AsSaid
    BY <1>2, <1>4, <2>1 DEF ForetellInv
  <2> QED BY <1>3, <2>1, <2>2, <2>3 DEF ForetellInv, HealInv, AsSaid, Writing
<1>6. CASE ReadToken
  <2>1. pc = "drive" /\ act = "ReadToken" /\ st = "HeaderReady" /\ AsSaid
    BY <1>2, <1>4, <1>6 DEF ReadToken, ScriptInv, ForetellInv
  <2>2. \/ /\ HwidIds = {} /\ token' = NoToken /\ Drive("TokenMissing")
        \/ \E t \in HwidIds :
             /\ IsLeast(t, HwidIds)
             /\ token' = tokens[t] /\ token_id' = t /\ Drive("TokenFound")
    BY <1>2, <1>6 DEF ReadToken, HeaderReadable
  <2>3. usb' = usb
    BY <1>6 DEF ReadToken
  <2>4. CASE HwidIds = {} /\ token' = NoToken /\ Drive("TokenMissing")
    <3>1. pc' = "drive" /\ act' = "SearchUsb"
      BY <2>1, <2>4, Driven, DriveArms
    <3>2. status.code = 1
      BY <2>1, <2>4 DEF AsSaid, StatusCode
    <3> QED BY <1>3, <2>1, <2>3, <2>4, <3>1, <3>2
        DEF ForetellInv, HealInv, AsSaid, Replaceable, Room, Writing
  <2>5. ASSUME NEW t \in HwidIds, IsLeast(t, HwidIds), token' = tokens[t],
               token_id' = t, Drive("TokenFound")
        PROVE  ForetellInv' /\ HealInv'
    <3>1. pc' = "drive" /\ act' = "CollectAndRecover"
      BY <2>1, <2>5, Driven, DriveArms
    <3>2. token' = Current
      BY <1>4, <2>5, LeastIsCurrent DEF TypeOK
    <3> QED BY <1>3, <2>1, <2>3, <2>5, <3>1, <3>2
        DEF ForetellInv, HealInv, AsSaid, Writing
  <2> QED BY <2>2, <2>4, <2>5
<1>7. CASE CollectAndRecover
  <2>1. /\ pc = "drive" /\ act = "CollectAndRecover" /\ st = "TokenLoaded"
        /\ AsSaid /\ HwidIds # {} /\ token = Current /\ token # NoToken
    BY <1>2, <1>4, <1>7 DEF CollectAndRecover, ScriptInv, ForetellInv
  <2>2. IF QuorumMet(token, Present) THEN Drive("QuorumMet") ELSE Drive("QuorumNotMet")
    BY <1>2, <1>7 DEF CollectAndRecover
  <2>3. UNCHANGED <<usb, token, token_id>>
    BY <1>7 DEF CollectAndRecover
  <2>4. status.code = IF QuorumMet(token, Present) THEN 0 ELSE 2
    BY <2>1 DEF AsSaid, StatusCode
  <2>5. CASE QuorumMet(token, Present)
    <3>1. pc' = "drive" /\ act' = "EmitFingerprintKey"
      BY <2>1, <2>2, <2>5, Driven, DriveArms
    <3> QED BY <2>4, <2>5, <3>1 DEF ForetellInv, HealInv, Writing
  <2>6. CASE ~QuorumMet(token, Present)
    <3>1. pc' = "drive" /\ act' = "SearchUsb"
      BY <2>1, <2>2, <2>6, Driven, DriveArms
    <3>2. token_id \in Stale
      BY <1>4, <2>1, <2>6 DEF TokenCurrent, ReplacementPending, Reading, Stale
    <3> QED BY <1>3, <2>1, <2>3, <2>4, <2>6, <3>1, <3>2
        DEF ForetellInv, HealInv, AsSaid, Replaceable, Room, Writing
  <2> QED BY <2>5, <2>6
<1>8. CASE SearchUsb
  <2>1. /\ pc = "drive" /\ act = "SearchUsb" /\ st \in {"TokenAbsent", "QuorumFailed"}
        /\ AsSaid /\ status.code # 0 /\ (status.room => Replaceable)
    BY <1>2, <1>4, <1>8 DEF SearchUsb, ScriptInv, ForetellInv
  <2>2. /\ usb' = Mounted(TRUE)
        /\ IF usb' \in {"ro", "rw"} /\ keyfile # NoKey /\ Opens(keyfile)
             THEN rescue_key' = keyfile /\ Drive("UsbKeyValid")
             ELSE Drive("UsbKeyAbsentOrInvalid")
    BY <1>2, <1>8, <2>1 DEF SearchUsb, AsSaid
  <2>3. /\ usb' = IF inserted THEN "ro" ELSE "none"
        /\ IF Rescuer THEN rescue_key' = keyfile /\ Drive("UsbKeyValid")
             ELSE Drive("UsbKeyAbsentOrInvalid")
    BY <2>2 DEF Mounted, Rescuer
  <2>4. UNCHANGED <<token, token_id>>
    BY <1>8 DEF SearchUsb
  <2>5. CASE Rescuer
    <3>1. pc' = "drive" /\ act' = "Reenroll" /\ usb' = "ro" /\ rescue_key' = keyfile
      BY <2>1, <2>3, <2>5, Driven, DriveArms DEF Rescuer
    <3>2. status.room => FreeSlots # {}
      BY <2>1 DEF AsSaid, Room
    <3> QED BY <1>1, <1>3, <2>1, <2>4, <2>5, <3>1, <3>2
        DEF ForetellInv, HealInv, Replaceable, Writing
  <2>6. CASE ~Rescuer
    <3>1. pc' = "drive" /\ act' = "Abort"
      BY <2>1, <2>3, <2>6, Driven, DriveArms
    <3> QED BY <1>3, <2>1, <2>6, <3>1 DEF ForetellInv, HealInv, Writing
  <2> QED BY <2>5, <2>6
<1> QED BY <1>5, <1>6, <1>7, <1>8

(* From the backup to the emission: the rescue key that was verified still  *)
(* opens the volume.                                                        *)
LEMMA RescueForetold ==
  ASSUME LifeInv, StatusInv, UNCHANGED <<status, enroll>>, command = "off", Steady',
         Program,
         \/ BackupHeader \/ AddNewKeyslot \/ VerifyKeyslot \/ RejectKeyslot
         \/ ImportNewToken \/ RemoveOldToken \/ RevokeOldKeyslot \/ ReenrollEnds
         \/ ReenrollFails
  PROVE  ForetellInv'
PROOF
<1> USE DEF env, ctx, enr, Executes
<1>1. UNCHANGED <<inserted, keyfile, rescue_key>>
  BY DEF BackupHeader, AddNewKeyslot, VerifyKeyslot, RejectKeyslot, ImportNewToken,
         RemoveOldToken, RevokeOldKeyslot, ReenrollEnds, ReenrollFails
<1>2. Steady /\ ScriptInv /\ ForetellInv /\ TypeOK
  BY SteadyBack DEF LifeInv, IInv, StatusInv
<1>3. /\ (pc = "drive" /\ act = "Reenroll") \/ pc \in Writing
      /\ st = "RescueAvailable" /\ act = "Reenroll"
  BY <1>2
  DEF BackupHeader, AddNewKeyslot, VerifyKeyslot, RejectKeyslot, ImportNewToken,
      RemoveOldToken, RevokeOldKeyslot, ReenrollEnds, ReenrollFails, Blocked, Writing,
      ScriptInv
<1>4. status.code # 0 /\ Rescuer /\ rescue_key = keyfile
  BY <1>2, <1>3 DEF ForetellInv
<1>5. pc' \in Writing \/ (pc' = "drive" /\ act' = "EmitRescueKey")
  <2>1. \/ pc' \in Writing
        \/ Drive("ReenrollFailed") \/ Drive("ReenrollOk")
    BY DEF BackupHeader, AddNewKeyslot, VerifyKeyslot, RejectKeyslot, ImportNewToken,
           RemoveOldToken, RevokeOldKeyslot, ReenrollEnds, ReenrollFails, Writing,
           Proceed
  <2> QED BY <1>3, <2>1, Driven, DriveArms
<1>6. KeysInv'
  BY BootLife DEF BootStep, Next, LifeInv, IInv
<1>7. Rescuer'
  BY <1>1, <1>4, <1>6 DEF KeysInv, Rescuer
<1> QED BY <1>1, <1>4, <1>5, <1>7 DEF ForetellInv, Writing

(* The end of a boot. *)
LEMMA EmitForetold ==
  ASSUME LifeInv, StatusInv, UNCHANGED status, Steady', Program,
         EmitFingerprintKey \/ EmitRescueKey \/ ExitWithError
  PROVE  ForetellInv' /\ HealInv'
PROOF
<1> USE DEF volume, env, ctx, enr, Executes
<1>1. /\ UNCHANGED <<slots, tokens, hw, inserted, keyfile, detached>>
      /\ pc' = "done" /\ pc = "drive"
  BY DEF EmitFingerprintKey, EmitRescueKey, Emit, ExitWithError
<1>2. /\ Steady /\ ~detached /\ faults' = faults
      /\ \A bad : Charge(bad) => ~bad
  BY SteadyBack DEF Steady
<1>3. Stale' = Stale /\ StatusCode' = StatusCode /\ (Rescuer' <=> Rescuer)
  BY <1>1, SameOutlook, SameRoom
<1>4. TypeOK /\ ScriptInv /\ KeysInv /\ ForetellInv /\ HealInv
  BY DEF LifeInv, IInv, StatusInv
<1>5. CASE EmitFingerprintKey
  <2>1. out' = fingerprint_key /\ act = "EmitFingerprintKey"
    BY <1>2, <1>5 DEF EmitFingerprintKey, Emit
  <2>2. status.code = 0 /\ fingerprint_key \in Secrets /\ RescueKey \notin Secrets
    BY <1>1, <1>2, <1>4, <2>1, SecretsApart
    DEF ForetellInv, TypeOK, ScriptInv, AdminKeys
  <2> QED BY <1>1, <2>1, <2>2 DEF ForetellInv, HealInv, Writing
<1>6. CASE EmitRescueKey
  <2>1. out' = rescue_key /\ act = "EmitRescueKey"
    BY <1>2, <1>6 DEF EmitRescueKey, Emit
  <2>2. status.code # 0 /\ Rescuer /\ rescue_key = keyfile /\ (status.room => Healed)
    BY <1>1, <1>2, <1>4, <2>1 DEF ForetellInv, HealInv
  <2> QED BY <1>1, <1>3, <2>1, <2>2 DEF ForetellInv, HealInv, Writing, Healed
<1>7. CASE ExitWithError
  <2>1. act = "Abort" /\ out' = out
    BY <1>2, <1>7 DEF ExitWithError
  <2>2. status.code # 0 /\ ~Rescuer /\ out = NoKey /\ NoKey # RescueKey
    BY <1>1, <1>2, <1>4, <2>1, KeyAssumption DEF ForetellInv, KeysInv, AdminKeys
  <2> QED BY <1>1, <1>3, <2>1, <2>2 DEF ForetellInv, HealInv, Writing
<1> QED BY <1>5, <1>6, <1>7

(* A re-enrollment nothing disturbs, command by command. *)
LEMMA ReenrollHeals ==
  ASSUME LifeInv, StatusInv, UNCHANGED status, Steady', Program,
         \/ BackupHeader \/ AddNewKeyslot \/ VerifyKeyslot \/ RejectKeyslot
         \/ ImportNewToken \/ RemoveOldToken \/ RevokeOldKeyslot \/ ReenrollEnds
         \/ ReenrollFails
  PROVE  HealInv'
PROOF
<1> USE DEF volume, env, ctx, enr, Executes
<1> SUFFICES ASSUME status.room PROVE HealInv'
  BY DEF HealInv
<1>1. /\ UNCHANGED <<hw, inserted, keyfile, detached, token, token_id>>
  BY DEF BackupHeader, AddNewKeyslot, VerifyKeyslot, RejectKeyslot, ImportNewToken,
         RemoveOldToken, RevokeOldKeyslot, ReenrollEnds, ReenrollFails
<1>2. /\ Steady /\ ~detached /\ faults' = faults
      /\ \A bad : Charge(bad) => ~bad
  BY SteadyBack DEF Steady
<1>3. TypeOK /\ VolumeTypeOK /\ ScriptInv /\ TokensBacked /\ ForetellInv /\ HealInv
  BY DEF LifeInv, IInv, StatusInv, TypeOK
<1>4. UNCHANGED tokens =>
        /\ HwidIds' = HwidIds /\ Present' = Present /\ Stale' = Stale
        /\ StatusCode' = StatusCode /\ (CanImport' <=> CanImport)
  BY <1>1, SameOutlook
<1>5. st = "RescueAvailable"
  BY <1>3
  DEF BackupHeader, AddNewKeyslot, VerifyKeyslot, RejectKeyslot, ImportNewToken,
      RemoveOldToken, RevokeOldKeyslot, ReenrollEnds, ReenrollFails, Blocked, Writing,
      ScriptInv
<1>6. CASE BackupHeader
  <2>1. /\ pc = "drive" /\ act = "Reenroll" /\ pc' = "enroll" /\ StickReadable'
        /\ UNCHANGED <<slots, tokens>>
    BY <1>2, <1>6 DEF BackupHeader, KeyfileReadable, StickReadable
  <2>2. Replaceable /\ FreeSlots # {} /\ FreeSlots' = FreeSlots
    BY <1>1, <1>2, <1>3, <2>1, SameRoom DEF HealInv
  <2> QED BY <1>1, <1>4, <2>1, <2>2 DEF HealInv, Replaceable, Writing, StickReadable
<1>7. CASE AddNewKeyslot
  <2>1. PICK secret \in Secrets, s \in FreeSlots :
          /\ SetSlot(s, secret) /\ slot' = s /\ pc' = "verify"
          /\ meta'.ids = Truncate(Present) /\ meta'.secret = secret
    <3>1. PICK late \in Unseen, good \in BOOLEAN, ok \in BOOLEAN,
               secret \in Secrets :
            /\ Charge(late # {} \/ ~good \/ ~ok)
            /\ meta' = [keyslots |-> {}, secret |-> secret,
                        ids |-> Truncate(Present \ late),
                        k |-> DefaultThreshold(Cardinality(Truncate(Present \ late)))]
            /\ \E s \in FreeSlots :
                 /\ AddKeyslot(s, IF good THEN secret ELSE Garbage)
                 /\ slot' = s
            /\ Proceed(ok, "verify")
      BY <1>7 DEF AddNewKeyslot
    <3>2. late = {} /\ good /\ ok
      BY <1>2, <3>1
    <3> QED BY <3>1, <3>2 DEF AddKeyslot, Proceed
  <2>2. pc = "enroll" /\ Replaceable /\ StickReadable /\ usb' = usb
    BY <1>2, <1>3, <1>7 DEF AddNewKeyslot, HealInv, Writing
  <2>3. tokens' = tokens /\ slots'[slot'] = meta'.secret
    BY <1>3, <2>1 DEF SetSlot, VolumeTypeOK, FreeSlots
  <2> QED BY <1>1, <1>4, <2>1, <2>2, <2>3 DEF HealInv, Replaceable, Writing, StickReadable
<1>8. CASE VerifyKeyslot
  <2>1. /\ pc = "verify" /\ pc' = "import" /\ meta \in Metadata
        /\ meta' = [meta EXCEPT !.keyslots = {slot}]
        /\ UNCHANGED <<slots, tokens, slot, usb>>
    BY <1>8 DEF VerifyKeyslot, LifeInv, IInv, NewKeyslotInv
  <2>2. meta'.ids = meta.ids /\ meta'.secret = meta.secret
    BY <2>1 DEF Metadata
  <2>3. /\ Replaceable /\ slots[slot] = meta.secret /\ meta.ids = Truncate(Present)
        /\ StickReadable
    BY <1>2, <1>3, <2>1 DEF HealInv, Writing
  <2> QED BY <1>1, <1>4, <2>1, <2>2, <2>3 DEF HealInv, Replaceable, Writing, StickReadable
<1>9. CASE RejectKeyslot
  <2>1. pc = "verify" /\ ~(HeaderReadable /\ Opens(meta.secret))
    BY <1>2, <1>9 DEF RejectKeyslot
  <2>2. slots[slot] = meta.secret /\ slot \in SlotIds
    BY <1>2, <1>3, <2>1 DEF HealInv, LifeInv, IInv, NewKeyslotInv
  <2> QED BY <1>2, <2>1, <2>2 DEF HeaderReadable, Opens
<1>10. CASE ImportNewToken
  <2>1. PICK t \in FreeTokenIds :
          /\ ImportToken(t, meta)
          /\ pc' = IF token = NoToken THEN "revoke" ELSE "remove"
    <3>1. PICK t \in FreeTokenIds, ok \in BOOLEAN :
            /\ Charge(~ok) /\ ImportToken(t, meta)
            /\ Proceed(ok, IF token = NoToken THEN "revoke" ELSE "remove")
      BY <1>10 DEF ImportNewToken
    <3> QED BY <1>2, <3>1 DEF Proceed
  <2>2. /\ pc = "import" /\ StickReadable /\ usb' = usb
        /\ Replaceable /\ meta.ids = Truncate(Present)
    BY <1>2, <1>3, <1>10 DEF ImportNewToken, HealInv, Writing
  <2>3. /\ slot \in SlotIds /\ meta \in Metadata /\ slots[slot] = meta.secret
        /\ meta.keyslots = {slot} /\ meta.k <= Cardinality(meta.ids)
    BY <2>2 DEF LifeInv, IInv, NewKeyslotInv, PendingInv, Recovers
  <2>4. /\ t \notin HwidIds /\ HwidIds' = HwidIds \cup {t} /\ tokens'[t] = meta
        /\ \A u \in HwidIds : tokens'[u] = tokens[u]
    BY <1>3, <2>1, <2>3, ImportBacks
  <2>5. Present' = Present
    BY <1>1 DEF Present
  <2>6. QuorumMet(meta, Present)
    <3>1. meta.ids \cap Present = meta.ids
      BY <2>2 DEF Truncate
    <3> QED BY <2>3, <3>1 DEF QuorumMet
  <2>7. Stale' = Stale
    BY <2>4, <2>5, <2>6 DEF Stale
  <2>8. CASE token = NoToken
    <3>1. HwidIds' = {t}
      BY <2>2, <2>4, <2>8 DEF Replaceable
    <3>2. Current' = meta
      <4>1. (CHOOSE x \in {t} : \A y \in {t} : x <= y) = t
        <5>1. t <= t
          BY <2>1, SizeAssumption DEF FreeTokenIds, SlotIds
        <5>2. \E x \in {t} : \A y \in {t} : x <= y
          BY <5>1
        <5> QED BY <5>2
      <4> QED BY <2>4, <3>1, <4>1 DEF Current
    <3>3. StatusCode' = 0
      BY <2>5, <2>6, <3>1, <3>2 DEF StatusCode
    <3> QED BY <2>1, <2>8, <3>3 DEF HealInv, Healed, Writing
  <2>9. CASE token # NoToken
    BY <1>1, <2>1, <2>2, <2>7, <2>9 DEF HealInv, Replaceable, Writing, StickReadable
  <2> QED BY <2>8, <2>9
<1>11. CASE RemoveOldToken
  <2>1. /\ pc = "remove" /\ pc' = "revoke" /\ RemoveToken(token_id)
    <3>1. PICK ok \in BOOLEAN : Charge(~ok) /\ Proceed(ok, "revoke")
      BY <1>11 DEF RemoveOldToken
    <3> QED BY <1>2, <1>11, <3>1 DEF RemoveOldToken, Proceed
  <2>2. token_id \in Stale /\ Cardinality(Stale) = status.stale
    BY <1>2, <1>3, <2>1 DEF HealInv
  <2>3. /\ HwidIds' = HwidIds \ {token_id}
        /\ \A u \in HwidIds \ {token_id} : tokens'[u] = tokens[u]
    BY <1>3, <2>1, <2>2, RemoveBacks DEF Stale
  <2>4. Stale' = Stale \ {token_id}
    BY <1>1, <2>3 DEF Stale, Present
  <2>5. IsFiniteSet(Stale)
    <3>1. Stale \subseteq 0 .. (MAX_SLOTS - 1) /\ IsFiniteSet(0 .. (MAX_SLOTS - 1))
      BY SizeAssumption, FS_Interval DEF Stale, HwidIds, SlotIds
    <3> QED BY <3>1, FS_Subset
  <2>6. /\ Cardinality(Stale \ {token_id}) = Cardinality(Stale) - 1
        /\ Cardinality(Stale) \in Nat
    BY <2>2, <2>5, FS_RemoveElement, FS_CardinalityType
  <2>7. Cardinality(Stale') < status.stale
    BY <2>2, <2>4, <2>6
  <2> QED BY <2>1, <2>7 DEF HealInv, Healed, Writing
<1>12. CASE RevokeOldKeyslot \/ ReenrollEnds
  <2>1. pc = "revoke" /\ tokens' = tokens
    BY <1>12 DEF RevokeOldKeyslot, KillSlot, SetSlot, ReenrollEnds
  <2>2. pc' = "revoke" \/ (pc' = "drive" /\ act' = "EmitRescueKey")
    BY <1>5, <1>12, Driven, DriveArms, <2>1 DEF RevokeOldKeyslot, ReenrollEnds, Proceed
  <2>3. usb' = usb
    BY <1>12 DEF RevokeOldKeyslot, ReenrollEnds
  <2> QED BY <1>2, <1>3, <1>4, <2>1, <2>2, <2>3 DEF HealInv, Healed, Writing
<1>13. CASE ReenrollFails
  <2>1. Blocked /\ UNCHANGED tokens
    BY <1>2, <1>13 DEF ReenrollFails
  <2>2. (pc = "drive" /\ act = "Reenroll") \/ pc \in Writing
    BY <2>1 DEF Blocked, Writing
  <2>3. Rescuer
    BY <1>2, <1>3, <2>2 DEF ForetellInv
  <2>4. Cardinality(Truncate(Present)) \in Nat
    BY <1>3, IdAssumption, TruncateType DEF TypeOK, Present
  <2>5. pc = "revoke"
    BY <1>2, <1>3, <2>1, <2>3, <2>4
    DEF Blocked, HealInv, Writing, Replaceable, Rescuer, KeyfileReadable,
        StickReadable, HeaderReadable, HeaderWritable, Authorized
  <2>6. pc' = "drive" /\ act' = "EmitRescueKey"
    BY <1>5, <1>13, Driven, DriveArms DEF ReenrollFails
  <2> QED BY <1>2, <1>3, <1>4, <2>1, <2>5, <2>6 DEF HealInv, Healed, Writing
<1> QED BY <1>6, <1>7, <1>8, <1>9, <1>10, <1>11, <1>12, <1>13

(* A step of the boot. *)
LEMMA ProgramForetold ==
  ASSUME LifeInv, StatusInv, BootGoesOn
  PROVE  StatusInv'
PROOF
<1>1. Program /\ command = "off" /\ UNCHANGED <<status, enroll>>
  BY DEF BootGoesOn
<1>2. Steady' => ForetellInv' /\ HealInv'
  BY <1>1, SearchForetold, RescueForetold, EmitForetold, ReenrollHeals DEF Program
<1>3. ~Steady' => ForetellInv' /\ HealInv'
  BY DEF ForetellInv, HealInv
<1>4. pc' # "off" => status'.faults \in Nat /\ status'.faults <= faults'
  <2>1. (\E bad : Charge(bad)) \/ faults' = faults
    BY <1>1
    DEF Program, ResolveHeader, ReadToken, CollectAndRecover, SearchUsb,
        BackupHeader, AddNewKeyslot, VerifyKeyslot, RejectKeyslot, ImportNewToken,
        RemoveOldToken, RevokeOldKeyslot, ReenrollEnds, ReenrollFails,
        EmitFingerprintKey, EmitRescueKey, Emit, ExitWithError
  <2>2. pc # "off"
    BY <1>1
    DEF Program, ResolveHeader, ReadToken, CollectAndRecover, SearchUsb,
        BackupHeader, AddNewKeyslot, VerifyKeyslot, RejectKeyslot, ImportNewToken,
        RemoveOldToken, RevokeOldKeyslot, ReenrollEnds, ReenrollFails, Blocked,
        EmitFingerprintKey, EmitRescueKey, Emit, ExitWithError, Executes
  <2>3. faults \in Nat /\ status.faults \in Nat /\ status.faults <= faults
    BY <2>2 DEF LifeInv, IInv, TypeOK, StatusInv
  <2> QED BY <1>1, <2>1, <2>3 DEF Charge
<1>5. pc' # "off"
  <2>1. \/ pc' \in {"done", "enroll", "verify", "import", "remove", "revoke"}
        \/ \E ev : Drive(ev)
    BY <1>1
    DEF Program, ResolveHeader, ReadToken, CollectAndRecover, SearchUsb,
        BackupHeader, AddNewKeyslot, VerifyKeyslot, RejectKeyslot, ImportNewToken,
        RemoveOldToken, RevokeOldKeyslot, ReenrollEnds, ReenrollFails, Proceed,
        EmitFingerprintKey, EmitRescueKey, Emit, ExitWithError
  <2> QED BY <2>1, Driven
<1> QED BY <1>2, <1>3, <1>4, <1>5 DEF StatusInv

(* One step: status is asked when a boot begins, and only that boot is      *)
(* bound by it.                                                             *)
LEMMA LifeForetold ==
  ASSUME LifeInv, StatusInv, [LifeNext]_all
  PROVE  StatusInv'
PROOF
<1>1. CASE BootBegins
  <2>1. /\ pc' = "resolve" /\ status' = Snapshot
        /\ UNCHANGED <<slots, tokens, hw, inserted, keyfile, usb, faults>>
    BY <1>1 DEF BootBegins, PowerOn, volume, env, ctx
  <2>2. faults \in Nat /\ usb = "none"
    BY <1>1 DEF LifeInv, IInv, TypeOK, BootBegins, PowerOn, StatusInv
  <2>3. /\ status'.code = StatusCode' /\ status'.stale = Cardinality(Stale)'
        /\ (status'.room <=> Room') /\ status'.faults = faults'
    BY <2>1, SameOutlook, SameRoom DEF Snapshot
  <2> QED BY <2>1, <2>2, <2>3
      DEF StatusInv, ForetellInv, HealInv, AsSaid, Executes, Writing
<1>2. CASE BootGoesOn
  BY <1>2, ProgramForetold
<1>3. CASE BootEnds \/ EnrollRuns \/ Administers \/ HardwareChanges
  <2>1. pc' = "off"
    BY <1>3
    DEF BootEnds, PowerOff, PowerCut, Reset, EnrollRuns, Administers, HardwareChanges,
        Between, boot, SwapHardware, InsertStick, PullStick
  <2>2. usb' = "none"
    <3>1. pc = "off" \/ usb' = "none"
      BY <1>3 DEF BootEnds, PowerOff, PowerCut, Reset, EnrollRuns, Administers,
                  HardwareChanges, Between
    <3>2. CASE pc = "off"
      BY <1>3, <3>2
      DEF StatusInv, BootEnds, PowerOff, PowerCut, Reset, EnrollRuns, Administers,
          HardwareChanges, boot, ctx, SwapHardware, InsertStick, PullStick
    <3> QED BY <3>1, <3>2
  <2> QED BY <2>1, <2>2 DEF StatusInv, ForetellInv, HealInv, Steady
<1>4. CASE UNCHANGED all
  <2>1. /\ UNCHANGED <<slots, tokens, hw, inserted, keyfile, detached, faults, pc, act,
                       usb, token, token_id, rescue_key, slot, meta, out, status>>
    BY <1>4 DEF all, vars, env, ctx, enr
  <2>2. /\ HwidIds' = HwidIds /\ Present' = Present /\ Stale' = Stale
        /\ Current' = Current /\ StatusCode' = StatusCode
        /\ (CanImport' <=> CanImport) /\ (Room' <=> Room) /\ FreeSlots' = FreeSlots
        /\ (Rescuer' <=> Rescuer)
    BY <2>1, SameOutlook, SameRoom
  <2>3. /\ AsSaid => AsSaid'
        /\ Replaceable => Replaceable'
        /\ Healed => Healed'
        /\ Steady' => Steady
    BY <2>1, <2>2 DEF AsSaid, Replaceable, Healed, Steady
  <2> QED
    BY <2>1, <2>2, <2>3
    DEF StatusInv, ForetellInv, HealInv, Executes, Writing, StickReadable
<1> QED BY <1>1, <1>2, <1>3, <1>4 DEF LifeNext

THEOREM StatusInvariance == LifeSpec => []StatusInv
PROOF
<1>1. LifeInit => StatusInv
  BY DEF LifeInit, Init, StatusInv, ForetellInv, HealInv, Steady
<1>2. LifeInv /\ StatusInv /\ [LifeNext]_all => StatusInv'
  BY LifeForetold
<1> QED BY LifeInvariance, <1>1, <1>2, PTL DEF LifeSpec

(* What status says of a volume whose header is attached is what the next   *)
(* boot does, as long as nothing goes wrong in it: it emits the             *)
(* fingerprint's key, the rescue key or none.                               *)
THEOREM StatusIsTrue == LifeSpec => [](~detached => StatusForetellsBoot)
PROOF
<1>1. StatusInv => (~detached => StatusForetellsBoot)
  BY DEF StatusInv, ForetellInv, HealInv, Steady, StatusForetellsBoot,
         Undisturbed, Rescuer, Executes, Writing
<1> QED BY StatusInvariance, <1>1, PTL

(* A boot that had to use the rescue key, and had what a re-enrollment      *)
(* takes, leaves a volume that boots by itself the next time, or one with   *)
(* one token of another machine fewer.                                      *)
THEOREM RescueHeals == LifeSpec => [](~detached => RescueBootHeals)
PROOF
<1>1. StatusInv => (~detached => RescueBootHeals)
  BY DEF StatusInv, ForetellInv, HealInv, Steady, RescueBootHeals,
         Undisturbed, Rescuer, Healed, Executes, Writing
<1> QED BY StatusInvariance, <1>1, PTL
=============================================================================
