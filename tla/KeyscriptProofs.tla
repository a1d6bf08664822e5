-------------------------- MODULE KeyscriptProofs --------------------------
(***************************************************************************)
(* Proofs about the boot path, for every value of the constants: any       *)
(* number of keyslots, identifiers, faults and changes of hardware.        *)
(*                                                                         *)
(* The argument: IInv is inductive.  Its conjuncts are proved              *)
(* action by action, those that leave the volume alone and those of        *)
(* reenroll() that write it.                                               *)
(*                                                                         *)
(* The boot path implements FingerprintStore: a write to a keyslot or to a *)
(* token is a step of the store because of what IInv says after it:        *)
(* whatever is published still opens.                                      *)
(*                                                                         *)
(* A keyslot more than the fingerprint in use needs a fault of its own,    *)
(* and every way out of reenroll() before its end is charged to one.       *)
(* LeakInv says so of each point of reenroll(); it is inductive next to    *)
(* IInv when the header has room for the tokens faults may leave.          *)
(***************************************************************************)
EXTENDS Keyscript, VolumeProofs

-----------------------------------------------------------------------------
(* The inductive invariant behind the safety properties. *)

Writing == {"enroll", "verify", "import", "remove", "revoke"}

(* The state of fsm in which the driver executes an action. *)
ScriptInv ==
  /\ pc = "off"     => act = "None"
  /\ pc \in {"off", "resolve"} => st = "Init"
  /\ pc \in Writing => st = "RescueAvailable" /\ act = "Reenroll"
  /\ pc = "drive" =>
       \/ act = "ReadToken" /\ st = "HeaderReady"
       \/ act = "CollectAndRecover" /\ st = "TokenLoaded" /\ token # NoToken
       \/ act = "SearchUsb" /\ st \in {"TokenAbsent", "QuorumFailed"}
       \/ act = "Reenroll" /\ st = "RescueAvailable" /\ usb # "none"
       \/ act = "EmitFingerprintKey" /\ st = "Done" /\ fingerprint_key # NoKey
       \/ act = "EmitRescueKey" /\ st = "Done" /\ rescue_key # NoKey
       \/ act = "Abort" /\ st \in {"NoHeader", "NoUsableKey"}
  /\ st # "Internal"
  /\ pc \in Writing => saved /\ rescue_key # NoKey
  /\ pc = "drive" /\ act = "Reenroll" => rescue_key # NoKey

(* Tokens tell their secrets apart. *)
DistinctSecrets ==
  \A t, u \in HwidIds : tokens[t].secret = tokens[u].secret => t = u

(* Before anything is removed, ctx.token is what the header holds. *)
Reading == {"CollectAndRecover", "SearchUsb", "Reenroll"}

ReplacementPending ==
  pc \in Writing \ {"revoke"} \/ (pc = "drive" /\ act \in Reading)

TokenCurrent ==
  token # NoToken /\ ReplacementPending
    => token_id \in HwidIds /\ tokens[token_id] = token

(* The keyslot under way belongs to no token; it holds the new secret, or   *)
(* something that does not open, until it is verified.                      *)
NewKeyslotInv ==
  /\ pc \in {"verify", "import"} =>
       /\ slot \in SlotIds /\ meta \in Metadata
       /\ slots[slot] \in {meta.secret, Garbage}
       /\ \A s \in SlotIds : slots[s] = meta.secret => s = slot
       /\ \A t \in HwidIds : tokens[t].secret # meta.secret
       /\ token # NoToken => token.secret # meta.secret
  /\ pc = "import" => slots[slot] = meta.secret /\ meta.keyslots = {slot}

(* The new token is in place before the old one goes. *)
NewTokenInv ==
  pc = "remove" =>
    /\ slot \in SlotIds /\ meta \in Metadata /\ token # NoToken
    /\ slots[slot] = meta.secret
    /\ \E t \in HwidIds : tokens[t] = meta
    /\ token.secret # meta.secret

(* Only keyslots of the removed token are revoked. *)
RevokeInv ==
  /\ revoke # {} =>
       pc = "revoke" \/ (pc \in {"drive", "done"} /\ act = "EmitRescueKey")
  /\ pc = "revoke" =>
       \A s \in revoke : /\ slots[s] \notin AdminKeys
                         /\ \A t \in HwidIds : s \notin tokens[t].keyslots

(* The keys at hand open the volume. *)
KeysInv ==
  /\ rescue_key # NoKey => Opens(rescue_key)
  /\ fingerprint_key # NoKey =>
       Opens(fingerprint_key) /\ pc \in {"drive", "done"} /\ act = "EmitFingerprintKey"
  /\ out # NoKey => Opens(out) /\ pc = "done"

(* What a replacement has retired, and what it has yet to revoke. *)
ReplacedInv ==
  pc = "revoke" /\ token # NoToken =>
    /\ tokens[token_id] # token
    /\ \A s \in token.keyslots : s \in revoke \/ slots[s] # token.secret

(* A verified rescue key leads to its emission. *)
RescueInv ==
  rescue_key # NoKey =>
    /\ pc \in Writing \cup {"drive", "done"}
    /\ act \in {"Reenroll", "EmitRescueKey"}
    /\ pc = "done" => act = "EmitRescueKey"

IInv ==
  /\ TypeOK
  /\ ScriptInv
  /\ TokensBacked
  /\ DistinctSecrets
  /\ TokenCurrent
  /\ NewKeyslotInv
  /\ NewTokenInv
  /\ RevokeInv
  /\ KeysInv
  /\ ReplacedInv
  /\ RescueInv
-----------------------------------------------------------------------------
(* The transition table. *)

(* An arm that exists is the one taken. *)
LEMMA ArmTaken ==
  ASSUME NEW s, NEW e, NEW n, NEW a, NEW n1, NEW a1,
         <<s, e, n1, a1>> \in Transitions, Step(s, e, n, a)
  PROVE  n = n1 /\ a = a1
PROOF
<1> USE DEF Transitions, HeaderArms, TokenArms, UsbArms, ReenrollArms
<1>1. n1 \in St /\ a1 \in Action
  BY DEF St, FailReason, Action
<1>2. ~Unexpected(s, e)
  BY <1>1 DEF Unexpected
<1>3. <<s, e, n, a>> \in Transitions
  BY <1>2 DEF Step
<1> QED BY <1>3

(* What feeding an event does. *)
LEMMA Driven ==
  ASSUME NEW ev, Drive(ev)
  PROVE  /\ pc' = "drive" /\ st' \in St /\ act' \in Action
         /\ \A n, a : <<st, ev, n, a>> \in Transitions => st' = n /\ act' = a
PROOF BY ArmTaken DEF Drive

(* Which state and action each event leads to, arm by arm. *)
LEMMA DriveArms ==
  /\ Drive("HeaderFound") /\ st = "Init"
       => st' = "HeaderReady" /\ act' = "ReadToken"
  /\ Drive("TokenFound") /\ st = "HeaderReady"
       => st' = "TokenLoaded" /\ act' = "CollectAndRecover"
  /\ Drive("TokenMissing") /\ st = "HeaderReady"
       => st' = "TokenAbsent" /\ act' = "SearchUsb"
  /\ Drive("QuorumMet") /\ st = "TokenLoaded"
       => st' = "Done" /\ act' = "EmitFingerprintKey"
  /\ Drive("QuorumNotMet") /\ st = "TokenLoaded"
       => st' = "QuorumFailed" /\ act' = "SearchUsb"
  /\ Drive("UsbKeyValid") /\ st \in {"TokenAbsent", "QuorumFailed"}
       => st' = "RescueAvailable" /\ act' = "Reenroll"
  /\ Drive("UsbKeyAbsentOrInvalid") /\ st \in {"TokenAbsent", "QuorumFailed"}
       => st' = "NoUsableKey" /\ act' = "Abort"
  /\ Drive("ReenrollOk") /\ st = "RescueAvailable"
       => st' = "Done" /\ act' = "EmitRescueKey"
  /\ Drive("ReenrollFailed") /\ st = "RescueAvailable"
       => st' = "Done" /\ act' = "EmitRescueKey"
PROOF
<1> USE DEF Transitions, HeaderArms, TokenArms, UsbArms, ReenrollArms
<1>1. Drive("HeaderFound") /\ st = "Init"
       => st' = "HeaderReady" /\ act' = "ReadToken"
  BY Driven
<1>2. Drive("TokenFound") /\ st = "HeaderReady"
       => st' = "TokenLoaded" /\ act' = "CollectAndRecover"
  BY Driven
<1>3. Drive("TokenMissing") /\ st = "HeaderReady"
       => st' = "TokenAbsent" /\ act' = "SearchUsb"
  BY Driven
<1>4. Drive("QuorumMet") /\ st = "TokenLoaded"
       => st' = "Done" /\ act' = "EmitFingerprintKey"
  BY Driven
<1>5. Drive("QuorumNotMet") /\ st = "TokenLoaded"
       => st' = "QuorumFailed" /\ act' = "SearchUsb"
  BY Driven
<1>6. Drive("UsbKeyValid") /\ st \in {"TokenAbsent", "QuorumFailed"}
       => st' = "RescueAvailable" /\ act' = "Reenroll"
  BY Driven
<1>7. Drive("UsbKeyAbsentOrInvalid") /\ st \in {"TokenAbsent", "QuorumFailed"}
       => st' = "NoUsableKey" /\ act' = "Abort"
  BY Driven
<1>8. Drive("ReenrollOk") /\ st = "RescueAvailable"
       => st' = "Done" /\ act' = "EmitRescueKey"
  BY Driven
<1>9. Drive("ReenrollFailed") /\ st = "RescueAvailable"
       => st' = "Done" /\ act' = "EmitRescueKey"
  BY Driven
<1> QED BY <1>1, <1>2, <1>3, <1>4, <1>5, <1>6, <1>7, <1>8, <1>9
-----------------------------------------------------------------------------
(* Type correctness. *)

(* Charging a fault keeps the fault count within its bound. *)
LEMMA ChargeType ==
  ASSUME NEW b, faults \in 0..MaxFaults, Charge(b)
  PROVE  faults' \in 0..MaxFaults
PROOF BY SiteAssumption DEF Charge

(* The result of a command of reenroll() keeps pc, st and act typed. *)
LEMMA ProceedType ==
  ASSUME NEW ok, NEW next \in Pc, Proceed(ok, next),
         st \in St, act \in Action \cup {"None"}
  PROVE  st' \in St /\ act' \in Action \cup {"None"} /\ pc' \in Pc
PROOF BY Driven DEF Proceed, Pc

(* The metadata of a new enrollment are metadata. *)
LEMMA NewMetadata ==
  ASSUME NEW S \in SUBSET Ids, NEW secret \in Secrets, NEW K \in SUBSET SlotIds
  PROVE  [keyslots |-> K, secret |-> secret, ids |-> Truncate(S),
          k |-> DefaultThreshold(Cardinality(Truncate(S)))] \in Metadata
PROOF
<1>1. Truncate(S) \in SUBSET Ids
  BY DEF Truncate
<1>2. Cardinality(Truncate(S)) \in Nat
  BY <1>1, IdAssumption, FS_Subset, FS_CardinalityType
<1>3. DefaultThreshold(Cardinality(Truncate(S))) \in Nat
  BY <1>2 DEF DefaultThreshold
<1> QED BY <1>1, <1>3 DEF Metadata

(* The initial states are typed. *)
LEMMA InitType == Init => TypeOK
PROOF
<1> SUFFICES ASSUME Init PROVE TypeOK
  OBVIOUS
<1>1. VolumeTypeOK
  BY SiteAssumption DEF Init, VolumeTypeOK, AdminKeys
<1>2. swaps \in 0..MaxSwaps /\ faults \in 0..MaxFaults
  BY SiteAssumption DEF Init
<1>3. hw \in SUBSET Ids /\ keyfile \in {RescueKey, NoKey} /\ detached \in BOOLEAN
  BY SiteAssumption DEF Init
<1> QED BY <1>1, <1>2, <1>3 DEF Init, TypeOK, Pc, St, Usb

(* A step keeps the types.  It takes more of IInv than TypeOK: that a token *)
(* is there when its secret is read, and metadata when they are written.    *)
LEMMA TypeStep ==
  ASSUME IInv, Next
  PROVE  TypeOK'
PROOF
<1> USE DEF volume, env, ctx, enr
<1> TypeOK /\ ScriptInv /\ NewKeyslotInv
  BY DEF IInv
<1> USE DEF TypeOK
<1>0. UNCHANGED volume => VolumeTypeOK'
  BY DEF VolumeTypeOK
<1>1. CASE ResolveHeader
  <2>1. faults' \in 0..MaxFaults /\ usb' \in Usb
    BY <1>1, ChargeType DEF ResolveHeader, Mounted, Usb
  <2>2. pc' \in Pc /\ st' \in St /\ act' \in Action
    BY <1>1, Driven DEF ResolveHeader, Pc
  <2> QED BY <1>0, <1>1, <2>1, <2>2 DEF ResolveHeader
<1>2. CASE ReadToken
  <2>1. faults' \in 0..MaxFaults
    BY <1>2, ChargeType DEF ReadToken
  <2>2. pc' \in Pc /\ st' \in St /\ act' \in Action
    BY <1>2, Driven DEF ReadToken, Pc
  <2>3. token' \in Metadata \cup {NoToken} /\ token_id' \in SlotIds \cup {NoId}
    BY <1>2, HwidTokens DEF ReadToken
  <2> QED BY <1>0, <1>2, <2>1, <2>2, <2>3 DEF ReadToken
<1>3. CASE CollectAndRecover
  <2>1. faults' \in 0..MaxFaults
    BY <1>3, ChargeType DEF CollectAndRecover
  <2>2. pc' \in Pc /\ st' \in St /\ act' \in Action
    BY <1>3, Driven DEF CollectAndRecover, Pc
  <2>3. token \in Metadata
    BY <1>3 DEF CollectAndRecover, Executes, ScriptInv
  <2>4. fingerprint_key' \in Secrets \cup {NoKey}
    BY <1>3, <2>3 DEF CollectAndRecover, Metadata
  <2> QED BY <1>0, <1>3, <2>1, <2>2, <2>4 DEF CollectAndRecover
<1>4. CASE SearchUsb
  <2>1. faults' \in 0..MaxFaults /\ usb' \in Usb
    BY <1>4, ChargeType DEF SearchUsb, Mounted, Usb
  <2>2. pc' \in Pc /\ st' \in St /\ act' \in Action
    BY <1>4, Driven DEF SearchUsb, Pc
  <2>3. rescue_key' \in {RescueKey, NoKey}
    BY <1>4 DEF SearchUsb
  <2> QED BY <1>0, <1>4, <2>1, <2>2, <2>3 DEF SearchUsb
<1>5. CASE BackupHeader
  <2>1. faults' \in 0..MaxFaults /\ usb' \in Usb
    BY <1>5 DEF BackupHeader, Usb
  <2> QED BY <1>0, <1>5, <2>1 DEF BackupHeader, Pc
<1>6. CASE VerifyKeyslot
  <2>1. meta' \in Metadata
    BY <1>6 DEF VerifyKeyslot, NewKeyslotInv, Metadata
  <2> QED BY <1>0, <1>6, <2>1 DEF VerifyKeyslot, Pc
<1>7. CASE ReenrollEnds \/ ReenrollFails
  <2>1. faults' \in 0..MaxFaults
    BY <1>7, ChargeType DEF ReenrollEnds, ReenrollFails
  <2>2. pc' \in Pc /\ st' \in St /\ act' \in Action
    BY <1>7, Driven DEF ReenrollEnds, ReenrollFails, Pc
  <2> QED BY <1>0, <1>7, <2>1, <2>2 DEF ReenrollEnds, ReenrollFails
<1>8. CASE EmitFingerprintKey \/ EmitRescueKey
  <2>1. faults' \in 0..MaxFaults
    BY <1>8, ChargeType DEF EmitFingerprintKey, EmitRescueKey, Emit
  <2>2. out' \in AdminKeys \cup Secrets \cup {NoKey}
    BY <1>8 DEF EmitFingerprintKey, EmitRescueKey, Emit, AdminKeys
  <2> QED BY <1>0, <1>8, <2>1, <2>2 DEF EmitFingerprintKey, EmitRescueKey, Emit, Pc
<1>9. CASE ExitWithError
  <2>1. faults' \in 0..MaxFaults
    BY <1>9, ChargeType DEF ExitWithError
  <2> QED BY <1>0, <1>9, <2>1 DEF ExitWithError, Pc
<1>10. CASE PowerOn
  BY <1>0, <1>10 DEF PowerOn, Pc
<1>11. CASE PowerOff \/ PowerCut
  <2>1. faults' \in 0..MaxFaults
    BY <1>11, ChargeType DEF PowerOff, PowerCut
  <2>2. Reset
    BY <1>11 DEF PowerOff, PowerCut
  <2> QED BY <1>0, <2>1, <2>2 DEF Reset, Pc, St, Usb
<1>12. CASE SwapHardware
  <2>1. hw' \in SUBSET Ids /\ swaps' \in 0..MaxSwaps
    BY <1>12, SiteAssumption DEF SwapHardware
  <2> QED BY <1>0, <1>12, <2>1 DEF SwapHardware
<1>13. CASE InsertStick
  BY <1>0, <1>13 DEF InsertStick
<1>14. CASE PullStick
  <2>1. faults' \in 0..MaxFaults
    BY <1>14, ChargeType DEF PullStick
  <2>2. usb' \in Usb
    BY <1>14 DEF PullStick, Usb
  <2>3. /\ inserted' = FALSE /\ volume' = volume /\ enr' = enr
        /\ UNCHANGED <<hw, swaps, keyfile, detached, pc, st, act, token_id, token,
                       fingerprint_key, rescue_key, out>>
    BY <1>14 DEF PullStick
  <2> QED BY <1>0, <2>1, <2>2, <2>3
<1>15. CASE AddNewKeyslot
  <2>1. faults' \in 0..MaxFaults
    BY <1>15, ChargeType DEF AddNewKeyslot
  <2>2. pc' \in Pc /\ st' \in St /\ act' \in Action \cup {"None"}
    BY <1>15, ProceedType DEF AddNewKeyslot, Pc
  <2>3. meta' \in Metadata
    <3>1. PICK late \in Unseen, secret \in Secrets :
            meta' = [keyslots |-> {}, secret |-> secret,
                     ids |-> Truncate(Present \ late),
                     k |-> DefaultThreshold(Cardinality(Truncate(Present \ late)))]
      BY <1>15 DEF AddNewKeyslot
    <3>2. Present \ late \in SUBSET Ids
      BY IdAssumption DEF Present
    <3> QED BY <3>1, <3>2, NewMetadata
  <2>4. VolumeTypeOK' /\ slot' \in SlotIds
    <3>1. PICK s \in FreeSlots, key \in Secrets \cup {Garbage} :
            SetSlot(s, key) /\ slot' = s
      BY <1>15 DEF AddNewKeyslot, AddKeyslot
    <3> QED BY <3>1, SetSlotType DEF FreeSlots
  <2> QED BY <1>15, <2>1, <2>2, <2>3, <2>4 DEF AddNewKeyslot
<1>16. CASE RejectKeyslot
  <2>1. faults' \in 0..MaxFaults
    BY <1>16, ChargeType DEF RejectKeyslot
  <2>2. pc' \in Pc /\ st' \in St /\ act' \in Action
    BY <1>16, Driven DEF RejectKeyslot, Pc
  <2>3. VolumeTypeOK'
    BY <1>0, <1>16, SetSlotType DEF RejectKeyslot, KillSlot
  <2> QED BY <1>16, <2>1, <2>2, <2>3 DEF RejectKeyslot
<1>17. CASE ImportNewToken
  <2>1. faults' \in 0..MaxFaults
    BY <1>17, ChargeType DEF ImportNewToken
  <2>2. pc' \in Pc /\ st' \in St /\ act' \in Action \cup {"None"}
    BY <1>17, ProceedType DEF ImportNewToken, Pc
  <2>3. meta \in Metadata
    BY <1>17 DEF ImportNewToken, NewKeyslotInv
  <2>4. VolumeTypeOK'
    BY <1>17, <2>3 DEF ImportNewToken, ImportToken, VolumeTypeOK
  <2> QED BY <1>17, <2>1, <2>2, <2>4 DEF ImportNewToken
<1>18. CASE RemoveOldToken
  <2>1. faults' \in 0..MaxFaults
    BY <1>18, ChargeType DEF RemoveOldToken
  <2>2. pc' \in Pc /\ st' \in St /\ act' \in Action \cup {"None"}
    BY <1>18, ProceedType DEF RemoveOldToken, Pc
  <2>3. VolumeTypeOK'
    BY <1>18 DEF RemoveOldToken, RemoveToken, VolumeTypeOK
  <2>4. revoke' \in SUBSET SlotIds
    BY <1>18 DEF RemoveOldToken, KeyslotsOf, Metadata
  <2> QED BY <1>18, <2>1, <2>2, <2>3, <2>4 DEF RemoveOldToken
<1>19. CASE RevokeOldKeyslot
  <2>1. faults' \in 0..MaxFaults
    BY <1>19, ChargeType DEF RevokeOldKeyslot
  <2>2. pc' \in Pc /\ st' \in St /\ act' \in Action \cup {"None"}
    BY <1>19, ProceedType DEF RevokeOldKeyslot, Pc
  <2>3. VolumeTypeOK'
    BY <1>19, SetSlotType DEF RevokeOldKeyslot, KillSlot
  <2> QED BY <1>19, <2>1, <2>2, <2>3 DEF RevokeOldKeyslot
<1> QED
  BY <1>1, <1>2, <1>3, <1>4, <1>5, <1>6, <1>7, <1>8, <1>9, <1>10, <1>11, <1>12,
     <1>13, <1>14, <1>15, <1>16, <1>17, <1>18, <1>19
  DEF Next, Program, Environment
-----------------------------------------------------------------------------
(* The driver and the machine of fsm.rs keep in step. *)

(* How a command of reenroll() may leave pc, st and act. *)
LEMMA ProceedScript ==
  ASSUME NEW ok, NEW next, Proceed(ok, next),
         st = "RescueAvailable" /\ act = "Reenroll"
  PROVE  \/ pc' = next /\ st' = st /\ act' = act
         \/ pc' = "drive" /\ st' = "Done" /\ act' = "EmitRescueKey"
PROOF BY Driven, DriveArms DEF Proceed

(* A step keeps the process in one of the pairs (state of fsm, action). *)
LEMMA ScriptStep ==
  ASSUME IInv, Next
  PROVE  ScriptInv'
PROOF
<1> USE DEF volume, env, ctx, enr
<1> TypeOK /\ ScriptInv
  BY DEF IInv
<1> USE DEF ScriptInv, Writing
<1>1. CASE ResolveHeader
  <2>1. CASE Drive("HeaderFound")
    BY <1>1, <2>1, Driven, DriveArms DEF ResolveHeader
  <2>2. CASE Step(st, "HeaderMissing", st', act') /\ pc' = "done"
    <3>1. st' = "NoHeader" /\ act' = "Abort"
      BY <1>1, <2>2, ArmTaken DEF ResolveHeader, Transitions, HeaderArms
    <3> QED BY <1>1, <2>2, <3>1 DEF ResolveHeader
  <2> QED BY <1>1, <2>1, <2>2 DEF ResolveHeader
<1>2. CASE ReadToken
  <2>1. st = "HeaderReady"
    BY <1>2 DEF ReadToken, Executes
  <2>2. CASE Drive("TokenMissing")
    BY <1>2, <2>1, <2>2, Driven, DriveArms DEF ReadToken
  <2>3. CASE Drive("TokenFound") /\ \E t \in HwidIds : token' = tokens[t]
    <3>1. token' # NoToken
      BY <2>3 DEF HwidIds
    <3> QED BY <1>2, <2>1, <2>3, <3>1, Driven, DriveArms DEF ReadToken
  <2> QED BY <1>2, <2>2, <2>3 DEF ReadToken
<1>3. CASE CollectAndRecover
  <2>1. st = "TokenLoaded" /\ token \in Metadata
    BY <1>3 DEF CollectAndRecover, Executes, TypeOK
  <2>2. CASE Drive("QuorumMet") /\ fingerprint_key' = token.secret
    <3>1. fingerprint_key' # NoKey
      BY <2>1, <2>2, KeyAssumption DEF Metadata, Secrets
    <3> QED BY <1>3, <2>1, <2>2, <3>1, Driven, DriveArms DEF CollectAndRecover
  <2>3. CASE Drive("QuorumNotMet")
    BY <1>3, <2>1, <2>3, Driven, DriveArms DEF CollectAndRecover
  <2> QED BY <1>3, <2>2, <2>3 DEF CollectAndRecover
<1>4. CASE SearchUsb
  <2>1. st \in {"TokenAbsent", "QuorumFailed"}
    BY <1>4 DEF SearchUsb, Executes
  <2>2. CASE /\ Drive("UsbKeyValid") /\ rescue_key' = keyfile /\ keyfile # NoKey
             /\ usb' \in {"ro", "rw"}
    BY <1>4, <2>1, <2>2, Driven, DriveArms DEF SearchUsb
  <2>3. CASE Drive("UsbKeyAbsentOrInvalid")
    BY <1>4, <2>1, <2>3, Driven, DriveArms DEF SearchUsb
  <2> QED BY <1>4, <2>2, <2>3 DEF SearchUsb
<1>5. CASE BackupHeader
  BY <1>5 DEF BackupHeader, Executes
<1>6. CASE AddNewKeyslot
  BY <1>6, ProceedScript DEF AddNewKeyslot
<1>7. CASE VerifyKeyslot
  BY <1>7 DEF VerifyKeyslot
<1>8. CASE RejectKeyslot
  BY <1>8, Driven, DriveArms DEF RejectKeyslot
<1>9. CASE ImportNewToken
  BY <1>9, ProceedScript DEF ImportNewToken
<1>10. CASE RemoveOldToken
  BY <1>10, ProceedScript DEF RemoveOldToken
<1>11. CASE RevokeOldKeyslot
  BY <1>11, ProceedScript DEF RevokeOldKeyslot
<1>12. CASE ReenrollEnds
  BY <1>12, Driven, DriveArms DEF ReenrollEnds
<1>13. CASE ReenrollFails
  <2>1. st = "RescueAvailable" /\ rescue_key # NoKey
    BY <1>13 DEF ReenrollFails, Blocked, Executes
  <2> QED BY <1>13, <2>1, Driven, DriveArms DEF ReenrollFails
<1>14. CASE EmitFingerprintKey \/ EmitRescueKey
  BY <1>14 DEF EmitFingerprintKey, EmitRescueKey, Emit
<1>15. CASE ExitWithError
  BY <1>15 DEF ExitWithError, Executes
<1>16. CASE PowerOn
  BY <1>16 DEF PowerOn
<1>17. CASE PowerOff \/ PowerCut
  BY <1>17 DEF PowerOff, PowerCut, Reset
<1>18. CASE SwapHardware \/ InsertStick
  BY <1>18 DEF SwapHardware, InsertStick
<1>19. CASE PullStick
  BY <1>19 DEF PullStick
<1> QED
  BY <1>1, <1>2, <1>3, <1>4, <1>5, <1>6, <1>7, <1>8, <1>9, <1>10, <1>11, <1>12,
     <1>13, <1>14, <1>15, <1>16, <1>17, <1>18, <1>19
  DEF Next, Program, Environment
-----------------------------------------------------------------------------
(* The volume and what the process knows of it. *)

(* The conjuncts of IInv about the volume. *)
VolumeInv ==
  /\ TokensBacked
  /\ DistinctSecrets
  /\ TokenCurrent
  /\ NewKeyslotInv
  /\ NewTokenInv
  /\ RevokeInv
  /\ KeysInv

(* The fields of a token of the volume are typed. *)
LEMMA TokenSecrets ==
  ASSUME TypeOK, NEW t \in HwidIds
  PROVE  tokens[t].secret \in Secrets /\ tokens[t].keyslots \in SUBSET SlotIds
PROOF BY HwidTokens DEF TypeOK, Metadata

(* No token is there before luks-hwid is used, and the process is off. *)
LEMMA InitVolume == Init => ScriptInv /\ VolumeInv
PROOF
<1> SUFFICES ASSUME Init PROVE ScriptInv /\ VolumeInv
  OBVIOUS
<1>1. HwidIds = {}
  BY SiteAssumption DEF Init, HwidIds
<1>2. ScriptInv
  BY DEF Init, ScriptInv, Writing
<1>3. TokensBacked /\ DistinctSecrets
  BY <1>1 DEF TokensBacked, DistinctSecrets
<1>4. TokenCurrent /\ NewKeyslotInv /\ NewTokenInv /\ RevokeInv /\ KeysInv
  BY DEF Init, TokenCurrent, NewKeyslotInv, NewTokenInv, RevokeInv, KeysInv
<1> QED BY <1>2, <1>3, <1>4 DEF VolumeInv

(* The actions that do not write the volume: what the process knows of it   *)
(* stays true.                                                              *)
LEMMA QuietStep ==
  ASSUME IInv,
         \/ ResolveHeader \/ ReadToken \/ CollectAndRecover \/ SearchUsb
         \/ BackupHeader \/ VerifyKeyslot \/ ReenrollEnds \/ ReenrollFails
         \/ EmitFingerprintKey \/ EmitRescueKey \/ ExitWithError
         \/ PowerOn \/ PowerOff \/ PowerCut
         \/ SwapHardware \/ InsertStick \/ PullStick
  PROVE  VolumeInv'
PROOF
<1> USE DEF volume, env, ctx, enr
<1> TypeOK /\ ScriptInv /\ VolumeInv
  BY DEF IInv, VolumeInv
<1> USE DEF VolumeInv
<1>0. UNCHANGED volume
  BY DEF ResolveHeader, ReadToken, CollectAndRecover, SearchUsb, BackupHeader,
         VerifyKeyslot, ReenrollEnds, ReenrollFails, EmitFingerprintKey,
         EmitRescueKey, Emit, ExitWithError, PowerOn, PowerOff, PowerCut,
         Reset, SwapHardware, InsertStick, PullStick
<1>a. HwidIds' = HwidIds /\ \A k : Opens(k)' <=> Opens(k)
  BY <1>0 DEF HwidIds, Opens
<1>b. TokensBacked' /\ DistinctSecrets'
  BY <1>0, <1>a DEF TokensBacked, DistinctSecrets
<1> DEFINE Rest == TokenCurrent /\ NewKeyslotInv /\ NewTokenInv /\ RevokeInv
                     /\ KeysInv
<1> SUFFICES Rest'
  BY <1>b
<1> HIDE DEF Rest
<1>1. CASE ReadToken
  <2>1. /\ pc = "drive" /\ act = "ReadToken" /\ pc' = "drive"
        /\ st = "HeaderReady" /\ act' \in {"CollectAndRecover", "SearchUsb"}
    BY <1>1, Driven, DriveArms DEF ReadToken, Executes, ScriptInv
  <2>2. TokenCurrent'
    BY <1>1, <1>0, <1>a DEF ReadToken, TokenCurrent
  <2>3. NewKeyslotInv' /\ NewTokenInv'
    BY <2>1 DEF NewKeyslotInv, NewTokenInv
  <2>4. RevokeInv'
    BY <1>1, <2>1 DEF ReadToken, RevokeInv
  <2>5. KeysInv'
    BY <1>1, <1>a, <2>1 DEF ReadToken, KeysInv
  <2> QED BY <2>2, <2>3, <2>4, <2>5 DEF Rest
<1>2. CASE CollectAndRecover
  <2>1. /\ pc = "drive" /\ act = "CollectAndRecover" /\ pc' = "drive"
        /\ st = "TokenLoaded" /\ token # NoToken
    BY <1>2, Driven DEF CollectAndRecover, Executes, ScriptInv
  <2>2. NewKeyslotInv' /\ NewTokenInv'
    BY <2>1 DEF NewKeyslotInv, NewTokenInv
  <2>3. RevokeInv'
    BY <1>2, <2>1 DEF CollectAndRecover, RevokeInv
  <2>4. token_id \in HwidIds /\ tokens[token_id] = token
    BY <2>1 DEF TokenCurrent, ReplacementPending, Reading
  <2>5. TokenCurrent'
    BY <1>2, <1>0, <1>a, <2>4 DEF CollectAndRecover, TokenCurrent
  <2>6. CASE Drive("QuorumMet") /\ fingerprint_key' = token.secret
    <3>1. Opens(token.secret)
      <4>1. PICK s \in token.keyslots : slots[s] = token.secret
        BY <2>4 DEF TokensBacked
      <4>2. s \in SlotIds
        BY <2>4, TokenSecrets
      <4> QED BY <4>1, <4>2 DEF Opens
    <3>2. act' = "EmitFingerprintKey"
      BY <2>1, <2>6, DriveArms
    <3>3. KeysInv'
      BY <1>2, <1>a, <2>1, <2>6, <3>1, <3>2 DEF CollectAndRecover, KeysInv
    <3> QED BY <2>2, <2>3, <2>5, <3>3 DEF Rest
  <2>7. CASE UNCHANGED fingerprint_key
    <3>1. KeysInv'
      BY <1>2, <1>a, <2>1, <2>7 DEF CollectAndRecover, KeysInv
    <3> QED BY <2>2, <2>3, <2>5, <3>1 DEF Rest
  <2> QED BY <1>2, <2>6, <2>7 DEF CollectAndRecover
<1>3. CASE SearchUsb
  <2>1. pc = "drive" /\ act = "SearchUsb" /\ pc' = "drive"
    BY <1>3, Driven DEF SearchUsb, Executes
  <2>2. NewKeyslotInv' /\ NewTokenInv'
    BY <2>1 DEF NewKeyslotInv, NewTokenInv
  <2>3. RevokeInv'
    BY <1>3, <2>1 DEF SearchUsb, RevokeInv
  <2>4. TokenCurrent'
    BY <1>3, <1>0, <1>a, <2>1
    DEF SearchUsb, TokenCurrent, ReplacementPending, Reading
  <2>5. KeysInv'
    BY <1>3, <1>a, <2>1 DEF SearchUsb, KeysInv
  <2> QED BY <2>2, <2>3, <2>4, <2>5 DEF Rest
<1>4. CASE BackupHeader
  <2>1. pc = "drive" /\ act = "Reenroll" /\ pc' = "enroll"
    BY <1>4 DEF BackupHeader, Executes
  <2>2. NewKeyslotInv' /\ NewTokenInv'
    BY <2>1 DEF NewKeyslotInv, NewTokenInv
  <2>3. RevokeInv'
    BY <1>4, <2>1 DEF BackupHeader, RevokeInv
  <2>4. TokenCurrent'
    BY <1>4, <1>0, <1>a, <2>1
    DEF BackupHeader, TokenCurrent, ReplacementPending, Reading
  <2>5. KeysInv'
    BY <1>4, <1>a, <2>1 DEF BackupHeader, KeysInv
  <2> QED BY <2>2, <2>3, <2>4, <2>5 DEF Rest
<1>5. CASE VerifyKeyslot
  <2>1. pc = "verify" /\ pc' = "import"
    BY <1>5 DEF VerifyKeyslot
  <2>2. /\ meta' \in Metadata /\ meta'.secret = meta.secret
        /\ meta'.keyslots = {slot}
    BY <1>5, <2>1 DEF VerifyKeyslot, NewKeyslotInv, Metadata
  <2>3. slots[slot] = meta.secret
    BY <1>5, <2>1 DEF VerifyKeyslot, Opens, NewKeyslotInv
  <2>4. NewKeyslotInv'
    BY <1>5, <1>0, <1>a, <2>1, <2>2, <2>3 DEF VerifyKeyslot, NewKeyslotInv
  <2>5. NewTokenInv' /\ RevokeInv'
    BY <1>5, <2>1 DEF VerifyKeyslot, NewTokenInv, RevokeInv
  <2>6. TokenCurrent'
    BY <1>5, <1>0, <1>a, <2>1
    DEF VerifyKeyslot, TokenCurrent, ReplacementPending, Writing
  <2>7. KeysInv'
    BY <1>5, <1>a, <2>1 DEF VerifyKeyslot, KeysInv
  <2> QED BY <2>4, <2>5, <2>6, <2>7 DEF Rest
<1>6. CASE ReenrollEnds \/ ReenrollFails
  <2>1. st = "RescueAvailable" /\ act = "Reenroll"
    BY <1>6 DEF ReenrollEnds, ReenrollFails, Blocked, Executes, ScriptInv, Writing
  <2>2. pc' = "drive" /\ act' = "EmitRescueKey"
    BY <1>6, <2>1, Driven, DriveArms DEF ReenrollEnds, ReenrollFails
  <2>3. TokenCurrent' /\ NewKeyslotInv' /\ NewTokenInv' /\ RevokeInv'
    BY <2>2 DEF TokenCurrent, ReplacementPending, Writing, Reading,
                NewKeyslotInv, NewTokenInv, RevokeInv
  <2>4. KeysInv'
    BY <1>6, <1>a, <2>1, <2>2 DEF ReenrollEnds, ReenrollFails, Blocked, Executes, KeysInv
  <2> QED BY <2>3, <2>4 DEF Rest
<1>7. CASE EmitFingerprintKey \/ EmitRescueKey
  <2>1. /\ pc' = "done" /\ act' = act
        /\ act \in {"EmitFingerprintKey", "EmitRescueKey"}
    BY <1>7 DEF EmitFingerprintKey, EmitRescueKey, Emit, Executes
  <2>2. TokenCurrent' /\ NewKeyslotInv' /\ NewTokenInv'
    BY <2>1 DEF TokenCurrent, ReplacementPending, Writing, Reading,
                NewKeyslotInv, NewTokenInv
  <2>3. RevokeInv'
    BY <1>7, <2>1 DEF EmitFingerprintKey, EmitRescueKey, Emit, Executes, RevokeInv
  <2>4. KeysInv'
    BY <1>7, <1>a, <2>1 DEF EmitFingerprintKey, EmitRescueKey, Emit, Executes, KeysInv
  <2> QED BY <2>2, <2>3, <2>4 DEF Rest
<1>8. CASE ExitWithError
  <2>1. /\ pc = "drive" /\ pc' = "done" /\ act' = act
        /\ act \in {"Abort", "ReadToken", "SearchUsb"}
    BY <1>8 DEF ExitWithError, Executes
  <2>2. TokenCurrent' /\ NewKeyslotInv' /\ NewTokenInv'
    BY <2>1 DEF TokenCurrent, ReplacementPending, Writing, Reading,
                NewKeyslotInv, NewTokenInv
  <2>3. RevokeInv' /\ KeysInv'
    BY <1>8, <1>a, <2>1 DEF ExitWithError, RevokeInv, KeysInv
  <2> QED BY <2>2, <2>3 DEF Rest
<1>9. CASE PowerOff \/ PowerCut
  BY <1>9 DEF PowerOff, PowerCut, Reset, Rest, TokenCurrent, ReplacementPending,
     Writing, NewKeyslotInv, NewTokenInv, RevokeInv, KeysInv
<1>10. CASE PowerOn \/ ResolveHeader
  <2>1. pc' \in {"resolve", "done"} \/ (pc' = "drive" /\ act' = "ReadToken")
    <3>1. CASE PowerOn
      BY <3>1 DEF PowerOn
    <3>2. CASE ResolveHeader
      <4>1. Drive("HeaderFound") \/ pc' = "done"
        BY <3>2 DEF ResolveHeader
      <4>2. st = "Init"
        BY <3>2 DEF ResolveHeader, ScriptInv
      <4> QED BY <4>1, <4>2, Driven, DriveArms
    <3> QED BY <1>10, <3>1, <3>2
  <2>2. /\ pc \in {"off", "resolve"}
        /\ UNCHANGED <<token, token_id, meta, slot, revoke, fingerprint_key,
                       rescue_key, out>>
    BY <1>10 DEF PowerOn, ResolveHeader
  <2>3. revoke = {} /\ fingerprint_key = NoKey /\ out = NoKey
    BY <2>2 DEF RevokeInv, KeysInv
  <2>4. TokenCurrent' /\ NewKeyslotInv' /\ NewTokenInv' /\ RevokeInv'
    BY <2>1, <2>2, <2>3 DEF TokenCurrent, ReplacementPending, Writing, Reading,
                            NewKeyslotInv, NewTokenInv, RevokeInv
  <2>5. KeysInv'
    BY <1>a, <2>2, <2>3 DEF KeysInv
  <2> QED BY <2>4, <2>5 DEF Rest
<1>11. CASE SwapHardware \/ InsertStick \/ PullStick
  <2>1. UNCHANGED <<pc, act, token, token_id, meta, slot, revoke,
                    fingerprint_key, rescue_key, out>>
    BY <1>11 DEF SwapHardware, InsertStick, PullStick
  <2>2. TokenCurrent' /\ NewKeyslotInv' /\ NewTokenInv' /\ RevokeInv'
    BY <1>0, <1>a, <2>1 DEF TokenCurrent, ReplacementPending, NewKeyslotInv,
                            NewTokenInv, RevokeInv
  <2>3. KeysInv'
    BY <1>a, <2>1 DEF KeysInv
  <2> QED BY <2>2, <2>3 DEF Rest
<1> QED
  BY <1>1, <1>2, <1>3, <1>4, <1>5, <1>6, <1>7, <1>8, <1>9, <1>10, <1>11
-----------------------------------------------------------------------------
(* The commands of reenroll() that write the volume. *)

(* While it writes, the process holds the rescue key and no other. *)
LEMMA WritingKeys ==
  ASSUME TypeOK, ScriptInv, KeysInv, pc \in Writing
  PROVE  /\ st = "RescueAvailable" /\ act = "Reenroll"
         /\ rescue_key = RescueKey /\ Opens(RescueKey)
         /\ fingerprint_key = NoKey /\ out = NoKey
PROOF BY DEF TypeOK, ScriptInv, KeysInv, Writing

(* A keyslot that is not the administrator's and that no token names may   *)
(* take any content.                                                       *)
LEMMA SetSlotSafe ==
  ASSUME TypeOK, TokensBacked, DistinctSecrets,
         NEW x \in SlotIds, NEW key, SetSlot(x, key),
         slots[x] \notin AdminKeys,
         \A t \in HwidIds : x \notin tokens[t].keyslots
  PROVE  /\ HwidIds' = HwidIds /\ tokens' = tokens
         /\ TokensBacked' /\ DistinctSecrets'
         /\ Opens(RescueKey) => Opens(RescueKey)'
         /\ slots'[x] = key
         /\ \A s \in SlotIds : s # x => slots'[s] = slots[s]
PROOF
<1>1. tokens' = tokens /\ HwidIds' = HwidIds
  BY DEF SetSlot, HwidIds
<1>2. slots'[x] = key /\ \A s \in SlotIds : s # x => slots'[s] = slots[s]
  BY DEF SetSlot, TypeOK, VolumeTypeOK
<1>3. Opens(RescueKey) => Opens(RescueKey)'
  BY <1>2 DEF Opens, AdminKeys
<1>4. DistinctSecrets'
  BY <1>1 DEF DistinctSecrets
<1>5. TokensBacked'
  BY <1>1, <1>2, TokenSecrets DEF TokensBacked
<1> QED BY <1>1, <1>2, <1>3, <1>4, <1>5

(* luksAddKey fills a free keyslot, which no token names, with a secret    *)
(* nothing else mentions, or with something that does not open.            *)
LEMMA AddStep ==
  ASSUME IInv, AddNewKeyslot
  PROVE  VolumeInv'
PROOF
<1> USE DEF volume, env, ctx, enr
<1> TypeOK /\ ScriptInv /\ VolumeInv
  BY DEF IInv, VolumeInv
<1> USE DEF VolumeInv
<1>1. pc = "enroll" /\ pc \in Writing
  BY DEF AddNewKeyslot, Writing
<1>2. PICK secret \in Secrets \ SecretsInUse, x \in FreeSlots,
            key \in Secrets \cup {Garbage} :
        /\ key \in {secret, Garbage}
        /\ SetSlot(x, key) /\ slot' = x /\ meta'.secret = secret
        /\ meta' \in Metadata
  <2>1. PICK late \in Unseen, good \in BOOLEAN, ok \in BOOLEAN,
              secret \in Secrets, x \in FreeSlots :
          /\ IsLeast(secret, Secrets \ SecretsInUse)
          /\ meta' = [keyslots |-> {}, secret |-> secret,
                      ids |-> Truncate(Present \ late),
                      k |-> DefaultThreshold(Cardinality(Truncate(Present \ late)))]
          /\ AddKeyslot(x, IF good THEN secret ELSE Garbage) /\ slot' = x
    BY DEF AddNewKeyslot
  <2>2. Present \ late \in SUBSET Ids
    BY IdAssumption DEF Present, TypeOK
  <2>3. meta' \in Metadata
    BY <2>1, <2>2, NewMetadata
  <2> QED BY <2>1, <2>3 DEF IsLeast, AddKeyslot
<1>3. x \in SlotIds /\ slots[x] = NoKey
  BY <1>2 DEF FreeSlots
<1>4. \A t \in HwidIds : x \notin tokens[t].keyslots
  BY <1>3, NotNamed, TokenSecrets, SecretsApart
<1>5. /\ HwidIds' = HwidIds /\ tokens' = tokens
      /\ TokensBacked' /\ DistinctSecrets' /\ Opens(RescueKey)'
      /\ slots'[x] = key
      /\ \A s \in SlotIds : s # x => slots'[s] = slots[s]
  BY <1>1, <1>2, <1>3, <1>4, SetSlotSafe, WritingKeys, KeyAssumption
<1>6. /\ pc' = "verify" \/ (pc' = "drive" /\ act' = "EmitRescueKey")
      /\ UNCHANGED <<token, token_id, revoke, fingerprint_key, rescue_key, out>>
  BY <1>1, WritingKeys, ProceedScript DEF AddNewKeyslot
<1>7. TokenCurrent'
  BY <1>1, <1>5, <1>6 DEF TokenCurrent, ReplacementPending, Writing
<1>8. NewKeyslotInv'
  <2>1. \A s \in SlotIds : slots[s] # meta'.secret
    BY <1>2 DEF SecretsInUse
  <2>2. \A t \in HwidIds : tokens[t].secret # meta'.secret
    BY <1>2 DEF SecretsInUse
  <2>3. token # NoToken => token.secret # meta'.secret
    BY <1>2 DEF SecretsInUse
  <2> QED BY <1>2, <1>3, <1>5, <1>6, <2>1, <2>2, <2>3 DEF NewKeyslotInv
<1>9. NewTokenInv'
  BY <1>6 DEF NewTokenInv
<1>10. RevokeInv'
  BY <1>1, <1>6 DEF RevokeInv
<1>11. KeysInv'
  BY <1>1, <1>5, <1>6, WritingKeys DEF KeysInv
<1> QED BY <1>5, <1>7, <1>8, <1>9, <1>10, <1>11

(* The keyslot killed after a failed test is the one just added: no token  *)
(* names it and no administrator made it.                                  *)
LEMMA RejectStep ==
  ASSUME IInv, RejectKeyslot
  PROVE  VolumeInv'
PROOF
<1> USE DEF volume, env, ctx, enr
<1> TypeOK /\ ScriptInv /\ VolumeInv
  BY DEF IInv, VolumeInv
<1> USE DEF VolumeInv
<1>1. pc = "verify" /\ pc \in Writing
  BY DEF RejectKeyslot, Writing
<1>2. slot \in SlotIds /\ slots[slot] \notin AdminKeys
      /\ \A t \in HwidIds : slots[slot] # tokens[t].secret
  BY <1>1, SecretsApart, TokenSecrets, KeyAssumption DEF NewKeyslotInv, Metadata
<1>3. TokensBacked' /\ DistinctSecrets' /\ Opens(RescueKey)'
  <2>1. CASE KillSlot(slot)
    BY <1>1, <1>2, <2>1, NotNamed, SetSlotSafe, WritingKeys DEF KillSlot
  <2>2. CASE UNCHANGED volume
    BY <1>1, <2>2, WritingKeys
    DEF TokensBacked, DistinctSecrets, HwidIds, Opens
  <2> QED BY <2>1, <2>2 DEF RejectKeyslot
<1>4. /\ pc' = "drive" /\ act' = "EmitRescueKey"
      /\ UNCHANGED <<fingerprint_key, rescue_key, out>>
  BY <1>1, WritingKeys, Driven, DriveArms DEF RejectKeyslot
<1>5. TokenCurrent' /\ NewKeyslotInv' /\ NewTokenInv' /\ RevokeInv'
  BY <1>4 DEF TokenCurrent, ReplacementPending, Writing, Reading,
              NewKeyslotInv, NewTokenInv, RevokeInv
<1>6. KeysInv'
  BY <1>1, <1>3, <1>4, WritingKeys DEF KeysInv
<1> QED BY <1>3, <1>5, <1>6

(* The imported token names a keyslot its secret has just been seen to     *)
(* open, and that secret differs from those of the other tokens.           *)
LEMMA ImportStep ==
  ASSUME IInv, ImportNewToken
  PROVE  VolumeInv'
PROOF
<1> USE DEF volume, env, ctx, enr
<1> TypeOK /\ ScriptInv /\ VolumeInv
  BY DEF IInv, VolumeInv
<1> USE DEF VolumeInv
<1>1. pc = "import" /\ pc \in Writing
  BY DEF ImportNewToken, Writing
<1>2. /\ slot \in SlotIds /\ meta \in Metadata
      /\ slots[slot] = meta.secret /\ meta.keyslots = {slot}
      /\ \A u \in HwidIds : tokens[u].secret # meta.secret
      /\ token # NoToken => token.secret # meta.secret
  BY <1>1 DEF NewKeyslotInv
<1>3. PICK t \in FreeTokenIds :
        tokens' = [tokens EXCEPT ![t] = meta] /\ UNCHANGED slots
  BY DEF ImportNewToken, ImportToken
<1>4. /\ t \in SlotIds /\ t \notin HwidIds
      /\ HwidIds' = HwidIds \cup {t}
      /\ tokens'[t] = meta
      /\ \A u \in HwidIds : tokens'[u] = tokens[u]
  BY <1>2, <1>3, TokenAssumption DEF FreeTokenIds, HwidIds, TypeOK, VolumeTypeOK
<1>5. TokensBacked'
  BY <1>2, <1>3, <1>4 DEF TokensBacked
<1>6. DistinctSecrets'
  BY <1>2, <1>4 DEF DistinctSecrets
<1>7. Opens(RescueKey)'
  BY <1>1, <1>3, WritingKeys DEF Opens
<1>8. \/ pc' \in {"remove", "revoke"} /\ (pc' = "remove" => token # NoToken)
      \/ pc' = "drive" /\ act' = "EmitRescueKey"
  BY <1>1, WritingKeys, ProceedScript DEF ImportNewToken
<1>9. UNCHANGED <<token, token_id, slot, meta, revoke, fingerprint_key,
                  rescue_key, out>>
  BY DEF ImportNewToken
<1>10. TokenCurrent'
  BY <1>1, <1>4, <1>8, <1>9
  DEF TokenCurrent, ReplacementPending, Writing, Reading
<1>11. NewKeyslotInv'
  BY <1>8 DEF NewKeyslotInv
<1>12. NewTokenInv'
  BY <1>2, <1>3, <1>4, <1>8, <1>9 DEF NewTokenInv
<1>13. RevokeInv'
  BY <1>1, <1>9 DEF RevokeInv
<1>14. KeysInv'
  BY <1>1, <1>7, <1>9, WritingKeys DEF KeysInv
<1> QED BY <1>5, <1>6, <1>10, <1>11, <1>12, <1>13, <1>14

(* When the old token goes the new one is there; the keyslots the old one  *)
(* named hold its secret, so no other token names them.                    *)
LEMMA RemoveStep ==
  ASSUME IInv, RemoveOldToken
  PROVE  VolumeInv' /\ HwidIds' # {}
PROOF
<1> USE DEF volume, env, ctx, enr
<1> TypeOK /\ ScriptInv /\ VolumeInv
  BY DEF IInv, VolumeInv
<1> USE DEF VolumeInv
<1>1. pc = "remove" /\ pc \in Writing
  BY DEF RemoveOldToken, Writing
<1>2. /\ token # NoToken /\ token.secret # meta.secret
      /\ token_id \in HwidIds /\ tokens[token_id] = token
  BY <1>1 DEF NewTokenInv, TokenCurrent, ReplacementPending, Writing
<1>3. tokens' = [tokens EXCEPT ![token_id] = NoToken] /\ UNCHANGED slots
  BY DEF RemoveOldToken, RemoveToken
<1>4. /\ HwidIds' = HwidIds \ {token_id}
      /\ \A u \in HwidIds \ {token_id} : tokens'[u] = tokens[u]
  BY <1>2, <1>3 DEF HwidIds, TypeOK, VolumeTypeOK
<1>5. HwidIds' # {}
  BY <1>1, <1>2, <1>4 DEF NewTokenInv
<1>6. TokensBacked' /\ DistinctSecrets'
  BY <1>3, <1>4 DEF TokensBacked, DistinctSecrets
<1>7. Opens(RescueKey)'
  BY <1>1, <1>3, WritingKeys DEF Opens
<1>8. pc' = "revoke" \/ (pc' = "drive" /\ act' = "EmitRescueKey")
  BY <1>1, WritingKeys, ProceedScript DEF RemoveOldToken
<1>9. UNCHANGED <<fingerprint_key, rescue_key, out>>
  BY DEF RemoveOldToken
<1>10. TokenCurrent' /\ NewKeyslotInv' /\ NewTokenInv'
  BY <1>8 DEF TokenCurrent, ReplacementPending, Writing, Reading,
              NewKeyslotInv, NewTokenInv
<1>11. RevokeInv'
  <2>1. revoke' \subseteq token.keyslots
    BY <1>2 DEF RemoveOldToken, KeyslotsOf
  <2>2. \A s \in revoke' : slots[s] = token.secret
    BY <1>2, <2>1 DEF TokensBacked
  <2>3. token.secret \notin AdminKeys
    BY <1>2, TokenSecrets, SecretsApart
  <2>4. \A s \in revoke', t \in HwidIds \ {token_id} : s \notin tokens[t].keyslots
    BY <1>2, <2>2 DEF TokensBacked, DistinctSecrets
  <2> QED BY <1>3, <1>4, <1>8, <2>2, <2>3, <2>4 DEF RevokeInv
<1>12. KeysInv'
  BY <1>1, <1>7, <1>9, WritingKeys DEF KeysInv
<1> QED BY <1>5, <1>6, <1>10, <1>11, <1>12

(* The keyslots killed last are named by no remaining token.                *)
LEMMA RevokeStep ==
  ASSUME IInv, RevokeOldKeyslot
  PROVE  VolumeInv'
PROOF
<1> USE DEF volume, env, ctx, enr
<1> TypeOK /\ ScriptInv /\ VolumeInv
  BY DEF IInv, VolumeInv
<1> USE DEF VolumeInv
<1>1. pc = "revoke" /\ pc \in Writing
  BY DEF RevokeOldKeyslot, Writing
<1>2. PICK x \in revoke : SetSlot(x, NoKey) /\ revoke' = revoke \ {x}
  BY DEF RevokeOldKeyslot, KillSlot
<1>3. /\ x \in SlotIds /\ slots[x] \notin AdminKeys
      /\ \A t \in HwidIds : x \notin tokens[t].keyslots
  BY <1>1, <1>2 DEF RevokeInv, TypeOK
<1>4. /\ HwidIds' = HwidIds /\ tokens' = tokens
      /\ TokensBacked' /\ DistinctSecrets' /\ Opens(RescueKey)'
      /\ \A s \in SlotIds : s # x => slots'[s] = slots[s]
  BY <1>1, <1>2, <1>3, SetSlotSafe, WritingKeys
<1>5. pc' = "revoke" \/ (pc' = "drive" /\ act' = "EmitRescueKey")
  BY <1>1, WritingKeys, ProceedScript DEF RevokeOldKeyslot
<1>6. UNCHANGED <<fingerprint_key, rescue_key, out>>
  BY DEF RevokeOldKeyslot
<1>7. TokenCurrent' /\ NewKeyslotInv' /\ NewTokenInv'
  BY <1>5 DEF TokenCurrent, ReplacementPending, Writing, Reading,
              NewKeyslotInv, NewTokenInv
<1>8. RevokeInv'
  BY <1>1, <1>2, <1>4, <1>5 DEF RevokeInv, TypeOK
<1>9. KeysInv'
  BY <1>1, <1>4, <1>6, WritingKeys DEF KeysInv
<1> QED BY <1>4, <1>7, <1>8, <1>9
-----------------------------------------------------------------------------
(* What a re-enrollment leaves behind. *)

(* At "revoke", whatever of the old fingerprint is not pending is gone. *)
LEMMA ReplacedStep ==
  ASSUME IInv, Next
  PROVE  ReplacedInv'
PROOF
<1> USE DEF volume, env, ctx, enr
<1> TypeOK /\ ScriptInv /\ VolumeInv /\ ReplacedInv
  BY DEF IInv, VolumeInv
<1>1. SUFFICES ASSUME pc' = "revoke", token' # NoToken
               PROVE  /\ tokens'[token_id'] # token'
                      /\ \A s \in token'.keyslots :
                           s \in revoke' \/ slots'[s] # token'.secret
  BY DEF ReplacedInv
<1>2. CASE RemoveOldToken
  <2>1. /\ pc = "remove" /\ token' = token /\ token_id' = token_id
        /\ revoke' = token.keyslots \ {slot} /\ slots' = slots
        /\ tokens' = [tokens EXCEPT ![token_id] = NoToken]
    BY <1>1, <1>2 DEF RemoveOldToken, RemoveToken, KeyslotsOf
  <2>2. token_id \in SlotIds /\ slots[slot] = meta.secret
        /\ token.secret # meta.secret
    BY <1>1, <2>1 DEF VolumeInv, NewTokenInv, TokenCurrent, ReplacementPending,
                      Writing, HwidIds
  <2>3. tokens'[token_id] = NoToken
    BY <2>1, <2>2 DEF TypeOK, VolumeTypeOK
  <2> QED BY <1>1, <2>1, <2>2, <2>3
<1>3. CASE RevokeOldKeyslot
  <2>1. PICK x \in revoke : SetSlot(x, NoKey) /\ revoke' = revoke \ {x}
    BY <1>3 DEF RevokeOldKeyslot, KillSlot
  <2>2. /\ pc = "revoke" /\ token' = token /\ token_id' = token_id
        /\ tokens' = tokens
        /\ slots'[x] = NoKey /\ \A s \in SlotIds \ {x} : slots'[s] = slots[s]
    BY <1>3, <2>1 DEF RevokeOldKeyslot, SetSlot, TypeOK, VolumeTypeOK
  <2>3. token.secret # NoKey /\ token.keyslots \in SUBSET SlotIds
    BY <1>1, <2>2, SecretsApart DEF TypeOK, Metadata
  <2> QED BY <1>1, <2>1, <2>2, <2>3 DEF ReplacedInv
<1>4. CASE ImportNewToken
  <2>1. token = NoToken
    BY <1>1, <1>4, WritingKeys, ProceedScript
    DEF ImportNewToken, VolumeInv, Writing
  <2> QED BY <1>1, <1>4, <2>1 DEF ImportNewToken
<1>5. CASE SwapHardware \/ InsertStick \/ PullStick
  BY <1>1, <1>5 DEF SwapHardware, InsertStick, PullStick, ReplacedInv
<1>6. CASE \/ ResolveHeader \/ ReadToken \/ CollectAndRecover \/ SearchUsb
           \/ BackupHeader \/ VerifyKeyslot \/ ReenrollEnds \/ ReenrollFails
           \/ RejectKeyslot \/ EmitFingerprintKey \/ EmitRescueKey
           \/ ExitWithError \/ PowerOn \/ PowerOff \/ PowerCut
  BY <1>1, <1>6, Driven
  DEF ResolveHeader, ReadToken, CollectAndRecover, SearchUsb, BackupHeader,
      VerifyKeyslot, ReenrollEnds, ReenrollFails, RejectKeyslot,
      EmitFingerprintKey, EmitRescueKey, Emit, ExitWithError, PowerOn, PowerOff,
      PowerCut, Reset
<1>7. CASE AddNewKeyslot
  BY <1>1, <1>7, Driven DEF AddNewKeyslot, Proceed
<1> QED BY <1>2, <1>3, <1>4, <1>5, <1>6, <1>7 DEF Next, Program, Environment

(* Once verified, the rescue key is emitted whatever reenroll() returns. *)
LEMMA RescueStep ==
  ASSUME IInv, Next
  PROVE  RescueInv'
PROOF
<1> USE DEF volume, env, ctx, enr
<1> TypeOK /\ ScriptInv /\ RescueInv /\ KeysInv
  BY DEF IInv
<1>1. CASE AddNewKeyslot \/ ImportNewToken \/ RemoveOldToken \/ RevokeOldKeyslot
  <2>1. pc \in Writing /\ UNCHANGED rescue_key
    BY <1>1 DEF AddNewKeyslot, ImportNewToken, RemoveOldToken, RevokeOldKeyslot,
                Writing
  <2>2. /\ pc' \in Writing \cup {"drive"}
        /\ act' \in {"Reenroll", "EmitRescueKey"}
    BY <1>1, <2>1, WritingKeys, ProceedScript
    DEF AddNewKeyslot, ImportNewToken, RemoveOldToken, RevokeOldKeyslot, Writing
  <2> QED BY <2>1, <2>2 DEF RescueInv, Writing
<1>2. CASE RejectKeyslot \/ ReenrollEnds \/ ReenrollFails
  <2>1. st = "RescueAvailable"
    BY <1>2 DEF RejectKeyslot, ReenrollEnds, ReenrollFails, Blocked, Executes,
                ScriptInv, Writing
  <2> QED BY <1>2, <2>1, Driven, DriveArms
      DEF RejectKeyslot, ReenrollEnds, ReenrollFails, RescueInv
<1>3. CASE SearchUsb
  <2>1. st \in {"TokenAbsent", "QuorumFailed"} /\ rescue_key = NoKey
    BY <1>3 DEF SearchUsb, Executes, ScriptInv, RescueInv
  <2>2. \/ Drive("UsbKeyValid")
        \/ UNCHANGED rescue_key
    BY <1>3 DEF SearchUsb
  <2>3. pc' = "drive"
    BY <1>3, Driven DEF SearchUsb
  <2> QED BY <2>1, <2>2, <2>3, DriveArms DEF RescueInv
<1>4. CASE BackupHeader \/ VerifyKeyslot
  BY <1>4 DEF BackupHeader, VerifyKeyslot, Executes, RescueInv, ScriptInv, Writing
<1>5. CASE EmitRescueKey
  BY <1>5 DEF EmitRescueKey, Emit, Executes, RescueInv
<1>6. CASE \/ ResolveHeader \/ ReadToken \/ CollectAndRecover
           \/ EmitFingerprintKey \/ ExitWithError \/ PowerOn
  <2>1. rescue_key = NoKey /\ UNCHANGED rescue_key
    BY <1>6 DEF ResolveHeader, ReadToken, CollectAndRecover, EmitFingerprintKey,
                Emit, ExitWithError, PowerOn, Executes, RescueInv, Writing
  <2> QED BY <2>1 DEF RescueInv
<1>7. CASE PowerOff \/ PowerCut
  BY <1>7 DEF PowerOff, PowerCut, Reset, RescueInv
<1>8. CASE SwapHardware \/ InsertStick \/ PullStick
  BY <1>8 DEF SwapHardware, InsertStick, PullStick, RescueInv, Charge, TypeOK
<1> QED BY <1>1, <1>2, <1>3, <1>4, <1>5, <1>6, <1>7, <1>8
    DEF Next, Program, Environment
-----------------------------------------------------------------------------
(* The invariant, and what follows from it. *)

(* The invariant holds at the start. *)
LEMMA InitIInv == Init => IInv
PROOF
<1>1. Init => ReplacedInv /\ RescueInv
  BY DEF Init, ReplacedInv, RescueInv
<1> QED BY InitType, InitVolume, <1>1 DEF IInv, VolumeInv

(* Every step keeps the invariant. *)
LEMMA NextIInv ==
  ASSUME IInv, Next
  PROVE  IInv'
PROOF
<1>1. VolumeInv'
  BY QuietStep, AddStep, RejectStep, ImportStep, RemoveStep, RevokeStep
  DEF Next, Program, Environment
<1> QED BY <1>1, TypeStep, ScriptStep, ReplacedStep, RescueStep DEF IInv, VolumeInv

(* So does a step that changes nothing. *)
LEMMA StutterIInv ==
  ASSUME IInv, UNCHANGED vars
  PROVE  IInv'
PROOF
<1> USE DEF vars, env, ctx, enr
<1> TypeOK /\ ScriptInv /\ VolumeInv /\ ReplacedInv /\ RescueInv
  BY DEF IInv, VolumeInv
<1>1. HwidIds' = HwidIds /\ \A k : Opens(k)' <=> Opens(k)
  BY DEF HwidIds, Opens
<1>2. TypeOK' /\ ScriptInv' /\ ReplacedInv' /\ RescueInv'
  BY DEF TypeOK, VolumeTypeOK, ScriptInv, ReplacedInv, RescueInv
<1>3. TokensBacked' /\ DistinctSecrets' /\ TokenCurrent'
  BY <1>1 DEF VolumeInv, TokensBacked, DistinctSecrets, TokenCurrent,
              ReplacementPending
<1>4. NewKeyslotInv' /\ NewTokenInv' /\ RevokeInv' /\ KeysInv'
  BY <1>1 DEF VolumeInv, NewKeyslotInv, NewTokenInv, RevokeInv, KeysInv
<1> QED BY <1>2, <1>3, <1>4 DEF IInv

(* The inductive invariant holds in every reachable state. *)
THEOREM Invariance == Spec => []IInv
PROOF
<1>1. IInv /\ [Next]_vars => IInv'
  BY NextIInv, StutterIInv
<1> QED BY InitIInv, <1>1, PTL DEF Spec

(* Types: in particular every keyslot number and token id the boot path    *)
(* uses is one of the header's.                                             *)
THEOREM TypeCorrect == Spec => []TypeOK
PROOF
<1>1. IInv => TypeOK
  BY DEF IInv
<1> QED BY Invariance, <1>1, PTL

(* Every token of the volume is backed by keyslots its secret opens,       *)
(* through any crash, failure and retry.                                    *)
THEOREM TokensAreBacked == Spec => []TokensBacked
PROOF
<1>1. IInv => TokensBacked
  BY DEF IInv
<1> QED BY Invariance, <1>1, PTL

(* A key the process puts on stdout opens the volume. *)
THEOREM EmittedKeysOpen == Spec => []EmittedKeyOpens
PROOF
<1>1. IInv => EmittedKeyOpens
  BY DEF IInv, KeysInv, EmittedKeyOpens
<1> QED BY Invariance, <1>1, PTL

(* The driver never reaches the catch-all arm and no expect() fails. *)
THEOREM DriverKeepsToScript == Spec => []DriverOnScript
PROOF
<1>1. IInv => DriverOnScript
  BY DEF IInv, ScriptInv, DriverOnScript, Executes
<1> QED BY Invariance, <1>1, PTL

(* With a verified rescue key at hand, what ends the boot is emit().        *)
LEMMA RescueEnds ==
  ASSUME IInv, Next, pc # "done", pc' = "done", rescue_key # NoKey
  PROVE  Executes("EmitRescueKey") /\ (out' = rescue_key \/ faults' > faults)
PROOF
<1> TypeOK /\ ScriptInv /\ RescueInv
  BY DEF IInv
<1>1. pc \in Writing \cup {"drive"} /\ act \in {"Reenroll", "EmitRescueKey"}
  BY DEF RescueInv
<1>2. CASE EmitRescueKey
  BY <1>2 DEF EmitRescueKey, Emit, Charge, TypeOK
<1>3. CASE EmitFingerprintKey \/ ExitWithError \/ ResolveHeader
  BY <1>1, <1>3
  DEF EmitFingerprintKey, Emit, ExitWithError, ResolveHeader, Executes, Writing
<1>4. CASE AddNewKeyslot \/ ImportNewToken \/ RemoveOldToken \/ RevokeOldKeyslot
  BY <1>4, Driven
  DEF AddNewKeyslot, ImportNewToken, RemoveOldToken, RevokeOldKeyslot, Proceed
<1>5. CASE \/ ReadToken \/ CollectAndRecover \/ SearchUsb
           \/ RejectKeyslot \/ ReenrollEnds \/ ReenrollFails
  BY <1>5, Driven
  DEF ReadToken, CollectAndRecover, SearchUsb, RejectKeyslot, ReenrollEnds,
      ReenrollFails
<1>6. CASE BackupHeader \/ VerifyKeyslot
  BY <1>6 DEF BackupHeader, VerifyKeyslot
<1>7. CASE Environment
  BY <1>7 DEF Environment, PowerOn, PowerOff, PowerCut, Reset, SwapHardware,
              InsertStick, PullStick
<1> QED BY <1>2, <1>3, <1>4, <1>5, <1>6, <1>7 DEF Next, Program

(* A boot that verified the rescue key ends by writing it on stdout. *)
THEOREM RescueKeyBoots == Spec => RescueBoots
PROOF
<1> DEFINE Ends ==
      pc # "done" /\ pc' = "done" /\ rescue_key # NoKey
        => Executes("EmitRescueKey") /\ (out' = rescue_key \/ faults' > faults)
<1>1. IInv /\ [Next]_vars => [Ends]_vars
  BY RescueEnds
<1> QED BY Invariance, <1>1, PTL DEF Spec, RescueBoots

(* A re-enrollment that completes has retired the fingerprint it found. *)
THEOREM ReplacedIsRevoked == Spec => []ReplacedRevoked
PROOF
<1>1. IInv => ReplacedRevoked
  BY DEF IInv, ReplacedInv, ReplacedRevoked
<1> QED BY Invariance, <1>1, PTL

(* No step touches a keyslot of the administrator. *)
THEOREM AdminKeyslotsSurvive == Spec => BackupKeysSurvive
PROOF
<1> USE DEF volume, env, ctx, enr
<1> DEFINE Kept == \A s \in SlotIds : slots[s] \in AdminKeys => slots'[s] = slots[s]
<1>1. ASSUME IInv, Next PROVE Kept
  <2> TypeOK
    BY <1>1 DEF IInv
  <2>1. ASSUME NEW x \in SlotIds, NEW key, SetSlot(x, key), slots[x] \notin AdminKeys
        PROVE  Kept
    BY <2>1 DEF SetSlot, TypeOK, VolumeTypeOK
  <2>2. CASE AddNewKeyslot
    <3>1. PICK x \in FreeSlots : \E key : SetSlot(x, key)
      BY <2>2 DEF AddNewKeyslot, AddKeyslot
    <3>2. x \in SlotIds /\ slots[x] \notin AdminKeys
      BY KeyAssumption DEF FreeSlots
    <3> QED BY <2>1, <3>1, <3>2
  <2>3. CASE RejectKeyslot
    <3>1. slot \in SlotIds /\ slots[slot] \notin AdminKeys
      BY <1>1, <2>3, SecretsApart, KeyAssumption
      DEF RejectKeyslot, IInv, NewKeyslotInv, Metadata
    <3> QED BY <2>1, <2>3, <3>1 DEF RejectKeyslot, KillSlot
  <2>4. CASE RevokeOldKeyslot
    <3>1. PICK x \in revoke : SetSlot(x, NoKey)
      BY <2>4 DEF RevokeOldKeyslot, KillSlot
    <3>2. x \in SlotIds /\ slots[x] \notin AdminKeys
      BY <1>1, <2>4, <3>1 DEF RevokeOldKeyslot, IInv, TypeOK, RevokeInv
    <3> QED BY <2>1, <3>1, <3>2
  <2>5. CASE UNCHANGED slots
    BY <2>5
  <2> QED
    BY <1>1, <2>2, <2>3, <2>4, <2>5
    DEF Next, Program, Environment, ResolveHeader, ReadToken, CollectAndRecover,
        SearchUsb, BackupHeader, VerifyKeyslot, ImportNewToken, ImportToken,
        RemoveOldToken, RemoveToken, ReenrollEnds, ReenrollFails,
        EmitFingerprintKey, EmitRescueKey, Emit, ExitWithError, PowerOn,
        PowerOff, PowerCut, Reset, SwapHardware, InsertStick, PullStick
<1>2. IInv /\ [Next]_vars => [Kept]_vars
  BY <1>1
<1> QED BY Invariance, <1>2, PTL DEF Spec, BackupKeysSurvive

(* A write to the volume comes after a successful backup of its header in   *)
(* the same boot.                                                           *)
THEOREM WritesFollowBackup == Spec => HeaderBackedUp
PROOF
<1> USE DEF volume, env, ctx, enr
<1>1. ASSUME IInv, Next, volume' # volume PROVE saved
  <2>1. pc \in Writing
    BY <1>1
    DEF Writing, Next, Program, Environment, ResolveHeader, ReadToken,
        CollectAndRecover, SearchUsb, BackupHeader, AddNewKeyslot, VerifyKeyslot,
        RejectKeyslot, ImportNewToken, RemoveOldToken, RevokeOldKeyslot,
        ReenrollEnds, ReenrollFails, EmitFingerprintKey, EmitRescueKey, Emit,
        ExitWithError, PowerOn, PowerOff, PowerCut, Reset, SwapHardware,
        InsertStick, PullStick
  <2> QED BY <1>1, <2>1 DEF IInv, ScriptInv
<1>2. IInv /\ [Next]_vars => [volume' # volume => saved]_vars
  BY <1>1
<1> QED BY Invariance, <1>2, PTL DEF Spec, HeaderBackedUp

(* A volume that has a fingerprint never loses its last one: the old token  *)
(* is removed only with the new one in place.                               *)
THEOREM FingerprintIsNeverLost == Spec => FingerprintNeverLost
PROOF
<1> USE DEF volume, env, ctx, enr
<1> DEFINE Kept == HwidIds # {} => HwidIds' # {}
<1>1. ASSUME IInv, Next PROVE Kept
  <2> TypeOK
    BY <1>1 DEF IInv
  <2>1. CASE ImportNewToken
    <3>1. PICK t : t \in FreeTokenIds /\ tokens' = [tokens EXCEPT ![t] = meta]
      BY <2>1 DEF ImportNewToken, ImportToken
    <3>2. ASSUME NEW u \in HwidIds PROVE u \in HwidIds'
      BY <3>1, <3>2 DEF HwidIds, FreeTokenIds, TypeOK, VolumeTypeOK
    <3> QED BY <3>2
  <2>2. CASE RemoveOldToken
    BY <1>1, <2>2, RemoveStep
  <2>3. CASE UNCHANGED tokens
    BY <2>3 DEF HwidIds
  <2> QED
    BY <1>1, <2>1, <2>2, <2>3
    DEF Next, Program, Environment, ResolveHeader, ReadToken, CollectAndRecover,
        SearchUsb, BackupHeader, AddNewKeyslot, AddKeyslot, SetSlot, KillSlot,
        VerifyKeyslot, RejectKeyslot, RevokeOldKeyslot, ReenrollEnds,
        ReenrollFails, EmitFingerprintKey, EmitRescueKey, Emit, ExitWithError,
        PowerOn, PowerOff, PowerCut, Reset, SwapHardware, InsertStick, PullStick
<1>2. IInv /\ [Next]_vars => [Kept]_vars
  BY <1>1
<1> QED BY Invariance, <1>2, PTL DEF Spec, FingerprintNeverLost

-----------------------------------------------------------------------------
(* The boot path implements FingerprintStore. *)

StoreStep == [Store!Next]_(Store!store)

(* What a token publishes opens one of the keyslots it names. *)
LEMMA PublishedOpens ==
  ASSUME VolumeTypeOK, TokensBacked
  PROVE  Published \subseteq Openers /\ Openers \subseteq Secrets
PROOF
<1>1. ASSUME NEW t \in HwidIds PROVE tokens[t].secret \in Openers
  <2>1. tokens[t].secret \in Secrets /\ tokens[t].keyslots \in SUBSET SlotIds
    BY HwidTokens DEF Metadata
  <2>2. PICK s \in tokens[t].keyslots : slots[s] = tokens[t].secret
    BY DEF TokensBacked
  <2> QED BY <2>1, <2>2 DEF Openers
<1> QED BY <1>1 DEF Openers, Published

(* A keyslot that gets another content, one of the two being no secret. *)
LEMMA SetSlotStores ==
  ASSUME VolumeTypeOK, TokensBacked, VolumeTypeOK', TokensBacked',
         NEW s \in SlotIds, NEW key, SetSlot(s, key),
         slots[s] \notin Secrets \/ key \notin Secrets
  PROVE  StoreStep
PROOF
<1> DEFINE old == slots[s]
<1>1. slots' = [slots EXCEPT ![s] = key] /\ tokens' = tokens
  BY DEF SetSlot
<1>2. Published' = Published
  BY <1>1 DEF Published, HwidIds
<1>3. Published \subseteq Openers'
  <2>1. ASSUME NEW t \in HwidIds PROVE tokens[t].secret \in Openers'
    <3>1. tokens[t].secret \in Secrets /\ tokens[t].keyslots \in SUBSET SlotIds
      BY HwidTokens DEF Metadata
    <3>2. PICK x \in tokens[t].keyslots : slots'[x] = tokens[t].secret
      BY <1>1 DEF TokensBacked, HwidIds
    <3> QED BY <3>1, <3>2 DEF Openers
  <2> QED BY <2>1 DEF Published
<1>4. /\ slots'[s] = key
      /\ \A x \in SlotIds \ {s} : slots'[x] = slots[x]
  BY <1>1 DEF VolumeTypeOK
<1>5. CASE key \in Secrets
  <2>1. Openers' = Openers \cup {key}
    BY <1>4, <1>5 DEF Openers
  <2> QED
    BY <1>2, <1>5, <2>1
    DEF StoreStep, Store!Next, Store!Add, Store!store
<1>6. CASE key \notin Secrets
  <2>1. Openers' = Openers \/ (old \in Openers /\ Openers' = Openers \ {old})
    BY <1>4, <1>6 DEF Openers
  <2>2. ASSUME old \in Openers, Openers' = Openers \ {old}
        PROVE  StoreStep
    <3>1. old \in Secrets /\ old \notin Published
      BY <1>3, <2>2 DEF Openers
    <3> QED
      BY <1>2, <2>2, <3>1
      DEF StoreStep, Store!Next, Store!Revoke, Store!store
  <2> QED BY <1>2, <2>1, <2>2 DEF StoreStep, Store!store
<1> QED BY <1>5, <1>6
(* The new token: its secret opened a keyslot before. *)
LEMMA ImportStores ==
  ASSUME IInv, ImportNewToken
  PROVE  StoreStep
PROOF
<1>1. /\ VolumeTypeOK
      /\ slot \in SlotIds /\ meta \in Metadata /\ slots[slot] = meta.secret
  BY DEF ImportNewToken, IInv, TypeOK, NewKeyslotInv
<1>2. PICK t \in FreeTokenIds :
        tokens' = [tokens EXCEPT ![t] = meta] /\ UNCHANGED slots
  BY DEF ImportNewToken, ImportToken
<1>3. /\ HwidIds' = HwidIds \cup {t} /\ t \notin HwidIds
      /\ tokens'[t] = meta
      /\ \A u \in HwidIds : tokens'[u] = tokens[u]
  BY <1>1, <1>2, TokenAssumption DEF FreeTokenIds, HwidIds, VolumeTypeOK
<1>4. Openers' = Openers
  BY <1>2 DEF Openers
<1>5. Published' = Published \cup {meta.secret}
  BY <1>3 DEF Published
<1>6. meta.secret \in Secrets /\ meta.secret \in Openers
  BY <1>1 DEF Metadata, Openers
<1> QED
  BY <1>4, <1>5, <1>6
  DEF StoreStep, Store!Next, Store!Publish, Store!store

(* The old token goes while another one is there. *)
LEMMA RemoveStores ==
  ASSUME IInv, RemoveOldToken
  PROVE  StoreStep
PROOF
<1>1. VolumeTypeOK /\ TokensBacked
  BY DEF IInv, TypeOK
<1>2. /\ token_id \in HwidIds
      /\ tokens' = [tokens EXCEPT ![token_id] = NoToken] /\ UNCHANGED slots
  BY DEF RemoveOldToken, RemoveToken, IInv, NewTokenInv, TokenCurrent,
         ReplacementPending, Writing
<1> DEFINE gone == tokens[token_id].secret
<1>3. /\ HwidIds' = HwidIds \ {token_id}
      /\ \A u \in HwidIds \ {token_id} : tokens'[u] = tokens[u]
  BY <1>1, <1>2 DEF HwidIds, VolumeTypeOK
<1>4. Openers' = Openers
  BY <1>2 DEF Openers
<1>5. gone \in Published /\ Published' = Published \ {gone}
  BY <1>2, <1>3 DEF Published, IInv, DistinctSecrets
<1>6. Published' # {}
  BY <1>3, RemoveStep DEF Published
<1>7. gone \in Secrets
  BY <1>1, <1>5, PublishedOpens
<1> QED
  BY <1>4, <1>5, <1>6, <1>7
  DEF StoreStep, Store!Next, Store!Retract, Store!store
-----------------------------------------------------------------------------
(* Every step of a boot, cut or failed, is a step of the store. *)
LEMMA NextStores ==
  ASSUME IInv, Next
  PROVE  StoreStep
PROOF
<1> USE DEF volume, env, ctx, enr
<1>1. TypeOK /\ TokensBacked /\ VolumeTypeOK
  BY DEF IInv, TypeOK
<1>2. TokensBacked' /\ VolumeTypeOK'
  BY NextIInv DEF IInv, TypeOK
<1>3. CASE AddNewKeyslot
  <2>1. PICK x \in FreeSlots : \E key : SetSlot(x, key)
    BY <1>3 DEF AddNewKeyslot, AddKeyslot
  <2>2. x \in SlotIds /\ slots[x] \notin Secrets
    BY <2>1, SecretsApart DEF FreeSlots
  <2> QED BY <1>1, <1>2, <2>1, <2>2, SetSlotStores
<1>4. CASE RejectKeyslot
  <2>1. slot \in SlotIds /\ NoKey \notin Secrets
    BY <1>4, SecretsApart DEF RejectKeyslot, IInv, NewKeyslotInv
  <2>2. CASE SetSlot(slot, NoKey)
    BY <1>1, <1>2, <2>1, <2>2, SetSlotStores
  <2>3. CASE UNCHANGED volume
    BY <2>3 DEF StoreStep, Store!store, Openers, Published, HwidIds
  <2> QED BY <1>4, <2>2, <2>3 DEF RejectKeyslot, KillSlot
<1>5. CASE ImportNewToken
  BY <1>5, ImportStores
<1>6. CASE RemoveOldToken
  BY <1>6, RemoveStores
<1>7. CASE RevokeOldKeyslot
  <2>1. PICK x \in revoke : SetSlot(x, NoKey)
    BY <1>7 DEF RevokeOldKeyslot, KillSlot
  <2>2. x \in SlotIds /\ NoKey \notin Secrets
    BY <1>1, SecretsApart DEF TypeOK
  <2> QED BY <1>1, <1>2, <2>1, <2>2, SetSlotStores
<1>8. CASE UNCHANGED volume
  BY <1>8 DEF StoreStep, Store!store, Openers, Published, HwidIds
<1> QED
  BY <1>3, <1>4, <1>5, <1>6, <1>7, <1>8
  DEF Next, Program, Environment, ResolveHeader, ReadToken, CollectAndRecover,
      SearchUsb, BackupHeader, VerifyKeyslot, ReenrollEnds, ReenrollFails,
      EmitFingerprintKey, EmitRescueKey, Emit, ExitWithError, PowerOn,
      PowerOff, PowerCut, Reset, SwapHardware, InsertStick, PullStick

(* The boot path keeps what a volume promises, whatever is cut or fails:    *)
(* it implements FingerprintStore with a last fingerprint that is never     *)
(* retracted.                                                               *)
THEOREM BootKeepsStore == Spec => KeepsStore
PROOF
<1>1. Init => Store!Init
  <2> SUFFICES ASSUME Init PROVE Store!Init
    OBVIOUS
  <2>1. VolumeTypeOK /\ TokensBacked
    BY InitIInv DEF IInv, TypeOK
  <2> QED BY <2>1, PublishedOpens DEF Store!Init
<1>2. IInv /\ [Next]_vars => StoreStep
  <2>1. ASSUME UNCHANGED vars PROVE StoreStep
    BY <2>1 DEF vars, volume, StoreStep, Store!store, Openers, Published, HwidIds
  <2> QED BY <2>1, NextStores
<1> QED
  BY Invariance, <1>1, <1>2, PTL DEF Spec, KeepsStore, Store!Spec, StoreStep

-----------------------------------------------------------------------------
(* Counting: the keyslots left behind, the components lost. *)

(* The inductive invariant. *)

(* Room for a token of each fault, the one in use and the one to come.      *)
TokenIds(v) == {t \in SlotIds : v[t] # ForeignToken}
RoomForFaults ==
  /\ TokenRoom >= MaxFaults + 2
  /\ \A v \in InitialTokens : Cardinality(TokenIds(v)) >= MaxFaults + 2

Leaked   == Cardinality(FingerprintSlots)
Known    == IF HwidIds = {} THEN 0 ELSE 1
Replaced == IF token = NoToken THEN 0 ELSE 1

(* The stick is gone: a fault of this boot. *)
Slack == IF usb = "lost" THEN 1 ELSE 0

LeakInv ==
  /\ ~Reenrolling => Leaked <= faults + Known
  /\ Executes("ReadToken") /\ ~HeaderReadable => Leaked <= faults
  /\ Executes("SearchUsb") \/ Executes("Reenroll") => Leaked <= faults + Replaced
  /\ pc = "enroll" => Leaked + Slack <= faults + Replaced
  /\ pc \in {"verify", "import"} => Leaked + Slack <= faults + Replaced + 1
  /\ pc = "verify" /\ slots[slot] = Garbage => Leaked + Slack <= faults + Replaced
  /\ pc = "remove" => Leaked + Slack <= faults + 2
  /\ pc = "revoke" => Leaked + Slack <= faults + IF revoke = {} THEN 1 ELSE 2

(* What reenroll() can count on. *)
SiteInv ==
  /\ pc \in Writing => keyfile = RescueKey /\ usb # "none"
  /\ Reenrolling => HeaderWritable \/ usb = "lost"
  /\ pc \in {"off", "resolve"} => usb = "none"
  /\ Executes("ReadToken") /\ ~HeaderReadable => usb = "lost"
  /\ pc = "revoke" =>
       /\ HwidIds # {}
       /\ slot \in FingerprintSlots \ revoke
       /\ revoke \subseteq FingerprintSlots
  /\ Cardinality(TokenIds(tokens)) >= MaxFaults + 2

(* Tokens the boot path writes have the default threshold. *)
HasDefault(m) == m.k = DefaultThreshold(Cardinality(m.ids))

(* A quorum missed without a fault: too many identifiers of the token are   *)
(* gone, those a stick may show aside.                                      *)
QuorumInv ==
  /\ \A t \in HwidIds : HasDefault(tokens[t])
  /\ pc \in {"verify", "import", "remove"} => HasDefault(meta)
  /\ token # NoToken => HasDefault(token)
  /\ st = "QuorumFailed" => token # NoToken
  /\ st = "QuorumFailed" /\ faults = 0 /\ token.ids \cap RescueIds = {} =>
       Cardinality(token.ids \cap hw) < token.k
-----------------------------------------------------------------------------
(* Counting keyslots. *)

(* The keyslots of fingerprints can be counted. *)
LEMMA LeakedType ==
  ASSUME VolumeTypeOK
  PROVE  IsFiniteSet(FingerprintSlots) /\ Leaked \in Nat
PROOF
<1>1. IsFiniteSet(SlotIds) /\ FingerprintSlots \in SUBSET SlotIds
  BY SizeAssumption, FS_Interval DEF SlotIds, FingerprintSlots
<1> QED BY <1>1, FS_Subset, FS_CardinalityType DEF Leaked

(* A keyslot more, or one less. *)
LEMMA SlotCounts ==
  ASSUME VolumeTypeOK, NEW s \in SlotIds, NEW key, SetSlot(s, key)
  PROVE  /\ slots[s] = NoKey /\ key \notin AdminKeys \cup {NoKey} =>
              Leaked' = Leaked + 1 /\ FingerprintSlots' = FingerprintSlots \cup {s}
         /\ s \in FingerprintSlots /\ key = NoKey =>
              Leaked' = Leaked - 1 /\ FingerprintSlots' = FingerprintSlots \ {s}
PROOF
<1>1. slots'[s] = key /\ \A x \in SlotIds \ {s} : slots'[x] = slots[x]
  BY DEF SetSlot, VolumeTypeOK
<1>2. IsFiniteSet(FingerprintSlots) /\ Leaked \in Nat
  BY LeakedType
<1>3. ASSUME slots[s] = NoKey, key \notin AdminKeys \cup {NoKey}
      PROVE  Leaked' = Leaked + 1 /\ FingerprintSlots' = FingerprintSlots \cup {s}
  <2>1. FingerprintSlots' = FingerprintSlots \cup {s} /\ s \notin FingerprintSlots
    BY <1>1, <1>3 DEF FingerprintSlots
  <2> QED BY <1>2, <2>1, FS_AddElement DEF Leaked
<1>4. ASSUME s \in FingerprintSlots, key = NoKey
      PROVE  Leaked' = Leaked - 1 /\ FingerprintSlots' = FingerprintSlots \ {s}
  <2>1. FingerprintSlots' = FingerprintSlots \ {s}
    BY <1>1, <1>4 DEF FingerprintSlots
  <2> QED BY <1>2, <1>4, <2>1, FS_RemoveElement DEF Leaked
<1> QED BY <1>3, <1>4

(* Tokens have keyslots of their own, so a keyslot that none of them names  *)
(* makes one more than there are tokens.                                    *)
LEMMA TokensLeak ==
  ASSUME TypeOK, TokensBacked, DistinctSecrets, NEW x \in FingerprintSlots,
         \A t \in HwidIds : tokens[t].secret # slots[x]
  PROVE  Cardinality(HwidIds) \in Nat /\ Cardinality(HwidIds) < Leaked
PROOF
<1> DEFINE f == [t \in HwidIds |-> CHOOSE s \in tokens[t].keyslots : TRUE]
<1>1. \A t \in HwidIds : f[t] \in tokens[t].keyslots
  BY DEF TokensBacked
<1>2. \A t \in HwidIds : f[t] \in FingerprintSlots \ {x} /\ slots[f[t]] = tokens[t].secret
  <2>1. TAKE t \in HwidIds
  <2>2. tokens[t].secret \in Secrets /\ f[t] \in SlotIds
    BY <1>1, TokenSecrets
  <2>3. slots[f[t]] = tokens[t].secret
    BY <1>1 DEF TokensBacked
  <2> QED BY <2>2, <2>3, SecretsApart DEF FingerprintSlots
<1>3. f \in Injection(HwidIds, FingerprintSlots \ {x})
  <2>1. f \in [HwidIds -> FingerprintSlots \ {x}]
    BY <1>2
  <2>2. \A t, u \in HwidIds : f[t] = f[u] => t = u
    BY <1>2 DEF DistinctSecrets
  <2> QED BY <2>1, <2>2 DEF Injection, IsInjective
<1>4. IsFiniteSet(FingerprintSlots) /\ Leaked \in Nat
  BY LeakedType DEF TypeOK
<1>5. IsFiniteSet(FingerprintSlots \ {x})
      /\ Cardinality(FingerprintSlots \ {x}) = Leaked - 1
  BY <1>4, FS_RemoveElement DEF Leaked
<1> QED BY <1>3, <1>4, <1>5, FS_Injection, FS_CardinalityType

(* With room for the tokens of all faults, the import is never refused.     *)
LEMMA ImportHasRoom ==
  ASSUME IInv, LeakInv, SiteInv, TokenRoom >= MaxFaults + 2, pc = "import"
  PROVE  CanImport
PROOF
<1> USE DEF IInv
<1>1. /\ slot \in SlotIds /\ slots[slot] = meta.secret /\ meta.secret \in Secrets
      /\ \A t \in HwidIds : tokens[t].secret # meta.secret
  BY DEF NewKeyslotInv, Metadata
<1>2. slot \in FingerprintSlots
  BY <1>1, SecretsApart DEF FingerprintSlots
<1>3. Cardinality(HwidIds) \in Nat /\ Cardinality(HwidIds) < Leaked
  BY <1>1, <1>2, TokensLeak
<1>4. Leaked <= MaxFaults + 2
  <2>1. Leaked \in Nat /\ faults \in 0..MaxFaults /\ MaxFaults \in Nat
    BY LeakedType, SiteAssumption DEF TypeOK
  <2>2. Leaked + Slack <= faults + Replaced + 1
    BY DEF LeakInv
  <2> QED BY <2>1, <2>2 DEF Slack, Replaced
<1>5. MaxFaults \in Nat /\ TokenRoom \in Nat /\ Leaked \in Nat
  BY LeakedType, SiteAssumption, SizeAssumption DEF TypeOK
<1>6. FreeTokenIds # {}
  <2>1. FreeTokenIds = {} => TokenIds(tokens) = HwidIds
    BY TokenAssumption DEF FreeTokenIds, HwidIds, TokenIds
  <2> QED BY <1>3, <1>4, <1>5, <2>1 DEF SiteInv
<1> QED BY <1>3, <1>4, <1>5, <1>6 DEF CanImport
-----------------------------------------------------------------------------
(* The initial states. *)
LEMMA InitLeak == RoomForFaults /\ Init => LeakInv /\ SiteInv
PROOF
<1> SUFFICES ASSUME RoomForFaults, Init PROVE LeakInv /\ SiteInv
  OBVIOUS
<1> USE DEF Init
<1>1. FingerprintSlots = {}
  BY SiteAssumption DEF FingerprintSlots
<1>2. Leaked = 0
  BY <1>1, FS_EmptySet DEF Leaked
<1>3. LeakInv
  BY <1>2 DEF LeakInv, Reenrolling, Executes, Known
<1>4. SiteInv
  BY DEF SiteInv, Writing, Executes, Reenrolling, RoomForFaults
<1> QED BY <1>3, <1>4

(* A process that has ended knows nothing; a cut was charged to a fault.    *)
LEMMA ResetLeak ==
  ASSUME IInv, LeakInv, SiteInv, PowerOff \/ PowerCut
  PROVE  LeakInv' /\ SiteInv'
PROOF
<1> USE DEF IInv, volume
<1>1. /\ pc' = "off" /\ usb' = "none" /\ UNCHANGED volume /\ UNCHANGED keyfile
      /\ faults' = faults \/ (faults' = faults + 1 /\ pc \notin {"off", "done"})
      /\ PowerOff => pc = "done"
      /\ PowerCut => faults' = faults + 1
  BY DEF PowerOff, PowerCut, Reset, Charge, env
<1>2. Leaked' = Leaked /\ Known' = Known /\ TokenIds(tokens)' = TokenIds(tokens)
  BY <1>1 DEF Leaked, Known, FingerprintSlots, HwidIds, TokenIds
<1>3. Leaked \in Nat /\ faults \in Nat
  BY LeakedType DEF TypeOK
<1>4. Leaked <= faults' + Known
  <2>1. CASE ~Reenrolling
    BY <1>1, <1>3, <2>1 DEF LeakInv, Known
  <2>2. CASE pc \in {"verify", "import"}
    <3>1. Replaced <= Known
      BY <2>2 DEF Replaced, Known, TokenCurrent, ReplacementPending, Writing
    <3> QED BY <1>1, <1>3, <2>2, <3>1 DEF LeakInv, Slack, Replaced, Known
  <2>3. CASE pc \in {"remove", "revoke"}
    <3>1. Known = 1
      BY <2>3 DEF Known, NewTokenInv, SiteInv
    <3> QED BY <1>1, <1>3, <2>3, <3>1 DEF LeakInv, Slack
  <2> QED BY <2>1, <2>2, <2>3 DEF Reenrolling
<1>5. LeakInv'
  BY <1>1, <1>2, <1>4 DEF LeakInv, Reenrolling, Executes
<1>6. SiteInv'
  BY <1>1, <1>2 DEF SiteInv, Executes, Writing, Reenrolling
<1> QED BY <1>5, <1>6
-----------------------------------------------------------------------------
(* The actions that do not write the volume. *)

(* What a step that does not write the volume leaves as it is. *)
LEMMA Unwritten ==
  ASSUME UNCHANGED volume
  PROVE  /\ Leaked' = Leaked /\ Known' = Known /\ HwidIds' = HwidIds
         /\ FingerprintSlots' = FingerprintSlots /\ UNCHANGED <<slots, tokens>>
         /\ TokenIds(tokens)' = TokenIds(tokens)
PROOF BY DEF volume, Leaked, Known, FingerprintSlots, HwidIds, TokenIds

(* Outside reenroll() there are three counts to look at. *)
LEMMA OutsideLeak ==
  ASSUME pc' \notin Writing,
         (Leaked <= faults + Known)',
         (Executes("ReadToken") /\ ~HeaderReadable => Leaked <= faults)',
         (Executes("SearchUsb") \/ Executes("Reenroll") => Leaked <= faults + Replaced)'
  PROVE  LeakInv'
PROOF BY DEF LeakInv, Writing

(* Before reenroll(): what hides a token from the process is a fault. *)
LEMMA SearchLeak ==
  ASSUME IInv, LeakInv, SiteInv,
         \/ PowerOn \/ ResolveHeader \/ ReadToken \/ CollectAndRecover
         \/ SearchUsb \/ BackupHeader
  PROVE  LeakInv' /\ SiteInv'
PROOF
<1> USE DEF IInv, volume, env, ctx, enr, Executes, Writing
<1>1. UNCHANGED volume /\ UNCHANGED keyfile
  BY DEF PowerOn, ResolveHeader, ReadToken, CollectAndRecover, SearchUsb, BackupHeader
<1>2. /\ Leaked' = Leaked /\ Known' = Known /\ HwidIds' = HwidIds
      /\ TokenIds(tokens)' = TokenIds(tokens)
      /\ Leaked \in Nat /\ faults \in Nat
      /\ Known \in 0..1 /\ (HwidIds = {} => Known = 0) /\ (HwidIds # {} => Known = 1)
      /\ Replaced \in 0..1 /\ (token # NoToken => Replaced = 1)
  BY <1>1, Unwritten, LeakedType DEF TypeOK, Known, Replaced
<1>3. CASE PowerOn
  <2>1. pc = "off" /\ pc' = "resolve" /\ UNCHANGED <<usb, faults>>
    BY <1>3 DEF PowerOn
  <2>2. Leaked <= faults + Known
    BY <2>1 DEF LeakInv, Reenrolling
  <2> QED BY <1>2, <2>1, <2>2 DEF LeakInv, SiteInv, Reenrolling
<1>4. CASE ResolveHeader
  <2>1. \/ Drive("HeaderFound") /\ (detached => usb' = "ro")
        \/ pc' = "done"
    BY <1>4 DEF ResolveHeader
  <2>2. pc' = "drive" => act' = "ReadToken" /\ (detached' => usb' = "ro")
    BY <1>4, <2>1, DriveArms DEF ResolveHeader, ScriptInv
  <2>3. /\ pc' \in {"drive", "done"} /\ pc = "resolve"
        /\ faults' = faults \/ faults' = faults + 1
    BY <1>2, <1>4, <2>1, Driven DEF ResolveHeader, Charge
  <2>4. Leaked <= faults' + Known
    BY <1>2, <2>3 DEF LeakInv, Reenrolling
  <2>5. LeakInv'
    BY <1>2, <2>2, <2>3, <2>4, OutsideLeak DEF HeaderReadable, StickReadable
  <2>6. SiteInv'
    BY <1>2, <2>2, <2>3 DEF SiteInv, Reenrolling, HeaderReadable, StickReadable
  <2> QED BY <2>5, <2>6
<1>5. CASE ReadToken
  <2>1. PICK missed \in SUBSET HwidIds :
          LET seen == IF HeaderReadable THEN HwidIds \ missed ELSE {} IN
            /\ Charge(missed # {})
            /\ \/ seen = {} /\ token' = NoToken /\ Drive("TokenMissing")
               \/ Drive("TokenFound")
    BY <1>5 DEF ReadToken
  <2>2. /\ pc' = "drive" /\ pc = "drive" /\ act = "ReadToken"
        /\ act' \in {"CollectAndRecover", "SearchUsb"}
        /\ act' = "SearchUsb" => token' = NoToken
        /\ act' = "SearchUsb" =>
             HwidIds = {} \/ faults' = faults + 1 \/ ~HeaderReadable
        /\ faults' = faults \/ faults' = faults + 1
    BY <1>2, <1>5, <2>1, Driven, DriveArms DEF ReadToken, ScriptInv, Charge
  <2>3. Leaked <= faults + Known
    BY <2>2 DEF LeakInv, Reenrolling
  <2>4. act' = "SearchUsb" => Leaked <= faults'
    BY <1>2, <2>2, <2>3 DEF LeakInv
  <2>5. LeakInv'
    <3>1. Replaced' \in 0..1
      BY DEF Replaced
    <3>2. Leaked <= faults' + Known /\ (act' = "SearchUsb" => Leaked <= faults' + Replaced')
      BY <1>2, <2>2, <2>3, <2>4, <3>1
    <3> QED BY <1>2, <2>2, <3>2, OutsideLeak
  <2>6. SiteInv'
    BY <1>2, <2>2 DEF SiteInv, Reenrolling
  <2> QED BY <2>5, <2>6
<1>6. CASE CollectAndRecover
  <2>1. /\ pc = "drive" /\ act = "CollectAndRecover" /\ pc' = "drive"
        /\ act' \in {"EmitFingerprintKey", "SearchUsb"}
        /\ token # NoToken /\ token' = token
        /\ faults' = faults \/ faults' = faults + 1
    BY <1>6, Driven, DriveArms DEF CollectAndRecover, ScriptInv, Charge
  <2>2. Leaked <= faults + 1 /\ Leaked <= faults + Known
    BY <1>2, <2>1 DEF LeakInv, Reenrolling
  <2>3. Replaced' = 1
    BY <2>1 DEF Replaced
  <2>4. Leaked <= faults' + 1 /\ Leaked <= faults' + Known
    BY <1>2, <2>1, <2>2
  <2> QED BY <1>2, <2>1, <2>3, <2>4, OutsideLeak DEF SiteInv, Reenrolling
<1>7. CASE SearchUsb
  <2>1. /\ pc = "drive" /\ act = "SearchUsb" /\ pc' = "drive"
        /\ act' \in {"Reenroll", "Abort"}
        /\ token' = token
        /\ faults' = faults \/ faults' = faults + 1
    <3>1. Drive("UsbKeyValid") \/ Drive("UsbKeyAbsentOrInvalid")
      BY <1>7 DEF SearchUsb
    <3> QED BY <1>7, <3>1, Driven, DriveArms DEF SearchUsb, ScriptInv, Charge
  <2>2. Leaked <= faults' + Replaced /\ Leaked <= faults' + Known
    <3>1. Leaked <= faults + Replaced /\ Leaked <= faults + Known
      BY <2>1 DEF LeakInv, Reenrolling
    <3> QED BY <1>2, <2>1, <3>1
  <2>3. Replaced' = Replaced
    BY <2>1 DEF Replaced
  <2> QED BY <1>2, <2>1, <2>2, <2>3, OutsideLeak DEF SiteInv, Reenrolling
<1>8. CASE BackupHeader
  <2>1. /\ pc = "drive" /\ act = "Reenroll" /\ pc' = "enroll" /\ token' = token
        /\ faults' = faults /\ usb' \in {"ro", "rw"}
        /\ keyfile # NoKey
    BY <1>8 DEF BackupHeader, KeyfileReadable, StickReadable
  <2>2. keyfile' = RescueKey
    BY <1>1, <2>1 DEF TypeOK
  <2>3. Leaked + Slack' <= faults' + Replaced /\ Leaked <= faults' + Known
    BY <1>2, <2>1 DEF LeakInv, Reenrolling, Slack
  <2>4. Replaced' = Replaced
    BY <2>1 DEF Replaced
  <2> QED
    BY <1>2, <2>1, <2>2, <2>3, <2>4 DEF LeakInv, SiteInv, Reenrolling
<1> QED BY <1>3, <1>4, <1>5, <1>6, <1>7, <1>8

(* Hardware: a stick pulled from a process that writes is a fault. *)
LEMMA HardwareLeak ==
  ASSUME IInv, LeakInv, SiteInv, SwapHardware \/ InsertStick \/ PullStick
  PROVE  LeakInv' /\ SiteInv'
PROOF
<1> USE DEF IInv, volume, env, ctx, enr, Executes, Writing
<1>1. UNCHANGED volume /\ UNCHANGED <<keyfile, pc, act, token, slot, revoke, detached>>
  BY DEF SwapHardware, InsertStick, PullStick
<1>2. /\ Leaked' = Leaked /\ Known' = Known /\ HwidIds' = HwidIds
      /\ FingerprintSlots' = FingerprintSlots /\ slots' = slots
      /\ TokenIds(tokens)' = TokenIds(tokens) /\ Replaced' = Replaced
      /\ Leaked \in Nat /\ faults \in Nat
  BY <1>1, Unwritten, LeakedType DEF TypeOK, Replaced
<1>3. CASE SwapHardware \/ InsertStick
  <2>1. UNCHANGED <<usb, faults>>
    BY <1>3 DEF SwapHardware, InsertStick
  <2>2. LeakInv'
    BY <1>1, <1>2, <2>1
    DEF LeakInv, Reenrolling, Slack, HeaderReadable, StickReadable
  <2>3. SiteInv'
    BY <1>1, <1>2, <2>1
    DEF SiteInv, Reenrolling, HeaderReadable, HeaderWritable, StickReadable
  <2> QED BY <2>2, <2>3
<1>4. CASE PullStick
  <2>1. /\ faults' = IF pc \notin {"off", "done"} THEN faults + 1 ELSE faults
        /\ usb' = IF usb = "none" THEN usb ELSE "lost"
    BY <1>4 DEF PullStick, Charge
  <2>2. LeakInv'
    <3>1. /\ Slack = 0 \/ Slack = 1
          /\ usb # "none" => Slack' = 1
          /\ Slack' = Slack \/ Slack' = Slack + 1
          /\ Replaced = 0 \/ Replaced = 1
      BY <2>1 DEF Slack, Replaced
    <3>2. /\ ~Reenrolling => Leaked' <= faults' + Known'
          /\ Executes("ReadToken")' /\ ~HeaderReadable' => Leaked' <= faults'
          /\ (Executes("SearchUsb") \/ Executes("Reenroll"))' =>
               Leaked' <= faults' + Replaced'
      <4>1. Executes("ReadToken")' => faults' = faults + 1 /\ Leaked <= faults + 1
        BY <1>1, <1>2, <2>1 DEF LeakInv, Reenrolling, Known
      <4> QED BY <1>1, <1>2, <2>1, <4>1 DEF LeakInv, Reenrolling, Known, Replaced
    <3>4. pc \in Writing => faults' = faults + 1
      BY <2>1
    <3>3. pc \in Writing => Leaked' + Slack' <= Leaked + Slack + 1 /\ faults' = faults + 1
      BY <1>2, <3>1, <3>4
    <3> DEFINE bound == IF revoke = {} THEN 1 ELSE 2
    <3>5. bound' = bound /\ (bound = 1 \/ bound = 2)
      BY <1>1
    <3> HIDE DEF bound
    <3>6. /\ pc = "enroll" => Leaked + Slack <= faults + Replaced
          /\ pc \in {"verify", "import"} => Leaked + Slack <= faults + Replaced + 1
          /\ pc = "verify" /\ slots[slot] = Garbage => Leaked + Slack <= faults + Replaced
          /\ pc = "remove" => Leaked + Slack <= faults + 2
          /\ pc = "revoke" => Leaked + Slack <= faults + bound
      BY DEF LeakInv, bound
    <3>7. /\ pc = "enroll" => Leaked' + Slack' <= faults' + Replaced
          /\ pc \in {"verify", "import"} => Leaked' + Slack' <= faults' + Replaced + 1
          /\ pc = "verify" /\ slots[slot] = Garbage => Leaked' + Slack' <= faults' + Replaced
          /\ pc = "remove" => Leaked' + Slack' <= faults' + 2
          /\ pc = "revoke" => Leaked' + Slack' <= faults' + bound
      BY <1>2, <3>1, <3>3, <3>5, <3>6
    <3> QED BY <1>1, <1>2, <3>2, <3>5, <3>7 DEF LeakInv, Reenrolling, bound
  <2>3. SiteInv'
    BY <1>1, <1>2, <2>1
    DEF SiteInv, Reenrolling, HeaderReadable, HeaderWritable, StickReadable,
        ScriptInv, TypeOK, Usb
  <2> QED BY <2>2, <2>3
<1> QED BY <1>3, <1>4
-----------------------------------------------------------------------------
(* reenroll(). *)

(* Once it has returned one count is left. *)
LEMMA ReturnLeak ==
  ASSUME SiteInv, Leaked' <= faults' + Known', TokenIds(tokens)' = TokenIds(tokens),
         pc' = "done" \/ (pc' = "drive" /\ act' \in {"EmitRescueKey", "EmitFingerprintKey"})
  PROVE  LeakInv' /\ SiteInv'
PROOF
<1>1. LeakInv'
  BY OutsideLeak DEF Executes, Writing
<1>2. SiteInv'
  BY DEF SiteInv, Executes, Writing, Reenrolling
<1> QED BY <1>1, <1>2

(* The fingerprint a re-enrollment replaces is one the volume knows. *)
LEMMA ReplacedKnown ==
  ASSUME IInv, SiteInv, pc \in Writing
  PROVE  /\ Replaced <= Known /\ Replaced \in 0..1 /\ Known \in 0..1
         /\ pc \in {"remove", "revoke"} => Known = 1
         /\ Slack = 0 \/ Slack = 1
         /\ Reenrolling /\ ~(Authorized /\ HeaderWritable) => Slack = 1
PROOF
<1> USE DEF IInv
<1>1. /\ Replaced \in 0..1 /\ Known \in 0..1 /\ (Slack = 0 \/ Slack = 1)
  BY DEF Replaced, Known, Slack
<1>2. pc \in {"remove", "revoke"} => Known = 1
  BY DEF NewTokenInv, SiteInv, Known
<1>3. pc \notin {"remove", "revoke"} => Replaced <= Known
  BY <1>1 DEF Replaced, Known, TokenCurrent, ReplacementPending, Writing
<1>4. Reenrolling /\ ~HeaderWritable => Slack = 1
  BY DEF SiteInv, Slack
<1>5. Reenrolling /\ ~Authorized => Slack = 1
  <2>1. Opens(keyfile) /\ keyfile # NoKey
    BY WritingKeys, KeyAssumption DEF SiteInv, AdminKeys
  <2>2. usb # "lost" => StickReadable
    BY DEF SiteInv, TypeOK, Usb, StickReadable
  <2> QED BY <1>4, <2>1, <2>2 DEF Authorized, KeyfileReadable, Slack
<1> QED BY <1>1, <1>2, <1>3, <1>4, <1>5

(* The commands that write nothing, and the errors. *)
LEMMA ReturnsLeak ==
  ASSUME IInv, LeakInv, SiteInv, RoomForFaults,
         \/ VerifyKeyslot \/ ReenrollEnds \/ ReenrollFails
         \/ EmitFingerprintKey \/ EmitRescueKey \/ ExitWithError
  PROVE  LeakInv' /\ SiteInv'
PROOF
<1> USE DEF IInv, volume, env, ctx, enr, Executes
<1>1. UNCHANGED volume /\ UNCHANGED <<keyfile, usb, detached, token>>
  BY DEF VerifyKeyslot, ReenrollEnds, ReenrollFails, EmitFingerprintKey,
         EmitRescueKey, Emit, ExitWithError
<1>2. /\ Leaked' = Leaked /\ Known' = Known /\ slots' = slots
      /\ TokenIds(tokens)' = TokenIds(tokens)
      /\ Leaked \in Nat /\ faults \in Nat
  BY <1>1, Unwritten, LeakedType DEF TypeOK
<1>3. CASE VerifyKeyslot
  <2>1. /\ pc = "verify" /\ pc' = "import"
        /\ UNCHANGED <<faults, keyfile, usb, detached, token, slot, act>>
    BY <1>3 DEF VerifyKeyslot
  <2>2. Leaked' + Slack' <= faults' + Replaced' + 1
    BY <1>2, <2>1 DEF LeakInv, Slack, Replaced
  <2>3. LeakInv'
    BY <2>1, <2>2 DEF LeakInv, Reenrolling
  <2>4. SiteInv'
    BY <1>2, <2>1 DEF SiteInv, Writing, Reenrolling, HeaderWritable
  <2> QED BY <2>3, <2>4
<1>4. CASE ReenrollEnds
  <2>1. /\ pc = "revoke" /\ revoke = {} /\ pc \in Writing /\ faults' = faults
        /\ pc' = "drive" /\ act' = "EmitRescueKey"
    BY <1>4, WritingKeys, Driven, DriveArms DEF ReenrollEnds, Writing
  <2>2. Known = 1 /\ (Slack = 0 \/ Slack = 1)
    BY <2>1, ReplacedKnown
  <2>3. Leaked <= faults + Known
    BY <1>2, <2>1, <2>2 DEF LeakInv
  <2> QED BY <1>2, <2>1, <2>3, ReturnLeak
<1>5. CASE EmitFingerprintKey \/ EmitRescueKey \/ ExitWithError
  <2>1. pc = "drive" /\ pc' = "done" /\ (faults' = faults \/ faults' = faults + 1)
    BY <1>5 DEF EmitFingerprintKey, EmitRescueKey, Emit, ExitWithError, Charge
  <2>2. Leaked <= faults' + Known
    <3>1. Leaked <= faults + Known
      BY <2>1 DEF LeakInv, Reenrolling
    <3>2. Known \in 0..1
      BY DEF Known
    <3> QED BY <1>2, <2>1, <3>1, <3>2
  <2> QED BY <1>2, <2>1, <2>2, ReturnLeak
<1>6. CASE ReenrollFails
  <2>1. /\ pc' = "drive" /\ act' = "EmitRescueKey"
    <3>1. st = "RescueAvailable"
      BY <1>6 DEF ReenrollFails, Blocked, ScriptInv, Writing
    <3> QED BY <1>6, <3>1, Driven, DriveArms DEF ReenrollFails
  <2>2. CASE pc = "drive"
    <3>1. Leaked <= faults + Known /\ Known \in 0..1
      BY <2>2 DEF LeakInv, Reenrolling, Known
    <3>2. faults' = faults \/ faults' = faults + 1
      BY <1>6 DEF ReenrollFails, Charge
    <3>3. Leaked <= faults' + Known
      BY <1>2, <3>1, <3>2
    <3> QED BY <1>2, <2>1, <3>3, ReturnLeak
  <2>3. CASE pc # "drive"
    <3>1. pc \in Writing
      BY <1>6, <2>3 DEF ReenrollFails, Blocked, Writing
    <3>2. /\ Replaced <= Known /\ Replaced \in 0..1 /\ Known \in 0..1
          /\ pc \in {"remove", "revoke"} => Known = 1
          /\ Slack = 0 \/ Slack = 1
          /\ Reenrolling /\ ~(Authorized /\ HeaderWritable) => Slack = 1
      BY <3>1, ReplacedKnown
    <3>3. pc = "import" => CanImport
      BY ImportHasRoom DEF RoomForFaults
    <3>4. \/ faults' = faults + 1
          \/ faults' = faults /\ (pc = "enroll" \/ (pc \in {"import", "remove", "revoke"} /\ Slack = 1))
      BY <1>6, <2>3, <3>2, <3>3 DEF ReenrollFails, Charge, Blocked, Reenrolling
    <3>5. Leaked + Slack <= faults + Known + 1 /\ (pc = "enroll" => Leaked + Slack <= faults + Known)
      <4>1. CASE pc = "enroll"
        BY <1>2, <3>2, <4>1 DEF LeakInv
      <4>2. CASE pc \in {"verify", "import"}
        BY <1>2, <3>2, <4>2 DEF LeakInv
      <4>3. CASE pc = "remove"
        BY <1>2, <3>2, <4>3 DEF LeakInv
      <4>4. CASE pc = "revoke"
        <5>1. Leaked + Slack <= faults + 1 \/ Leaked + Slack <= faults + 2
          BY <4>4 DEF LeakInv
        <5> QED BY <1>2, <3>2, <4>4, <5>1
      <4> QED BY <3>1, <4>1, <4>2, <4>3, <4>4 DEF Writing
    <3>6. Leaked <= faults' + Known
      BY <1>2, <3>2, <3>4, <3>5
    <3> QED BY <1>2, <2>1, <3>6, ReturnLeak
  <2> QED BY <2>2, <2>3
<1> QED BY <1>3, <1>4, <1>5, <1>6
-----------------------------------------------------------------------------
(* The commands that write the volume. *)

(* A keyslot more is paid for when it is left behind: by the token it       *)
(* replaces, or by the fault that stopped reenroll().                       *)
LEMMA AddLeak ==
  ASSUME IInv, LeakInv, SiteInv, AddNewKeyslot
  PROVE  LeakInv' /\ SiteInv'
PROOF
<1> USE DEF IInv, volume, env, ctx, enr
<1>1. pc = "enroll" /\ pc \in Writing /\ HeaderWritable
  BY DEF AddNewKeyslot, Writing, Authorized
<1>2. PICK late \in Unseen, good \in BOOLEAN, ok \in BOOLEAN,
            secret \in Secrets, x \in FreeSlots :
        /\ Charge(late # {} \/ ~good \/ ~ok)
        /\ SetSlot(x, IF good THEN secret ELSE Garbage) /\ slot' = x
        /\ Proceed(ok, "verify")
  BY DEF AddNewKeyslot, AddKeyslot
<1>3. /\ x \in SlotIds /\ slots[x] = NoKey
      /\ secret \notin AdminKeys \cup {NoKey, Garbage}
  BY <1>2, SecretsApart DEF FreeSlots
<1>4. Leaked' = Leaked + 1
  BY <1>2, <1>3, SlotCounts, KeyAssumption DEF TypeOK
<1>5. /\ UNCHANGED <<keyfile, usb, detached, token, tokens>>
      /\ slots'[x] = IF good THEN secret ELSE Garbage
      /\ TokenIds(tokens)' = TokenIds(tokens) /\ HwidIds' = HwidIds
  BY <1>2, <1>3 DEF AddNewKeyslot, SetSlot, TokenIds, HwidIds, TypeOK, VolumeTypeOK
<1>6. Known' = Known /\ Replaced' = Replaced /\ Slack' = Slack
  BY <1>5 DEF Known, Replaced, Slack
<1>7. /\ Replaced <= Known /\ Replaced \in 0..1 /\ Known \in 0..1
      /\ Slack = 0 \/ Slack = 1
      /\ Leaked \in Nat /\ faults \in Nat
  BY <1>1, ReplacedKnown, LeakedType DEF TypeOK
<1>8. Leaked + Slack <= faults + Replaced
  BY <1>1 DEF LeakInv
<1>9. /\ faults' = faults \/ faults' = faults + 1
      /\ ~good \/ ~ok => faults' = faults + 1
  BY <1>2 DEF Charge
<1>10. CASE ok
  <2>1. pc' = "verify" /\ act' = act
    BY <1>2, <1>10 DEF Proceed
  <2>2. slots'[slot'] = Garbage => faults' = faults + 1
    BY <1>2, <1>3, <1>5, <1>9
  <2>3. Leaked' + Slack' <= faults' + Replaced' + 1
    BY <1>4, <1>6, <1>7, <1>8, <1>9
  <2>4. faults' = faults + 1 => Leaked' + Slack' <= faults' + Replaced'
    BY <1>4, <1>6, <1>7, <1>8
  <2>5. LeakInv'
    BY <2>1, <2>2, <2>3, <2>4 DEF LeakInv, Reenrolling, Executes
  <2>6. SiteInv'
    BY <1>1, <1>5, <2>1
    DEF SiteInv, Writing, Executes, Reenrolling, HeaderWritable
  <2> QED BY <2>5, <2>6
<1>11. CASE ~ok
  <2>1. pc' = "drive" /\ act' = "EmitRescueKey"
    BY <1>1, <1>2, <1>11, WritingKeys, Driven, DriveArms DEF Proceed
  <2>2. faults' = faults + 1
    BY <1>9, <1>11
  <2>3. Leaked' <= faults' + Known'
    BY <1>4, <1>6, <1>7, <1>8, <2>2
  <2> QED BY <1>5, <2>1, <2>3, ReturnLeak
<1> QED BY <1>10, <1>11

(* The keyslot of a failed test goes, or a fault let it stay. *)
LEMMA RejectLeak ==
  ASSUME IInv, LeakInv, SiteInv, RejectKeyslot
  PROVE  LeakInv' /\ SiteInv'
PROOF
<1> USE DEF IInv, volume, env, ctx, enr
<1>1. pc = "verify" /\ pc \in Writing
  BY DEF RejectKeyslot, Writing
<1>2. PICK tests \in BOOLEAN, kills \in BOOLEAN :
        /\ Charge(~tests \/ ~kills)
        /\ ~(tests /\ HeaderReadable /\ Opens(meta.secret))
        /\ IF kills /\ Authorized THEN KillSlot(slot) ELSE UNCHANGED volume
        /\ pc' = "drive" /\ act' = "EmitRescueKey"
  BY <1>1, WritingKeys, Driven, DriveArms DEF RejectKeyslot
<1>3. /\ slot \in FingerprintSlots /\ slot \in SlotIds
      /\ slots[slot] \in {meta.secret, Garbage}
  BY <1>1, SecretsApart, KeyAssumption DEF NewKeyslotInv, Metadata, FingerprintSlots
<1>4. TokenIds(tokens)' = TokenIds(tokens) /\ HwidIds' = HwidIds
  BY <1>2 DEF KillSlot, SetSlot, TokenIds, HwidIds
<1>5. Known' = Known
  BY <1>4 DEF Known
<1>6. /\ Replaced <= Known /\ Replaced \in 0..1 /\ Known \in 0..1
      /\ Slack = 0 \/ Slack = 1
      /\ ~Authorized => Slack = 1
      /\ Leaked \in Nat /\ faults \in Nat
  BY <1>1, ReplacedKnown, LeakedType DEF TypeOK, Reenrolling
<1>7. Leaked + Slack <= faults + Replaced + 1
  BY <1>1 DEF LeakInv
<1>8. faults' = faults \/ faults' = faults + 1
  BY <1>2 DEF Charge
<1>9. Leaked' <= faults' + Known'
  <2>1. CASE kills /\ Authorized
    <3>1. Leaked' = Leaked - 1
      BY <1>2, <1>3, <2>1, SlotCounts DEF KillSlot, TypeOK
    <3> QED BY <1>5, <1>6, <1>7, <1>8, <3>1
  <2>2. CASE ~(kills /\ Authorized)
    <3>1. Leaked' = Leaked
      BY <1>2, <2>2, Unwritten
    <3>2. faults' = faults + 1 \/ Slack = 1
      BY <1>2, <1>6, <2>2 DEF Charge
    <3> QED BY <1>5, <1>6, <1>7, <1>8, <3>1, <3>2
  <2> QED BY <2>1, <2>2
<1> QED BY <1>2, <1>4, <1>9, ReturnLeak

(* The new token makes the keyslot a fingerprint the volume knows. *)
LEMMA ImportLeak ==
  ASSUME IInv, LeakInv, SiteInv, ImportNewToken
  PROVE  LeakInv' /\ SiteInv'
PROOF
<1> USE DEF IInv, volume, env, ctx, enr
<1>1. pc = "import" /\ pc \in Writing
  BY DEF ImportNewToken, Writing
<1>2. PICK t \in FreeTokenIds, ok \in BOOLEAN :
        /\ Charge(~ok)
        /\ tokens' = [tokens EXCEPT ![t] = meta] /\ slots' = slots
        /\ Proceed(ok, IF token = NoToken THEN "revoke" ELSE "remove")
  BY DEF ImportNewToken, ImportToken
<1>3. /\ slot \in FingerprintSlots /\ meta \in Metadata
  BY <1>1, SecretsApart, KeyAssumption DEF NewKeyslotInv, Metadata, FingerprintSlots
<1>4. /\ TokenIds(tokens)' = TokenIds(tokens) /\ HwidIds' # {}
      /\ FingerprintSlots' = FingerprintSlots /\ Leaked' = Leaked
      /\ UNCHANGED <<keyfile, usb, detached, token, slot, revoke>>
  BY <1>2, <1>3, TokenAssumption
  DEF FreeTokenIds, TokenIds, HwidIds, FingerprintSlots, Leaked, ImportNewToken,
      TypeOK, VolumeTypeOK
<1>5. Known' = 1 /\ Replaced' = Replaced /\ Slack' = Slack /\ revoke = {}
  BY <1>1, <1>4 DEF Known, Replaced, Slack, RevokeInv
<1>6. /\ Replaced = 0 \/ Replaced = 1
      /\ Slack = 0 \/ Slack = 1
      /\ Leaked \in Nat /\ faults \in Nat
  BY LeakedType DEF TypeOK, Replaced, Slack
<1>7. Leaked + Slack <= faults + Replaced + 1
  BY <1>1 DEF LeakInv
<1>8. /\ faults' = faults \/ faults' = faults + 1
      /\ ~ok => faults' = faults + 1
  BY <1>2 DEF Charge
<1>9. CASE ok
  <2>1. /\ act' = act
        /\ pc' = IF token = NoToken THEN "revoke" ELSE "remove"
    BY <1>2, <1>9 DEF Proceed
  <2>2. Leaked' + Slack' <= faults' + 2 /\ (token = NoToken => Leaked' + Slack' <= faults' + 1)
    <3>1. token = NoToken => Replaced = 0
      BY DEF Replaced
    <3> QED BY <1>4, <1>5, <1>6, <1>7, <1>8, <3>1
  <2>3. LeakInv'
    BY <1>4, <1>5, <2>1, <2>2 DEF LeakInv, Reenrolling, Executes
  <2>4. SiteInv'
    BY <1>1, <1>3, <1>4, <1>5, <2>1
    DEF SiteInv, Writing, Executes, Reenrolling, HeaderWritable
  <2> QED BY <2>3, <2>4
<1>10. CASE ~ok
  <2>1. pc' = "drive" /\ act' = "EmitRescueKey"
    BY <1>1, <1>2, <1>10, WritingKeys, Driven, DriveArms DEF Proceed
  <2>2. Leaked' <= faults' + Known'
    <3>1. faults' = faults + 1
      BY <1>8, <1>10
    <3> QED BY <1>4, <1>5, <1>6, <1>7, <3>1
  <2> QED BY <1>4, <2>1, <2>2, ReturnLeak
<1> QED BY <1>9, <1>10

(* The old token gone, its keyslots are there to be revoked. *)
LEMMA RemoveLeak ==
  ASSUME IInv, LeakInv, SiteInv, RemoveOldToken
  PROVE  LeakInv' /\ SiteInv'
PROOF
<1> USE DEF IInv, volume, env, ctx, enr
<1>1. pc = "remove" /\ pc \in Writing
  BY DEF RemoveOldToken, Writing
<1>2. /\ token # NoToken /\ token.secret # meta.secret /\ meta \in Metadata
      /\ token_id \in HwidIds /\ tokens[token_id] = token
      /\ slot \in SlotIds /\ slots[slot] = meta.secret
  BY <1>1 DEF NewTokenInv, TokenCurrent, ReplacementPending, Writing
<1>3. PICK ok \in BOOLEAN : Charge(~ok) /\ Proceed(ok, "revoke")
  BY DEF RemoveOldToken
<1>4. /\ tokens' = [tokens EXCEPT ![token_id] = NoToken] /\ slots' = slots
      /\ revoke' = token.keyslots \ {slot}
      /\ UNCHANGED <<keyfile, usb, detached, token, slot>>
  BY <1>2 DEF RemoveOldToken, RemoveToken, KeyslotsOf
<1>5. HwidIds' # {}
  BY RemoveStep
<1>6. revoke' = token.keyslots /\ revoke' # {} /\ revoke' \subseteq FingerprintSlots
  <2>1. \A s \in token.keyslots : s \in SlotIds /\ slots[s] = token.secret
    BY <1>2, TokenSecrets DEF TokensBacked
  <2>2. token.keyslots # {} /\ token.secret \in Secrets
    BY <1>2, TokenSecrets DEF TokensBacked
  <2>3. token.keyslots \subseteq FingerprintSlots
    BY <2>1, <2>2, SecretsApart DEF FingerprintSlots
  <2>4. slot \notin token.keyslots
    BY <1>2, <2>1
  <2> QED BY <1>4, <2>2, <2>3, <2>4
<1>7. slot \in FingerprintSlots \ revoke'
  BY <1>2, <1>4, SecretsApart DEF FingerprintSlots, Metadata
<1>8. /\ TokenIds(tokens)' = TokenIds(tokens)
      /\ FingerprintSlots' = FingerprintSlots /\ Leaked' = Leaked
      /\ Known' = 1 /\ Slack' = Slack
  BY <1>2, <1>4, <1>5, TokenAssumption
  DEF TokenIds, HwidIds, FingerprintSlots, Leaked, Known, Slack, TypeOK, VolumeTypeOK
<1>9. /\ Slack = 0 \/ Slack = 1
      /\ Leaked \in Nat /\ faults \in Nat
      /\ Leaked + Slack <= faults + 2
  BY <1>1, LeakedType DEF TypeOK, Slack, LeakInv
<1>10. /\ faults' = faults \/ faults' = faults + 1
       /\ ~ok => faults' = faults + 1
  BY <1>3 DEF Charge
<1>11. CASE ok
  <2>1. pc' = "revoke" /\ act' = act
    BY <1>3, <1>11 DEF Proceed
  <2>2. Leaked' + Slack' <= faults' + 2
    BY <1>8, <1>9, <1>10
  <2>3. LeakInv'
    BY <1>6, <2>1, <2>2 DEF LeakInv, Reenrolling, Executes
  <2>4. SiteInv'
    BY <1>1, <1>4, <1>5, <1>6, <1>7, <1>8, <2>1
    DEF SiteInv, Writing, Executes, Reenrolling, HeaderWritable
  <2> QED BY <2>3, <2>4
<1>12. CASE ~ok
  <2>1. pc' = "drive" /\ act' = "EmitRescueKey"
    BY <1>1, <1>3, <1>12, WritingKeys, Driven, DriveArms DEF Proceed
  <2>2. Leaked' <= faults' + Known'
    <3>1. faults' = faults + 1
      BY <1>10, <1>12
    <3> QED BY <1>8, <1>9, <3>1
  <2> QED BY <1>8, <2>1, <2>2, ReturnLeak
<1> QED BY <1>11, <1>12

(* Each keyslot of the old token is one less. *)
LEMMA RevokeLeak ==
  ASSUME IInv, LeakInv, SiteInv, RevokeOldKeyslot
  PROVE  LeakInv' /\ SiteInv'
PROOF
<1> USE DEF IInv, volume, env, ctx, enr
<1>1. pc = "revoke" /\ pc \in Writing
  BY DEF RevokeOldKeyslot, Writing
<1>2. PICK x \in revoke, ok \in BOOLEAN :
        /\ SetSlot(x, NoKey) /\ revoke' = revoke \ {x}
        /\ Charge(~ok) /\ Proceed(ok, "revoke")
  BY DEF RevokeOldKeyslot, KillSlot
<1>3. /\ revoke # {} /\ x \in FingerprintSlots /\ x \in SlotIds
      /\ HwidIds # {} /\ slot \in FingerprintSlots \ revoke
      /\ revoke \subseteq FingerprintSlots
  BY <1>1, <1>2 DEF SiteInv, FingerprintSlots
<1>4. Leaked' = Leaked - 1 /\ FingerprintSlots' = FingerprintSlots \ {x}
  BY <1>2, <1>3, SlotCounts DEF TypeOK
<1>5. /\ TokenIds(tokens)' = TokenIds(tokens) /\ HwidIds' = HwidIds
      /\ UNCHANGED <<keyfile, usb, detached, token, slot>>
  BY <1>2 DEF SetSlot, TokenIds, HwidIds, RevokeOldKeyslot
<1>6. Known' = 1 /\ Slack' = Slack
  BY <1>3, <1>5 DEF Known, Slack
<1>7. /\ Slack = 0 \/ Slack = 1
      /\ Leaked \in Nat /\ faults \in Nat
      /\ Leaked + Slack <= faults + 2
  BY <1>1, <1>3, LeakedType DEF TypeOK, Slack, LeakInv
<1>8. faults' = faults \/ faults' = faults + 1
  BY <1>2 DEF Charge
<1>9. Leaked' + Slack' <= faults' + 1
  BY <1>4, <1>6, <1>7, <1>8
<1>10. CASE ok
  <2>1. pc' = "revoke" /\ act' = act
    BY <1>2, <1>10, <1>1 DEF Proceed
  <2>2. Leaked' + Slack' <= faults' + 2
    BY <1>4, <1>6, <1>7, <1>8
  <2>3. LeakInv'
    BY <1>9, <2>1, <2>2 DEF LeakInv, Reenrolling, Executes
  <2>4. SiteInv'
    BY <1>1, <1>2, <1>3, <1>4, <1>5, <2>1
    DEF SiteInv, Writing, Executes, Reenrolling, HeaderWritable
  <2> QED BY <2>3, <2>4
<1>11. CASE ~ok
  <2>1. pc' = "drive" /\ act' = "EmitRescueKey"
    BY <1>1, <1>2, <1>11, WritingKeys, Driven, DriveArms DEF Proceed
  <2>2. Leaked' <= faults' + Known'
    BY <1>4, <1>6, <1>7, <1>8
  <2> QED BY <1>5, <2>1, <2>2, ReturnLeak
<1> QED BY <1>10, <1>11
-----------------------------------------------------------------------------
(* What follows. *)

(* Every step keeps the counts. *)
LEMMA NextLeak ==
  ASSUME IInv, LeakInv, SiteInv, RoomForFaults, Next
  PROVE  LeakInv' /\ SiteInv'
PROOF
BY ResetLeak, SearchLeak, HardwareLeak, ReturnsLeak, AddLeak, RejectLeak,
   ImportLeak, RemoveLeak, RevokeLeak
DEF Next, Program, Environment

(* So does a step that changes nothing. *)
LEMMA StutterLeak ==
  ASSUME LeakInv, SiteInv, UNCHANGED vars
  PROVE  LeakInv' /\ SiteInv'
PROOF
<1> USE DEF vars, env, ctx, enr
<1>1. /\ Leaked' = Leaked /\ Known' = Known /\ HwidIds' = HwidIds
      /\ FingerprintSlots' = FingerprintSlots /\ slots' = slots
      /\ TokenIds(tokens)' = TokenIds(tokens)
      /\ Replaced' = Replaced /\ Slack' = Slack
  BY DEF Leaked, Known, FingerprintSlots, HwidIds, TokenIds, Replaced, Slack
<1>2. LeakInv'
  BY <1>1 DEF LeakInv, Reenrolling, Executes, HeaderReadable, StickReadable
<1>3. SiteInv'
  BY <1>1 DEF SiteInv, Writing, Executes, Reenrolling, HeaderReadable,
              HeaderWritable, StickReadable
<1> QED BY <1>2, <1>3

(* The counts hold in every reachable state.                                *)
THEOREM LeakInvariance == RoomForFaults /\ Spec => [](IInv /\ LeakInv /\ SiteInv)
PROOF
<1> SUFFICES ASSUME RoomForFaults PROVE Spec => [](IInv /\ LeakInv /\ SiteInv)
  OBVIOUS
<1> DEFINE Inv == IInv /\ LeakInv /\ SiteInv
<1>1. Init => Inv
  BY InitIInv, InitLeak
<1>2. Inv /\ [Next]_vars => Inv'
  BY NextIInv, StutterIInv, NextLeak, StutterLeak
<1> QED BY <1>1, <1>2, PTL DEF Spec

(* Keyslots pile up only by faults: a boot path that leaves one behind was  *)
(* stopped, or refused, by a fault of its own.                              *)
THEOREM LeaksAreBounded == RoomForFaults /\ Spec => []LeakBound
PROOF
<1>1. ASSUME IInv, LeakInv PROVE LeakBound
  <2>1. /\ Leaked \in Nat /\ faults \in Nat
        /\ Slack = 0 \/ Slack = 1
        /\ Replaced = 0 \/ Replaced = 1
        /\ Known = 0 \/ Known = 1
    BY <1>1, LeakedType DEF IInv, TypeOK, Slack, Replaced, Known
  <2>2. ~Reenrolling => Leaked <= faults + 1
    BY <1>1, <2>1 DEF LeakInv
  <2>3. Reenrolling => Leaked <= faults + 2
    <3>1. CASE pc \in {"verify", "import"}
      BY <1>1, <2>1, <3>1 DEF LeakInv
    <3>2. CASE pc = "remove"
      BY <1>1, <2>1, <3>2 DEF LeakInv
    <3>3. CASE pc = "revoke"
      <4>1. Leaked + Slack <= faults + 1 \/ Leaked + Slack <= faults + 2
        BY <1>1, <3>3 DEF LeakInv
      <4> QED BY <2>1, <4>1
    <3> QED BY <3>1, <3>2, <3>3 DEF Reenrolling
  <2> QED BY <2>2, <2>3 DEF LeakBound, Leaked
<1> QED BY LeakInvariance, <1>1, PTL

(* The count leaves room for one keyslot, and the new one is there.         *)
LEMMA RevokedOne ==
  ASSUME IInv, LeakInv, SiteInv
  PROVE  StaleRevoked
PROOF
<1> SUFFICES ASSUME pc = "revoke", revoke = {}, faults = 0
             PROVE  FingerprintSlots = {slot}
  BY DEF StaleRevoked
<1>1. IsFiniteSet(FingerprintSlots) /\ Leaked \in Nat
  BY LeakedType DEF IInv, TypeOK
<1>2. Leaked <= 1
  <2>1. Slack = 0 \/ Slack = 1
    BY DEF Slack
  <2> QED BY <1>1, <2>1 DEF LeakInv
<1>3. slot \in FingerprintSlots
  BY DEF SiteInv
<1>4. Leaked = 1
  BY <1>1, <1>2, <1>3, FS_EmptySet DEF Leaked
<1>5. PICK x : FingerprintSlots = {x}
  BY <1>1, <1>4, FS_Singleton DEF Leaked
<1> QED BY <1>3, <1>5

(* Without faults a completed re-enrollment leaves one fingerprint keyslot, *)
(* the new one.                                                             *)
THEOREM StaleIsRevoked == RoomForFaults /\ Spec => []StaleRevoked
PROOF
<1>1. IInv /\ LeakInv /\ SiteInv => StaleRevoked
  BY RevokedOne
<1> QED BY LeakInvariance, <1>1, PTL
-----------------------------------------------------------------------------
(* How many components may go. *)

(* The metadata of a new enrollment have the default threshold, and no      *)
(* other thresholds come to the volume.                                     *)
LEMMA QuorumWrites ==
  ASSUME IInv, QuorumInv, AddNewKeyslot \/ ImportNewToken \/ RemoveOldToken
  PROVE  QuorumInv'
PROOF
<1> USE DEF IInv, volume, env, ctx, enr
<1>1. /\ token' = token /\ pc \in Writing
      /\ st = "RescueAvailable" /\ (st' = st \/ st' = "Done")
  BY WritingKeys, ProceedScript
  DEF AddNewKeyslot, ImportNewToken, RemoveOldToken, Writing
<1>2. token' # NoToken => HasDefault(token)'
  BY <1>1 DEF QuorumInv, HasDefault
<1>3. CASE AddNewKeyslot
  <2>1. \A t \in HwidIds' : HasDefault(tokens[t])'
    BY <1>3 DEF AddNewKeyslot, AddKeyslot, SetSlot, HwidIds, QuorumInv, HasDefault
  <2>2. HasDefault(meta)'
    BY <1>3 DEF AddNewKeyslot, HasDefault
  <2> QED BY <1>1, <1>2, <2>1, <2>2 DEF QuorumInv
<1>4. CASE ImportNewToken
  <2>1. PICK t \in FreeTokenIds : tokens' = [tokens EXCEPT ![t] = meta]
    BY <1>4 DEF ImportNewToken, ImportToken
  <2>2. pc = "import" /\ meta' = meta /\ HasDefault(meta)
    BY <1>4 DEF ImportNewToken, QuorumInv
  <2>3. \A u \in HwidIds' : tokens'[u] = meta \/ (u \in HwidIds /\ tokens'[u] = tokens[u])
    BY <2>1 DEF FreeTokenIds, HwidIds, TypeOK, VolumeTypeOK
  <2>4. \A u \in HwidIds' : HasDefault(tokens[u])'
    BY <2>2, <2>3 DEF QuorumInv, HasDefault
  <2>5. HasDefault(meta)'
    BY <2>2 DEF HasDefault
  <2> QED BY <1>1, <1>2, <2>4, <2>5 DEF QuorumInv
<1>5. CASE RemoveOldToken
  <2>1. tokens' = [tokens EXCEPT ![token_id] = NoToken] /\ meta' = meta
    BY <1>5 DEF RemoveOldToken, RemoveToken
  <2>2. \A u \in HwidIds' : u \in HwidIds /\ tokens'[u] = tokens[u]
    BY <2>1 DEF HwidIds, TypeOK, VolumeTypeOK
  <2>3. \A u \in HwidIds' : HasDefault(tokens[u])'
    BY <2>2 DEF QuorumInv, HasDefault
  <2>4. pc' \notin {"verify", "import", "remove"}
    BY <1>5, Driven DEF RemoveOldToken, Proceed
  <2> QED BY <1>1, <1>2, <2>3, <2>4 DEF QuorumInv
<1> QED BY <1>3, <1>4, <1>5

(* The reading of a token, and its quorum. *)
LEMMA QuorumReads ==
  ASSUME IInv, QuorumInv, ReadToken \/ CollectAndRecover
  PROVE  QuorumInv'
PROOF
<1> USE DEF IInv, volume, env, ctx, enr
<1>1. tokens' = tokens /\ HwidIds' = HwidIds /\ hw' = hw /\ pc' = "drive"
  BY Driven DEF ReadToken, CollectAndRecover, HwidIds
<1>2. \A t \in HwidIds' : HasDefault(tokens[t])'
  BY <1>1 DEF QuorumInv, HasDefault
<1>3. CASE ReadToken
  <2>1. st' \in {"TokenLoaded", "TokenAbsent"}
    BY <1>3, DriveArms DEF ReadToken, Executes, ScriptInv
  <2>2. token' # NoToken => \E t \in HwidIds : token' = tokens[t]
    BY <1>3 DEF ReadToken
  <2>3. token' # NoToken => HasDefault(token)'
    BY <2>2 DEF QuorumInv, HasDefault
  <2> QED BY <1>1, <1>2, <2>1, <2>3 DEF QuorumInv
<1>4. CASE CollectAndRecover
  <2>1. /\ token # NoToken /\ token' = token /\ st = "TokenLoaded"
        /\ token \in Metadata
    BY <1>4 DEF CollectAndRecover, Executes, ScriptInv, TypeOK
  <2>2. HasDefault(token)'
    BY <2>1 DEF QuorumInv, HasDefault
  <2>3. PICK late \in Unseen :
          /\ Charge(late # {})
          /\ \/ Drive("QuorumMet")
             \/ Drive("QuorumNotMet") /\ ~QuorumMet(token, Present \ late)
    BY <1>4 DEF CollectAndRecover
  <2>4. ASSUME st' = "QuorumFailed", faults' = 0, token.ids \cap RescueIds = {}
        PROVE  Cardinality(token.ids \cap hw) < token.k
    <3>1. late = {} /\ ~QuorumMet(token, Present \ late)
      BY <2>1, <2>3, <2>4, DriveArms DEF Charge, TypeOK
    <3>2. token.ids \cap (Present \ late) = token.ids \cap hw
      BY <2>4, <3>1 DEF Present
    <3>3. IsFiniteSet(token.ids \cap hw) /\ token.k \in Nat
      BY <2>1, IdAssumption, FS_Subset DEF Metadata
    <3>4. Cardinality(token.ids \cap hw) \in Nat
      BY <3>3, FS_CardinalityType
    <3>5. ~(Cardinality(token.ids \cap (Present \ late)) >= token.k)
      BY <3>1 DEF QuorumMet
    <3> QED BY <3>2, <3>3, <3>4, <3>5
  <2> QED BY <1>1, <1>2, <2>1, <2>2, <2>4 DEF QuorumInv
<1> QED BY <1>3, <1>4

(* Everything else leaves tokens and thresholds alone; the machine changes  *)
(* only while it is off.                                                    *)
LEMMA QuorumKeeps ==
  ASSUME IInv, QuorumInv, UNCHANGED <<tokens, token>>,
         meta' = meta \/ meta' = [meta EXCEPT !.keyslots = {slot}],
         pc' \in {"verify", "import", "remove"} => pc \in {"verify", "import", "remove"},
         st' = "QuorumFailed" => st = "QuorumFailed" /\ hw' = hw,
         faults' = faults \/ faults' = faults + 1
  PROVE  QuorumInv'
PROOF
<1>1. \A t \in HwidIds' : HasDefault(tokens[t])'
  BY DEF HwidIds, QuorumInv, HasDefault
<1>2. pc' \in {"verify", "import", "remove"} => HasDefault(meta)'
  <2>1. ASSUME pc \in {"verify", "import"} PROVE meta'.k = meta.k /\ meta'.ids = meta.ids
    BY <2>1 DEF IInv, NewKeyslotInv, Metadata
  <2>2. ASSUME pc = "remove" PROVE meta'.k = meta.k /\ meta'.ids = meta.ids
    BY <2>2 DEF IInv, NewTokenInv, Metadata
  <2> QED BY <2>1, <2>2 DEF QuorumInv, HasDefault
<1>3. faults' = 0 => faults = 0
  BY DEF IInv, TypeOK
<1> QED BY <1>1, <1>2, <1>3 DEF QuorumInv, HasDefault

(* Every step keeps it. *)
LEMMA NextQuorum ==
  ASSUME IInv, QuorumInv, Next
  PROVE  QuorumInv'
PROOF
<1> USE DEF IInv, volume, env, ctx, enr
<1>1. CASE AddNewKeyslot \/ ImportNewToken \/ RemoveOldToken
  BY <1>1, QuorumWrites
<1>2. CASE ReadToken \/ CollectAndRecover
  BY <1>2, QuorumReads
<1>3. CASE PowerOff \/ PowerCut
  <2>1. /\ pc' = "off" /\ st' = "Init" /\ token' = NoToken /\ tokens' = tokens
    BY <1>3 DEF PowerOff, PowerCut, Reset
  <2> QED BY <2>1 DEF QuorumInv, HwidIds, HasDefault
<1>4. CASE SearchUsb \/ RejectKeyslot \/ ReenrollEnds \/ ReenrollFails \/ RevokeOldKeyslot
  <2>1. /\ UNCHANGED <<tokens, token, meta, hw>>
        /\ faults' = faults \/ faults' = faults + 1
        /\ pc' \in {"drive", "revoke"}
    BY <1>4, Driven
    DEF SearchUsb, RejectKeyslot, ReenrollEnds, ReenrollFails, RevokeOldKeyslot,
        KillSlot, SetSlot, Charge, Proceed
  <2>2. st' # "QuorumFailed"
    <3>1. CASE SearchUsb
      BY <3>1, DriveArms DEF SearchUsb, Executes, ScriptInv
    <3>2. CASE RejectKeyslot \/ ReenrollEnds \/ ReenrollFails \/ RevokeOldKeyslot
      <4>1. st = "RescueAvailable"
        BY <3>2 DEF RejectKeyslot, ReenrollEnds, ReenrollFails, RevokeOldKeyslot,
                    Blocked, Executes, ScriptInv, Writing
      <4> QED BY <3>2, <4>1, DriveArms
          DEF RejectKeyslot, ReenrollEnds, ReenrollFails, RevokeOldKeyslot, Proceed
    <3> QED BY <1>4, <3>1, <3>2
  <2> QED BY <2>1, <2>2, QuorumKeeps
<1>5. CASE \/ ResolveHeader \/ BackupHeader \/ VerifyKeyslot \/ EmitFingerprintKey
           \/ EmitRescueKey \/ ExitWithError \/ PowerOn \/ InsertStick \/ PullStick
  <2>1. /\ UNCHANGED <<tokens, token, hw>>
        /\ faults' = faults \/ faults' = faults + 1
        /\ meta' = meta \/ meta' = [meta EXCEPT !.keyslots = {slot}]
    BY <1>5
    DEF ResolveHeader, BackupHeader, VerifyKeyslot, EmitFingerprintKey,
        EmitRescueKey, Emit, ExitWithError, PowerOn, InsertStick, PullStick, Charge
  <2>2. pc' \in {"verify", "import", "remove"} => pc \in {"verify", "import", "remove"}
    BY <1>5, Driven
    DEF ResolveHeader, BackupHeader, VerifyKeyslot, EmitFingerprintKey,
        EmitRescueKey, Emit, ExitWithError, PowerOn, InsertStick, PullStick
  <2>3. st' = "QuorumFailed" => st = "QuorumFailed"
    <3>1. CASE ResolveHeader
      <4>1. st = "Init"
        BY <3>1 DEF ResolveHeader, ScriptInv
      <4>2. CASE Drive("HeaderFound")
        BY <4>1, <4>2, DriveArms
      <4>3. CASE Step(st, "HeaderMissing", st', act')
        <5>1. <<st, "HeaderMissing", "NoHeader", "Abort">> \in Transitions
          BY <4>1 DEF Transitions, HeaderArms
        <5> QED BY <4>3, <5>1, ArmTaken
      <4> QED BY <3>1, <4>2, <4>3 DEF ResolveHeader
    <3> QED BY <1>5, <3>1
        DEF BackupHeader, VerifyKeyslot, EmitFingerprintKey, EmitRescueKey, Emit,
            ExitWithError, PowerOn, InsertStick, PullStick
  <2> QED BY <2>1, <2>2, <2>3, QuorumKeeps
<1>6. CASE SwapHardware
  <2>1. st' = "Init" /\ UNCHANGED <<tokens, token, meta, pc, faults>>
    BY <1>6 DEF SwapHardware, ScriptInv
  <2> QED BY <2>1, QuorumKeeps
<1> QED BY <1>1, <1>2, <1>3, <1>4, <1>5, <1>6 DEF Next, Program, Environment

(* A quorum missed with three shares or more is missed by two. *)
LEMMA TwoGone ==
  ASSUME NEW n \in Nat, n >= 3, NEW c \in Nat, c < DefaultThreshold(n)
  PROVE  n - c >= 2
PROOF BY DEF DefaultThreshold

(* With the default threshold, that is two components. *)
LEMMA QuorumSwap ==
  ASSUME IInv, QuorumInv, token.ids \cap RescueIds = {}
  PROVE  OneSwapBoots
PROOF
<1> SUFFICES ASSUME st = "QuorumFailed", faults = 0, Cardinality(token.ids) >= 3
             PROVE  Cardinality(token.ids \ (RescueIds \cup hw)) >= 2
  BY DEF OneSwapBoots
<1>1. /\ token \in Metadata /\ token.k = DefaultThreshold(Cardinality(token.ids))
      /\ Cardinality(token.ids \cap hw) < token.k
  BY DEF IInv, TypeOK, QuorumInv, HasDefault
<1>2. token.ids \ (RescueIds \cup hw) = token.ids \ hw
  OBVIOUS
<1>3. IsFiniteSet(token.ids) /\ IsFiniteSet(token.ids \cap hw)
  BY <1>1, IdAssumption, FS_Subset DEF Metadata
<1>4. Cardinality(token.ids \ hw) = Cardinality(token.ids) - Cardinality(token.ids \cap hw)
  BY <1>3, FS_Difference
<1>5. Cardinality(token.ids) \in Nat /\ Cardinality(token.ids \cap hw) \in Nat
  BY <1>3, FS_CardinalityType
<1> QED BY <1>1, <1>2, <1>4, <1>5, TwoGone

(* The README's "Replace one component and the machine boots": without a    *)
(* fault, a boot that misses the quorum of a token with three shares or     *)
(* more is on a machine where two of its components are gone.  A stick that *)
(* was enrolled as a component is one of those gone once it is put away, so *)
(* the token must not hold a share of it.                                   *)
THEOREM OneSwapIsSurvived ==
  Spec => [](token.ids \cap RescueIds = {} => OneSwapBoots)
PROOF
<1>1. Init => QuorumInv
  <2>1. Init => HwidIds = {}
    BY SiteAssumption DEF Init, HwidIds
  <2> QED BY <2>1 DEF Init, QuorumInv
<1>2. IInv /\ QuorumInv /\ UNCHANGED vars => QuorumInv'
  BY DEF vars, env, ctx, enr, QuorumInv, HwidIds, HasDefault
<1>3. IInv /\ QuorumInv /\ [Next]_vars => QuorumInv'
  BY <1>2, NextQuorum
<1>4. IInv /\ QuorumInv => (token.ids \cap RescueIds = {} => OneSwapBoots)
  BY QuorumSwap
<1> QED BY Invariance, <1>1, <1>3, <1>4, PTL DEF Spec
=============================================================================
