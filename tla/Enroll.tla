------------------------------- MODULE Enroll -------------------------------
(***************************************************************************)
(* `luks-hwid enroll` on the running system: run() of                      *)
(* crates/luks-hwid/src/enroll.rs, which writes the same volume as the     *)
(* boot path, through libcryptsetup.  The command is run again and again;  *)
(* between two runs the administrator adds and kills keyslots of his own   *)
(* and hardware is replaced.  A run may be cut anywhere.                   *)
(*                                                                         *)
(* A failed call, a keyslot that does not open and a cut are faults,       *)
(* bounded by MaxFaults; a failure the state forces is not.                *)
(***************************************************************************)
EXTENDS LuksVolume

CONSTANTS
  Machines,       (* the identifier sets the machine may have              *)
  InitialVolumes, (* [slots, tokens] the command may find                  *)
  Thresholds,     (* what --threshold may be given                         *)
  Unset,          (* --threshold is not given                              *)
  MaxFaults       (* bound: faults of the environment                      *)

ASSUME EnrollAssumption ==
  /\ Machines \subseteq SUBSET Ids
  /\ Thresholds \subseteq Nat \cup {Unset} /\ Unset \notin Nat
  /\ MaxFaults \in Nat

(* The volumes the command finds are typed; their luks-hwid tokens are      *)
(* backed by keyslots and can be recovered from, as the program leaves them.*)
ASSUME InitialAssumption ==
  \A v \in InitialVolumes :
    /\ v.slots \in [SlotIds -> AdminKeys \cup Secrets \cup {Garbage, NoKey}]
    /\ v.tokens \in [SlotIds -> Metadata \cup {NoToken, ForeignToken}]
    /\ \A t \in SlotIds : v.tokens[t] \notin {NoToken, ForeignToken} =>
         /\ v.tokens[t].keyslots # {}
         /\ \A s \in v.tokens[t].keyslots : v.slots[s] = v.tokens[t].secret
         /\ 2 <= v.tokens[t].k /\ v.tokens[t].k <= Cardinality(v.tokens[t].ids)

VARIABLES
  hw,             (* identifiers of the machine                            *)
  faults,         (* faults so far                                         *)
  at,             (* where run() is, see Places                            *)
  old_tokens,     (* ids of the tokens still to be removed                 *)
  old_hwid_slots, (* keyslots still to be destroyed                        *)
  slot, meta      (* the new keyslot and its metadata                      *)

locals == <<old_tokens, old_hwid_slots, slot, meta>>
vars   == <<slots, tokens, hw, faults, at, locals>>

Places == {"off", "loaded", "unlocked", "verify", "remove", "revoke", "done"}

TypeOK ==
  /\ VolumeTypeOK
  /\ hw \in SUBSET Ids /\ faults \in 0..MaxFaults /\ at \in Places
  /\ old_tokens \subseteq SlotIds /\ old_hwid_slots \subseteq SlotIds
  /\ slot \in SlotIds \cup {NoId} /\ meta \in Metadata \cup {NoToken}
-----------------------------------------------------------------------------
Charge(bad) ==
  /\ bad => faults < MaxFaults
  /\ faults' = IF bad THEN faults + 1 ELSE faults

(* The process is gone, with all it knew. *)
Exit ==
  /\ at' = "off"
  /\ old_tokens' = {} /\ old_hwid_slots' = {} /\ slot' = NoId /\ meta' = NoToken

(* A call of libcryptsetup returns; `?` leaves run() on an error. *)
Return(ok, next) == IF ok THEN at' = next /\ UNCHANGED locals ELSE Exit

UsedSlots  == SlotIds \ FreeSlots
SlotsNamed == UNION {tokens[t].keyslots : t \in HwidIds}

Init ==
  /\ \E v \in InitialVolumes : slots = v.slots /\ tokens = v.tokens
  /\ hw \in Machines /\ faults = 0 /\ at = "off"
  /\ old_tokens = {} /\ old_hwid_slots = {} /\ slot = NoId /\ meta = NoToken

(* Load the header, note the tokens and the keyslots they name. *)
LoadVolume ==
  /\ at = "off"
  /\ at' = "loaded"
  /\ old_tokens' = HwidIds /\ old_hwid_slots' = SlotsNamed
  /\ UNCHANGED <<volume, hw, faults, slot, meta>>

(* Mutant: the guard of REFUS stands in for the passphrase. *)
RefusOnly ==
  /\ at = "loaded"
  /\ UsedSlots \ old_hwid_slots # {}
  /\ at' = "unlocked"
  /\ UNCHANGED <<volume, hw, faults, locals>>

(* REFUS, unless some keyslot is not a fingerprint's; then the passphrase. *)
Unlock ==
  /\ at = "loaded"
  /\ UsedSlots \ old_hwid_slots # {}
  /\ \E pass \in AdminKeys : Opens(pass)
  /\ at' = "unlocked"
  /\ UNCHANGED <<volume, hw, faults, locals>>

(* Policy: --threshold as given, or the default. *)
Policy(opt, n) == IF opt = Unset THEN DefaultThreshold(n) ELSE opt

(* Mutant: --threshold is not compared with the number of shares. *)
AtLeastTwo(k, n) == 2 <= k /\ 2 <= n

(* luks_hwid_core::enroll: what it accepts. *)
Enrollable(k, n) == 2 <= k /\ k <= n

SecretsInUse == {slots[s] : s \in SlotIds} \cup {tokens[t].secret : t \in HwidIds}

(* Collect, share a new secret and add it, in the lowest free keyslot.  The *)
(* call may succeed over a keyslot that does not open (Garbage), or return  *)
(* an error over one it did write.                                          *)
AddNewKeyslot ==
  /\ at = "unlocked"
  /\ \E opt \in Thresholds, secret \in Secrets, good, ok \in BOOLEAN :
       LET ids == Truncate(hw)
           n   == Cardinality(ids) IN
         /\ Enrollable(Policy(opt, n), n)
         /\ IsLeast(secret, Secrets \ SecretsInUse)
         /\ Charge(~good \/ ~ok)
         /\ \E s \in FreeSlots :
              /\ AddKeyslot(s, IF good THEN secret ELSE Garbage)
              /\ IF ok
                   THEN /\ at' = "verify" /\ slot' = s
                        /\ meta' = [keyslots |-> {}, secret |-> secret,
                                    ids |-> ids, k |-> Policy(opt, n)]
                        /\ UNCHANGED <<old_tokens, old_hwid_slots>>
                   ELSE Exit
  /\ UNCHANGED hw

(* Mutant: the new keyslot is taken to open, untested. *)
TrustKeyslot ==
  /\ at = "verify"
  /\ meta' = [meta EXCEPT !.keyslots = {slot}]
  /\ at' = "remove"
  /\ UNCHANGED <<volume, hw, faults, old_tokens, old_hwid_slots, slot>>

(* Mutant: the keyslot is numbered from 1. *)
NameFromOne ==
  /\ at = "verify"
  /\ slots[slot] = meta.secret
  /\ meta' = [meta EXCEPT !.keyslots = {slot + 1}]
  /\ at' = "remove"
  /\ UNCHANGED <<volume, hw, faults, old_tokens, old_hwid_slots, slot>>

(* The new keyslot opens with the secret: the metadata names it. *)
VerifyKeyslot ==
  /\ at = "verify"
  /\ slots[slot] = meta.secret
  /\ meta' = [meta EXCEPT !.keyslots = {slot}]
  /\ at' = "remove"
  /\ UNCHANGED <<volume, hw, faults, old_tokens, old_hwid_slots, slot>>

(* It does not, or seems not to: destroy it, best effort. *)
RejectKeyslot ==
  /\ at = "verify"
  /\ \E tests, destroys \in BOOLEAN :
       /\ Charge(~tests \/ ~destroys)
       /\ ~(tests /\ slots[slot] = meta.secret)
       /\ IF destroys THEN KillSlot(slot) ELSE UNCHANGED volume
  /\ Exit
  /\ UNCHANGED hw

(* The loop over old_tokens, in the order of their ids. *)
RemoveOldToken ==
  /\ at = "remove"
  /\ \E t \in old_tokens, ok \in BOOLEAN :
       /\ IsLeast(t, old_tokens)
       /\ Charge(~ok)
       /\ RemoveToken(t)
       /\ IF ok THEN old_tokens' = old_tokens \ {t}
                     /\ UNCHANGED <<at, old_hwid_slots, slot, meta>>
                ELSE Exit
  /\ UNCHANGED hw

(* Mutant: the new token is added before the old ones are removed, and     *)
(* they never are.                                                         *)
AddTokenOnly ==
  /\ at = "remove"
  /\ \E t \in FreeTokenIds : ImportToken(t, meta)
  /\ at' = "revoke"
  /\ UNCHANGED <<hw, faults, locals>>

AddNewToken ==
  /\ at = "remove" /\ old_tokens = {}
  /\ \E t \in FreeTokenIds, ok \in BOOLEAN :
       /\ Charge(~ok)
       /\ ImportToken(t, meta)
       /\ Return(ok, "revoke")
  /\ UNCHANGED hw

(* Mutant: all keyslots in use but the new one are destroyed. *)
DestroyUsedSlot ==
  /\ at = "revoke"
  /\ \E s \in UsedSlots \ {slot} : KillSlot(s)
  /\ UNCHANGED <<hw, faults, at, locals>>

(* The loop over old_hwid_slots, the new one skipped. *)
DestroyOldSlot ==
  /\ at = "revoke"
  /\ \E s \in old_hwid_slots \ {slot}, ok \in BOOLEAN :
       /\ Charge(~ok)
       /\ KillSlot(s)
       /\ IF ok THEN old_hwid_slots' = old_hwid_slots \ {s}
                     /\ UNCHANGED <<at, old_tokens, slot, meta>>
                ELSE Exit
  /\ UNCHANGED hw

Enrolled ==
  /\ at = "revoke" /\ old_hwid_slots \subseteq {slot}
  /\ at' = "done"
  /\ UNCHANGED <<volume, hw, faults, locals>>

(* An error that leaves no trace of the failing call: refusals, a wrong     *)
(* passphrase, too few identifiers, a bad threshold, no free keyslot, no    *)
(* room for the token; or a fault.  A cut looks the same to the volume.     *)
Abandon ==
  /\ \/ at \in {"loaded", "unlocked"} /\ Charge(FALSE)
     \/ at = "remove" /\ old_tokens = {} /\ ~CanImport /\ Charge(FALSE)
     \/ at \in {"verify", "remove", "revoke"} /\ Charge(TRUE)
  /\ Exit
  /\ UNCHANGED <<volume, hw>>

Finish ==
  /\ at = "done"
  /\ Exit
  /\ UNCHANGED <<volume, hw, faults>>
-----------------------------------------------------------------------------
(* Between two runs. *)
SwapHardware ==
  /\ at = "off"
  /\ hw' \in Machines \ {hw}
  /\ UNCHANGED <<volume, faults, at, locals>>

AddAdminKeyslot ==
  /\ at = "off"
  /\ \E key \in AdminKeys, s \in FreeSlots : AddKeyslot(s, key)
  /\ UNCHANGED <<hw, faults, at, locals>>

KillAdminKeyslot ==
  /\ at = "off"
  /\ \E s \in SlotIds : slots[s] \in AdminKeys /\ KillSlot(s)
  /\ UNCHANGED <<hw, faults, at, locals>>

Next ==
  \/ LoadVolume \/ Unlock \/ AddNewKeyslot \/ VerifyKeyslot \/ RejectKeyslot
  \/ RemoveOldToken \/ AddNewToken \/ DestroyOldSlot \/ Enrolled \/ Abandon
  \/ Finish \/ SwapHardware \/ AddAdminKeyslot \/ KillAdminKeyslot

Spec == Init /\ [][Next]_vars
-----------------------------------------------------------------------------
(* Properties, besides TokensBacked of LuksVolume. *)

(* A run that ends well is a replacement, whatever interrupted runs left:   *)
(* the volume knows one fingerprint, this machine's, and without faults its *)
(* keyslot is the only one no administrator made.                           *)
EnrollmentReplaces ==
  at = "done" =>
    \E t \in HwidIds :
      /\ HwidIds = {t} /\ tokens[t] = meta
      /\ QuorumMet(meta, hw)
      /\ \A s \in FingerprintSlots : s \in meta.keyslots \/ faults > 0

(* No run destroys a keyslot of the administrator: the numbers it destroys  *)
(* come from tokens read before the prompt, and from the slot it added.     *)
AdminKeyslotsKept ==
  [][at # "off" =>
       \A s \in SlotIds : slots[s] \in AdminKeys => slots'[s] = slots[s]]_vars

(* A token that is written can be recovered from on the machine it is       *)
(* written on, whatever --threshold says and however many identifiers the   *)
(* truncation dropped.                                                      *)
Recoverable ==
  \A t \in HwidIds : 2 <= tokens[t].k /\ tokens[t].k <= Cardinality(tokens[t].ids)

(* run(): "nouveau token d'abord, revocations ensuite".  A volume that      *)
(* knows a fingerprint knows one after every step.                          *)
NewTokenFirst == [][HwidIds # {} => HwidIds' # {}]_vars
=============================================================================
