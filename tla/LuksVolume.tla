----------------------------- MODULE LuksVolume -----------------------------
(***************************************************************************)
(* The persistent state of a volume: the keyslots and the tokens of its    *)
(* LUKS2 header, and the operations crates/luks-hwid/src/luks.rs runs on   *)
(* it through the cryptsetup binary.  Each operation is one atomic update  *)
(* of the header (cryptsetup commits its metadata as a whole), so a power  *)
(* cut falls between operations, never inside one.                         *)
(*                                                                         *)
(* A key is a model value or a number: the numbers are the secrets drawn   *)
(* at enrollment, each different from all that are still in use.  A secret *)
(* no variable mentions any more may be drawn again: a random one that     *)
(* nothing remembers cannot be told from a new one.                        *)
(***************************************************************************)
EXTENDS Fingerprint

CONSTANTS
  MAX_SLOTS,     (* keyslots, and token ids, of a header (32 in luks.rs)   *)
  MaxSecrets,    (* bound: secrets that exist at the same time             *)
  TokenRoom,     (* luks-hwid tokens the JSON area of the header can hold  *)
  Passphrase,    (* the key the administrator types                        *)
  RescueKey,     (* the content of rescue.key on the USB stick             *)
  Garbage,       (* content of a keyslot that no key opens                 *)
  NoKey,         (* content of a free keyslot; also "no key at all"        *)
  NoToken,       (* content of a free token id; also "no token"            *)
  ForeignToken   (* a token Metadata::from_json_str rejects: another type, *)
                 (* an unknown version, or JSON it cannot parse            *)

AdminKeys == {Passphrase, RescueKey}

ASSUME SizeAssumption ==
  MAX_SLOTS \in Nat /\ MaxSecrets \in Nat /\ TokenRoom \in Nat

ASSUME KeyAssumption ==
  /\ Passphrase # RescueKey
  /\ Garbage \notin AdminKeys
  /\ NoKey \notin AdminKeys \cup {Garbage}
  /\ \A x \in AdminKeys \cup {Garbage, NoKey} : x \notin Nat

VARIABLES
  slots,         (* keyslot number -> the key that opens it                *)
  tokens         (* token id -> its content                                *)

volume == <<slots, tokens>>

SlotIds == 0 .. (MAX_SLOTS - 1)
NoId    == MAX_SLOTS           (* no keyslot, no token id *)
Secrets == 1 .. MaxSecrets

(***************************************************************************)
(* What the rest of the program reads of a Metadata: its keyslots, the     *)
(* threshold k, the identifiers whose shares it holds and the secret that  *)
(* k of these shares reconstruct.                                          *)
(***************************************************************************)
Metadata == [keyslots : SUBSET SlotIds, secret : Secrets,
             ids : SUBSET Ids, k : Nat]

ASSUME TokenAssumption ==
  /\ NoToken # ForeignToken
  /\ NoToken \notin Metadata
  /\ ForeignToken \notin Metadata

VolumeTypeOK ==
  /\ slots \in [SlotIds -> AdminKeys \cup Secrets \cup {Garbage, NoKey}]
  /\ tokens \in [SlotIds -> Metadata \cup {NoToken, ForeignToken}]

(* \E x \in S : IsLeast(x, S) picks what a search upwards from 0 finds. *)
IsLeast(x, S) == x \in S /\ \A y \in S : x <= y

FreeSlots    == {s \in SlotIds : slots[s] = NoKey}
FreeTokenIds == {t \in SlotIds : tokens[t] = NoToken}
HwidIds      == {t \in SlotIds : tokens[t] \notin {NoToken, ForeignToken}}

(* test_key: some keyslot opens with this key. *)
Opens(key) == \E s \in SlotIds : slots[s] = key

(* luksAddKey --new-key-slot, luksKillSlot: the content of one keyslot. *)
SetSlot(s, key) ==
  /\ slots' = [slots EXCEPT ![s] = key]
  /\ UNCHANGED tokens

KillSlot(s) == SetSlot(s, NoKey)

(* add_keyslot: the lowest free keyslot of the dump receives the key. *)
AddKeyslot(s, key) ==
  /\ IsLeast(s, FreeSlots)
  /\ SetSlot(s, key)

CanImport == FreeTokenIds # {} /\ Cardinality(HwidIds) < TokenRoom

(* token import: cryptsetup stores the token under the first free id. *)
ImportToken(t, content) ==
  /\ CanImport
  /\ IsLeast(t, FreeTokenIds)
  /\ tokens' = [tokens EXCEPT ![t] = content]
  /\ UNCHANGED slots

RemoveToken(t) ==
  /\ tokens' = [tokens EXCEPT ![t] = NoToken]
  /\ UNCHANGED slots
(* The volume as FingerprintStore sees it. *)
Openers   == {slots[s] : s \in SlotIds} \cap Secrets
Published == {tokens[t].secret : t \in HwidIds}
-----------------------------------------------------------------------------
(* Properties of the volume, whoever writes it. *)

(* The keyslots no administrator made. *)
FingerprintSlots == {s \in SlotIds : slots[s] \notin AdminKeys \cup {NoKey}}

(* A token a boot may read names keyslots, and its shares rebuild a secret  *)
(* that opens each of them: no crash, failed command or retry of a          *)
(* re-enrollment (reenroll() of keyscript.rs, run() of enroll.rs) leaves a  *)
(* token whose keyslot is gone or somebody else's.                          *)
TokensBacked ==
  \A t \in HwidIds :
    /\ tokens[t].keyslots # {}
    /\ \A s \in tokens[t].keyslots : slots[s] = tokens[t].secret
=============================================================================
