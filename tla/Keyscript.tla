----------------------------- MODULE Keyscript -----------------------------
(***************************************************************************)
(* The boot path: crates/luks-hwid/src/keyscript.rs driving the machine of *)
(* fsm.rs over a volume (luks.rs) and a rescue stick (rescue.rs), boot     *)
(* after boot.  A boot is one run of the process; between two boots        *)
(* hardware may be swapped and the stick inserted or pulled, and a power   *)
(* cut may end a boot between any two commands.                            *)
(*                                                                         *)
(* Whatever the environment does wrong during a boot (a command that       *)
(* fails, a write that goes bad, devices that are not seen, a stick        *)
(* pulled, a power cut) is a fault.  MaxFaults bounds the faults of a      *)
(* behaviour; a failure that the state itself forces (no free keyslot, no  *)
(* room for a token, a read-only header) is not one and is not bounded,    *)
(* nor is a stick that cannot be written: it may be locked for good.       *)
(***************************************************************************)
EXTENDS LuksVolume, BootFsm

CONSTANTS
  Machines,       (* the identifier sets the machine may have              *)
  StickKeys,      (* what rescue.key may hold; NoKey: no such file         *)
  Detachments,    (* FALSE: header attached, or at a path that exists;     *)
                  (* TRUE: header on the stick                             *)
  InitialSlots,   (* the keyslots the administrator may have made          *)
  InitialTokens,  (* the tokens there may be before luks-hwid is used      *)
  MaxFaults,      (* bound: faults of the environment                      *)
  MaxSwaps        (* bound: changes of hardware                            *)

ASSUME SiteAssumption ==
  /\ Machines \subseteq SUBSET Ids
  /\ StickKeys \subseteq {RescueKey, NoKey}
  /\ Detachments \subseteq BOOLEAN
  /\ InitialSlots \subseteq [SlotIds -> AdminKeys \cup {NoKey}]
  /\ InitialTokens \subseteq [SlotIds -> {NoToken, ForeignToken}]
  /\ MaxFaults \in Nat /\ MaxSwaps \in Nat

VARIABLES
  hw,             (* identifiers of the machine, the stick's excluded      *)
  swaps,          (* changes of hardware so far                            *)
  inserted,       (* the rescue stick is plugged in                        *)
  keyfile,        (* content of luks-hwid/rescue.key on it                 *)
  detached,       (* the header lives on the stick (header= in crypttab)   *)
  faults,         (* faults so far                                         *)
  pc,             (* where the process is, see Pc                          *)
  st, act,        (* fsm: the state, and the action it ordered last        *)
  usb,            (* ctx.usb: how the stick is mounted, see Usb            *)
  token_id,       (* ctx.token: id and metadata of the token read          *)
  token,
  fingerprint_key,(* ctx.fingerprint_key                                   *)
  rescue_key,     (* ctx.rescue_key                                        *)
  slot, meta,     (* reenroll(): the new keyslot and its metadata          *)
  revoke,         (* reenroll(): the old keyslots still to be killed       *)
  saved,          (* luksHeaderBackup succeeded in this boot               *)
  out             (* the key on stdout when the process exits 0            *)

env  == <<hw, swaps, inserted, keyfile, detached>>
ctx  == <<usb, token_id, token, fingerprint_key, rescue_key>>
enr  == <<slot, meta, revoke, saved>>
vars == <<slots, tokens, env, faults, pc, st, act, ctx, enr, out>>

(***************************************************************************)
(* "drive": the loop of run_inner is about to execute act.  "enroll" to    *)
(* "revoke" are the commands of reenroll() after the backup.               *)
(***************************************************************************)
Pc == {"off", "resolve", "drive", "enroll", "verify", "import", "remove",
       "revoke", "done"}

(* "none" is ctx.usb = None; "lost" is a mount whose stick is gone. *)
Usb == {"none", "ro", "rw", "lost"}

TypeOK ==
  /\ VolumeTypeOK
  /\ hw \in SUBSET Ids /\ swaps \in 0..MaxSwaps /\ inserted \in BOOLEAN
  /\ keyfile \in {RescueKey, NoKey} /\ detached \in BOOLEAN
  /\ faults \in 0..MaxFaults
  /\ pc \in Pc /\ st \in St /\ act \in Action \cup {"None"}
  /\ usb \in Usb
  /\ token_id \in SlotIds \cup {NoId} /\ token \in Metadata \cup {NoToken}
  /\ fingerprint_key \in Secrets \cup {NoKey}
  /\ rescue_key \in {RescueKey, NoKey}
  /\ slot \in SlotIds \cup {NoId} /\ meta \in Metadata \cup {NoToken}
  /\ revoke \in SUBSET SlotIds /\ saved \in BOOLEAN
  /\ out \in AdminKeys \cup Secrets \cup {NoKey}
-----------------------------------------------------------------------------
(* One fault of the environment, when bad. *)
Charge(bad) ==
  /\ bad => faults < MaxFaults
  /\ faults' = IF bad THEN faults + 1 ELSE faults

(* The loop: feed an event to the machine, go on with the action it gives. *)
Drive(ev) ==
  /\ \E n \in St, a \in Action : Step(st, ev, n, a) /\ st' = n /\ act' = a
  /\ pc' = "drive"

Executes(a) == pc = "drive" /\ act = a

(* A command of reenroll() returns: `?` leaves the function on an error. *)
Proceed(ok, next) ==
  IF ok THEN pc' = next /\ UNCHANGED <<st, act>> ELSE Drive("ReenrollFailed")

StickReadable   == usb \in {"ro", "rw"}
KeyfileReadable == StickReadable /\ keyfile # NoKey
HeaderReadable  == detached => StickReadable
HeaderWritable  == detached => usb = "rw"

(* luksAddKey and luksKillSlot authenticate with the keyfile's path. *)
Authorized == HeaderWritable /\ KeyfileReadable /\ Opens(keyfile)

(* What collect_all would return, were every source complete. *)
Present == hw \cup (IF inserted THEN RescueIds ELSE {})

(***************************************************************************)
(* What a collection may miss: USB devices the kernel has not enumerated   *)
(* yet, a source that cannot be read, which yields nothing and no error.   *)
(* A recover() that fails for want of memory is one that finds nothing.    *)
(***************************************************************************)
Unseen == SUBSET Present

(* find_and_mount: Some when the stick shows up in time and mounts. *)
Mounted(works) == IF inserted /\ works THEN "ro" ELSE "none"

(* Mutants: nothing of the old fingerprint is revoked; all but the new     *)
(* keyslot is.                                                             *)
NoKeyslots(m)      == {}
AllUsedKeyslots(m) == {s \in SlotIds : slots[s] # NoKey}

(* The keyslots of ctx.token. *)
KeyslotsOf(m) == IF m = NoToken THEN {} ELSE m.keyslots

SecretsInUse ==
  {slots[s] : s \in SlotIds} \cup {tokens[t].secret : t \in HwidIds}
    \cup (IF token = NoToken THEN {} ELSE {token.secret})
    \cup {fingerprint_key}
-----------------------------------------------------------------------------
Init ==
  /\ slots \in InitialSlots /\ tokens \in InitialTokens
  /\ hw \in Machines /\ swaps = 0 /\ inserted \in BOOLEAN
  /\ keyfile \in StickKeys /\ detached \in Detachments
  /\ faults = 0
  /\ pc = "off" /\ st = "Init" /\ act = "None"
  /\ usb = "none" /\ token_id = NoId /\ token = NoToken
  /\ fingerprint_key = NoKey /\ rescue_key = NoKey
  /\ slot = NoId /\ meta = NoToken /\ revoke = {} /\ saved = FALSE
  /\ out = NoKey

(* A new process starts with an empty Ctx: nothing survives but the volume. *)
Reset ==
  /\ pc' = "off" /\ st' = "Init" /\ act' = "None"
  /\ usb' = "none" /\ token_id' = NoId /\ token' = NoToken
  /\ fingerprint_key' = NoKey /\ rescue_key' = NoKey
  /\ slot' = NoId /\ meta' = NoToken /\ revoke' = {} /\ saved' = FALSE
  /\ out' = NoKey
  /\ UNCHANGED <<volume, env>>

PowerOn ==
  /\ pc = "off"
  /\ pc' = "resolve"
  /\ UNCHANGED <<volume, env, faults, st, act, ctx, enr, out>>

(* run_inner before the loop: where the header is. *)
ResolveHeader ==
  /\ pc = "resolve"
  /\ \E works \in BOOLEAN :
       /\ Charge(~works)
       /\ IF detached THEN usb' = Mounted(works) ELSE works /\ usb' = usb
  /\ IF detached => usb' = "ro"
       THEN Drive("HeaderFound")
       ELSE /\ st' \in St /\ act' \in Action
            /\ Step(st, "HeaderMissing", st', act')
            /\ pc' = "done"
  /\ UNCHANGED <<volume, env, token_id, token, fingerprint_key, rescue_key,
                 enr, out>>

(***************************************************************************)
(* find_hwid_token: the least id whose export succeeds and parses.  A      *)
(* failed export reads as an empty id, so a fault may hide some tokens,    *)
(* and a header out of reach hides them all.                               *)
(***************************************************************************)
ReadToken ==
  /\ Executes("ReadToken")
  /\ \E missed \in SUBSET HwidIds :
       LET seen == IF HeaderReadable THEN HwidIds \ missed ELSE {} IN
         /\ Charge(missed # {})
         /\ \/ /\ seen = {}
               /\ token' = NoToken /\ token_id' = NoId
               /\ Drive("TokenMissing")
            \/ \E t \in seen :
               /\ IsLeast(t, seen)
               /\ token' = tokens[t] /\ token_id' = t
               /\ Drive("TokenFound")
  /\ UNCHANGED <<volume, env, usb, fingerprint_key, rescue_key, enr, out>>

CollectAndRecover ==
  /\ Executes("CollectAndRecover")
  /\ \E missed \in Unseen :
       /\ Charge(missed # {})
       /\ IF QuorumMet(token, Present \ missed)
            THEN /\ fingerprint_key' = token.secret
                 /\ Drive("QuorumMet")
            ELSE /\ UNCHANGED fingerprint_key
                 /\ Drive("QuorumNotMet")
  /\ UNCHANGED <<volume, env, usb, token_id, token, rescue_key, enr, out>>

(* The stick, its keyfile, and the proof that it opens the volume. *)
SearchUsb ==
  /\ Executes("SearchUsb")
  /\ \E mounts, tests \in BOOLEAN :
       /\ Charge(~mounts \/ ~tests)
       /\ usb' = IF usb = "none" THEN Mounted(mounts) ELSE usb
       /\ IF tests /\ usb' \in {"ro", "rw"} /\ keyfile # NoKey /\ Opens(keyfile)
            THEN /\ rescue_key' = keyfile
                 /\ Drive("UsbKeyValid")
            ELSE /\ UNCHANGED rescue_key
                 /\ Drive("UsbKeyAbsentOrInvalid")
  /\ UNCHANGED <<volume, env, token_id, token, fingerprint_key, enr, out>>

(* Mutant: re-enroll without a backup when the backup fails. *)
BackupIfPossible ==
  /\ Executes("Reenroll")
  /\ KeyfileReadable /\ HeaderReadable
  /\ \E works \in BOOLEAN : Charge(~works) /\ saved' = works
  /\ usb' = "rw"
  /\ pc' = "enroll"
  /\ UNCHANGED <<volume, env, st, act, token_id, token, fingerprint_key,
                 rescue_key, slot, meta, revoke, out>>

(***************************************************************************)
(* reenroll(), one action per command that touches the volume.             *)
(*                                                                         *)
(* The header is saved first, on the stick if it can be remounted rw.      *)
(***************************************************************************)
BackupHeader ==
  /\ Executes("Reenroll")
  /\ KeyfileReadable /\ HeaderReadable
  /\ usb' \in {usb, "rw"}
  /\ saved' = TRUE
  /\ pc' = "enroll"
  /\ UNCHANGED <<volume, env, faults, st, act, token_id, token,
                 fingerprint_key, rescue_key, slot, meta, revoke, out>>

(***************************************************************************)
(* Collect, draw a secret, add it in the lowest free keyslot.  The command *)
(* may report success over a keyslot that does not open (Garbage), or an   *)
(* error over one it did write.                                            *)
(***************************************************************************)
AddNewKeyslot ==
  /\ pc = "enroll"
  /\ Authorized
  /\ \E missed \in Unseen, good, ok \in BOOLEAN, secret \in Secrets :
       LET ids == Truncate(Present \ missed) IN
         /\ Charge(missed # {} \/ ~good \/ ~ok)
         /\ Cardinality(ids) >= 2
         /\ IsLeast(secret, Secrets \ SecretsInUse)
         /\ meta' = [keyslots |-> {}, secret |-> secret, ids |-> ids,
                     k |-> DefaultThreshold(Cardinality(ids))]
         /\ \E s \in FreeSlots :
              /\ AddKeyslot(s, IF good THEN secret ELSE Garbage)
              /\ slot' = s
         /\ Proceed(ok, "verify")
  /\ UNCHANGED <<env, ctx, revoke, saved, out>>

(* Mutant: the new keyslot is taken to open, untested. *)
TrustKeyslot ==
  /\ pc = "verify"
  /\ meta' = [meta EXCEPT !.keyslots = {slot}]
  /\ pc' = "import"
  /\ UNCHANGED <<volume, env, faults, st, act, ctx, slot, revoke, saved, out>>

(* test_key(secret) says yes: the metadata names the keyslot. *)
VerifyKeyslot ==
  /\ pc = "verify"
  /\ HeaderReadable /\ Opens(meta.secret)
  /\ meta' = [meta EXCEPT !.keyslots = {slot}]
  /\ pc' = "import"
  /\ UNCHANGED <<volume, env, faults, st, act, ctx, slot, revoke, saved, out>>

(* test_key says no, rightly or not: kill the keyslot, best effort. *)
RejectKeyslot ==
  /\ pc = "verify"
  /\ \E tests, kills \in BOOLEAN :
       /\ Charge(~tests \/ ~kills)
       /\ ~(tests /\ HeaderReadable /\ Opens(meta.secret))
       /\ IF kills /\ Authorized THEN KillSlot(slot) ELSE UNCHANGED volume
  /\ Drive("ReenrollFailed")
  /\ UNCHANGED <<env, ctx, enr, out>>

(* Mutant: a failed import goes unnoticed. *)
ImportBestEffort ==
  /\ pc = "import"
  /\ HeaderWritable
  /\ \E t \in FreeTokenIds, ok \in BOOLEAN :
       /\ Charge(~ok)
       /\ IF ok THEN ImportToken(t, meta) ELSE UNCHANGED volume
  /\ pc' = IF token = NoToken THEN "revoke" ELSE "remove"
  /\ UNCHANGED <<env, st, act, ctx, enr, out>>

(* The new token; on success ctx.token is taken and nothing refers to it. *)
ImportNewToken ==
  /\ pc = "import"
  /\ HeaderWritable
  /\ \E t \in FreeTokenIds, ok \in BOOLEAN :
       /\ Charge(~ok)
       /\ ImportToken(t, meta)
       /\ Proceed(ok, IF token = NoToken THEN "revoke" ELSE "remove")
  /\ UNCHANGED <<env, ctx, enr, out>>

(* Mutants: the old token stays; the failure to kill a keyslot is ignored. *)
KeepOldToken ==
  /\ pc = "remove"
  /\ revoke' = KeyslotsOf(token) \ {slot}
  /\ pc' = "revoke"
  /\ UNCHANGED <<volume, env, faults, st, act, ctx, slot, meta, saved, out>>

RevokeBestEffort ==
  /\ pc = "revoke"
  /\ \E s \in revoke, ok \in BOOLEAN :
       /\ Charge(~ok)
       /\ IF ok THEN KillSlot(s) ELSE UNCHANGED volume
       /\ revoke' = revoke \ {s}
  /\ UNCHANGED <<env, pc, st, act, ctx, slot, meta, saved, out>>

RemoveOldToken ==
  /\ pc = "remove"
  /\ HeaderWritable
  /\ RemoveToken(token_id)
  /\ revoke' = KeyslotsOf(token) \ {slot}
  /\ \E ok \in BOOLEAN : Charge(~ok) /\ Proceed(ok, "revoke")
  /\ UNCHANGED <<env, ctx, slot, meta, saved, out>>

RevokeOldKeyslot ==
  /\ pc = "revoke"
  /\ Authorized
  /\ \E s \in revoke, ok \in BOOLEAN :
       /\ KillSlot(s)
       /\ revoke' = revoke \ {s}
       /\ Charge(~ok) /\ Proceed(ok, "revoke")
  /\ UNCHANGED <<env, ctx, slot, meta, saved, out>>

ReenrollEnds ==
  /\ pc = "revoke" /\ revoke = {}
  /\ Drive("ReenrollOk")
  /\ UNCHANGED <<volume, env, faults, ctx, enr, out>>

(* Where a command of reenroll() cannot succeed, faults or no faults. *)
Blocked ==
  \/ Executes("Reenroll") /\ ~(KeyfileReadable /\ HeaderReadable)
  \/ /\ pc = "enroll"
     /\ \/ ~Authorized
        \/ FreeSlots = {}
        \/ Cardinality(Truncate(Present)) < 2
  \/ pc = "import" /\ ~(HeaderWritable /\ CanImport)
  \/ pc = "remove" /\ ~HeaderWritable
  \/ pc = "revoke" /\ revoke # {} /\ ~Authorized

(* Mutant: `?` in the loop instead of a ReenrollFailed event. *)
ReenrollExits ==
  /\ Blocked \/ Executes("Reenroll")
  /\ pc' = "done"
  /\ UNCHANGED <<volume, env, faults, st, act, ctx, enr, out>>

(* An error that left no trace on the volume: Err, hence ReenrollFailed. *)
ReenrollFails ==
  /\ \/ Blocked /\ Charge(FALSE)
     \/ /\ \/ Executes("Reenroll")
           \/ pc \in {"enroll", "verify", "import", "remove"}
           \/ pc = "revoke" /\ revoke # {}
        /\ Charge(TRUE)
  /\ Drive("ReenrollFailed")
  /\ UNCHANGED <<volume, env, ctx, enr, out>>

(* Mutant: a short write is not noticed. *)
EmitSome(a, key) ==
  /\ Executes(a)
  /\ \E works \in BOOLEAN :
       /\ Charge(~works)
       /\ out' = IF works THEN key ELSE Garbage
  /\ pc' = "done"
  /\ UNCHANGED <<volume, env, st, act, ctx, enr>>

(* emit(): write_all and flush; an error makes the process exit 1. *)
Emit(a, key) ==
  /\ Executes(a)
  /\ \E works \in BOOLEAN :
       /\ Charge(~works)
       /\ out' = IF works THEN key ELSE NoKey
  /\ pc' = "done"
  /\ UNCHANGED <<volume, env, st, act, ctx, enr>>

EmitFingerprintKey == Emit("EmitFingerprintKey", fingerprint_key)
EmitRescueKey      == Emit("EmitRescueKey", rescue_key)

(* Abort, or an error `?` takes out of the loop: exit 1, manual passphrase. *)
ExitWithError ==
  /\ \/ Executes("Abort") /\ Charge(FALSE)
     \/ (Executes("ReadToken") \/ Executes("SearchUsb")) /\ Charge(TRUE)
  /\ pc' = "done"
  /\ UNCHANGED <<volume, env, st, act, ctx, enr, out>>
-----------------------------------------------------------------------------
(* The environment. *)
PowerOff ==
  /\ pc = "done"
  /\ Reset
  /\ UNCHANGED faults

PowerCut ==
  /\ pc \notin {"off", "done"}
  /\ Reset
  /\ Charge(TRUE)

SwapHardware ==
  /\ pc = "off" /\ swaps < MaxSwaps
  /\ hw' \in Machines \ {hw}
  /\ swaps' = swaps + 1
  /\ UNCHANGED <<volume, inserted, keyfile, detached, faults, pc, st, act, ctx,
                 enr, out>>

InsertStick ==
  /\ ~inserted
  /\ inserted' = TRUE
  /\ UNCHANGED <<volume, hw, swaps, keyfile, detached, faults, pc, st, act,
                 ctx, enr, out>>

PullStick ==
  /\ inserted
  /\ inserted' = FALSE
  /\ Charge(pc \notin {"off", "done"})
  /\ usb' = IF usb = "none" THEN usb ELSE "lost"
  /\ UNCHANGED <<volume, hw, swaps, keyfile, detached, pc, st, act, token_id,
                 token, fingerprint_key, rescue_key, enr, out>>

Program ==
  \/ ResolveHeader \/ ReadToken \/ CollectAndRecover \/ SearchUsb
  \/ BackupHeader \/ AddNewKeyslot \/ VerifyKeyslot \/ RejectKeyslot
  \/ ImportNewToken \/ RemoveOldToken \/ RevokeOldKeyslot \/ ReenrollEnds
  \/ ReenrollFails \/ EmitFingerprintKey \/ EmitRescueKey \/ ExitWithError

Environment ==
  PowerOn \/ PowerOff \/ PowerCut \/ SwapHardware \/ InsertStick \/ PullStick

Next == Program \/ Environment

Spec == Init /\ [][Next]_vars

(***************************************************************************)
(* The process runs on (each command returns: cryptsetup and mount are     *)
(* waited for, the wait for the stick has a deadline), and a machine that  *)
(* is off is eventually switched on, one that is up eventually rebooted.   *)
(***************************************************************************)
FairSpec == Spec /\ WF_vars(Program) /\ WF_vars(PowerOn) /\ WF_vars(PowerOff)
-----------------------------------------------------------------------------
(* Properties. *)

Reenrolling == pc \in {"verify", "import", "remove", "revoke"}

(* The key on stdout opens the volume.  run_inner never tests the           *)
(* fingerprint key, and tests the rescue key before the writes of           *)
(* reenroll() that come before it is emitted.                               *)
EmittedKeyOpens == out # NoKey => Opens(out)

(* Nothing the boot path does touches a keyslot of the administrator, the   *)
(* backup passphrase or the keyfile's: kill_slot is given numbers read from *)
(* a token, or the one just added.                                          *)
BackupKeysSurvive ==
  [][\A s \in SlotIds : slots[s] \in AdminKeys => slots'[s] = slots[s]]_vars

(* luks.rs, header_backup: "Obligatoire AVANT toute ecriture".  No write of *)
(* a boot comes before its header backup.                                   *)
HeaderBackedUp == [][volume' # volume => saved]_vars

(* Once the volume knows a fingerprint it never knows none again, whatever  *)
(* is cut or fails: "jamais zero" of reenroll()'s comment.                  *)
FingerprintNeverLost == [][HwidIds # {} => HwidIds' # {}]_vars

(* Keyslots pile up only by faults: one for each fault, one for the current *)
(* fingerprint and one more while a re-enrollment is under way.             *)
LeakBound ==
  Cardinality(FingerprintSlots) <= faults + IF Reenrolling THEN 2 ELSE 1

(* The driver keeps to the script of fsm.rs: it never reaches the catch-all *)
(* arm, and each expect() of keyscript.rs finds its value.                  *)
DriverOnScript ==
  /\ st # "Internal"
  /\ Executes("CollectAndRecover") => token # NoToken
  /\ Executes("EmitFingerprintKey") => fingerprint_key # NoKey
  /\ Executes("EmitRescueKey") => rescue_key # NoKey
  /\ Executes("Reenroll") => usb # "none"

(* "boot guaranteed": a boot that has verified the rescue key ends by       *)
(* writing it on stdout, however far the re-enrollment got and whatever     *)
(* stopped it: no keyslot or room left, a name taken on the stick, the      *)
(* stick pulled.  Only writing stdout itself can fail.                      *)
RescueBoots ==
  [][pc # "done" /\ pc' = "done" /\ rescue_key # NoKey
       => Executes("EmitRescueKey") /\ (out' = rescue_key \/ faults' > faults)]_vars

(* README: "Replace one component and the machine boots".  A boot without   *)
(* faults that misses the quorum of a token with three shares or more runs  *)
(* on a machine where two of its components are gone.  The rescue stick,    *)
(* which is stored away, is no component.                                   *)
OneSwapBoots ==
  st = "QuorumFailed" /\ faults = 0 /\ Cardinality(token.ids) >= 3
    => Cardinality(token.ids \ (RescueIds \cup hw)) >= 2

(* A re-enrollment that completes, with faults or without, has retired the  *)
(* fingerprint it found: its token is gone and its keyslots are free.       *)
ReplacedRevoked ==
  pc = "revoke" /\ revoke = {} /\ token # NoToken
    => /\ tokens[token_id] # token
       /\ \A s \in token.keyslots : slots[s] # token.secret

(* Without faults, a completed re-enrollment is a replacement: the only     *)
(* fingerprint keyslot is the new one.                                      *)
StaleRevoked ==
  pc = "revoke" /\ revoke = {} /\ faults = 0 => FingerprintSlots = {slot}

(* reenroll(): "une empreinte obsolete ne doit pas rester valide".  After   *)
(* a completed re-enrollment no token of another machine remains.           *)
ObsoleteRevoked ==
  pc = "revoke" /\ revoke = {}
    => \A t \in HwidIds : QuorumMet(tokens[t], Present)

(* reenroll(): "au pire moment, il reste DEUX keyslots valides (ancien +    *)
(* nouveau)".                                                               *)
AtMostTwoFingerprints == Cardinality(FingerprintSlots) <= 2

(* Every step of a boot, cut or failed, is a step of the volume's promise:  *)
(* the new key opens before its token is there, the old token goes before   *)
(* its key does, and the last fingerprint is never taken away.              *)
Store == INSTANCE FingerprintStore
           WITH openers <- Openers, published <- Published, KeepsOne <- TRUE
KeepsStore == Store!Spec

(* A boot ends, whatever fails, is pulled or stays absent.                  *)
BootTerminates == pc = "resolve" ~> pc \in {"done", "off"}

(* The token the next boot reads has a quorum on this machine.              *)
Healthy ==
  \E t \in HwidIds : IsLeast(t, HwidIds) /\ QuorumMet(tokens[t], Present)

(* "Self-healing": with the stick left in, and writable when it carries the *)
(* header, a keyfile that opens the volume and two identifiers to enroll,   *)
(* the volume ends up with a fingerprint of the machine it is in, and stays *)
(* so.                                                                      *)
SelfHealing ==
  <>[](inserted /\ Opens(RescueKey) /\ keyfile = RescueKey
         /\ Cardinality(Present) >= 2
         /\ (detached /\ pc = "enroll" => usb = "rw"))
    => <>[]Healthy
=============================================================================
