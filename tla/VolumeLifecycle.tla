--------------------------- MODULE VolumeLifecycle ---------------------------
(***************************************************************************)
(* The life of a volume: boots (Keyscript) and runs of `luks-hwid enroll`  *)
(* (Enroll) on the same header and the same machine, one after the other,  *)
(* either of them cut or failing anywhere; an administrator who adds and   *)
(* kills keyslots of his own in between; and what `luks-hwid status`       *)
(* (status.rs) would have said right before each boot.                     *)
(*                                                                         *)
(* The header is attached, and the stick may be plugged in when enroll     *)
(* collects the identifiers.                                               *)
(***************************************************************************)
EXTENDS Keyscript

CONSTANTS Thresholds, Unset     (* what --threshold may be given, see Enroll *)

ASSUME ThresholdAssumption ==
  Thresholds \subseteq Nat \cup {Unset} /\ Unset \notin Nat

VARIABLES
  command,                      (* where enroll is, "off": not running     *)
  old_tokens, old_hwid_slots,   (* what it has yet to remove and destroy   *)
  new_slot, new_meta,           (* its new keyslot and metadata            *)
  status                        (* of the volume when the boot began       *)

enroll == <<command, old_tokens, old_hwid_slots, new_slot, new_meta>>
boot   == <<pc, st, act, ctx, enr, out>>
all    == <<vars, enroll, status>>

Command == INSTANCE Enroll
             WITH hw <- Present, at <- command, slot <- new_slot,
                  meta <- new_meta, InitialVolumes <- {}

(* The token a boot reads. *)
Current == tokens[CHOOSE t \in HwidIds : \A u \in HwidIds : t <= u]

(* Mutant: a quorum of exactly k is called lost. *)
StrictStatus ==
  IF HwidIds = {} THEN 1
  ELSE IF Cardinality(Current.ids \cap Present) > Current.k THEN 0 ELSE 2

(* status: 1 without a token, 2 when the quorum is lost, else 0.  That it   *)
(* counts by hint is a matter of Recover.                                   *)
StatusCode ==
  IF HwidIds = {} THEN 1 ELSE IF QuorumMet(Current, Present) THEN 0 ELSE 2

(* Tokens of a machine this one no longer is. *)
Stale == {t \in HwidIds : ~QuorumMet(tokens[t], Present)}

(* Is there what a re-enrollment takes? *)
Room == FreeSlots # {} /\ CanImport /\ Cardinality(Truncate(Present)) >= 2

Snapshot ==
  [code |-> StatusCode, stale |-> Cardinality(Stale), room |-> Room,
   faults |-> faults]

Unsaid == [code |-> 1, stale |-> 0, room |-> FALSE, faults |-> 0]
-----------------------------------------------------------------------------
LifeInit ==
  /\ Init
  /\ command = "off" /\ old_tokens = {} /\ old_hwid_slots = {}
  /\ new_slot = NoId /\ new_meta = NoToken
  /\ status = Unsaid

BootBegins ==
  /\ command = "off"
  /\ PowerOn
  /\ status' = Snapshot
  /\ UNCHANGED enroll

BootGoesOn ==
  /\ command = "off"
  /\ Program
  /\ UNCHANGED <<enroll, status>>

BootEnds ==
  /\ command = "off"
  /\ PowerOff \/ PowerCut
  /\ status' = Unsaid
  /\ UNCHANGED enroll

(* The system is up, or down; no boot is under way. *)
Between == pc = "off"

EnrollRuns ==
  /\ Between /\ ~detached
  /\ UNCHANGED <<env, boot, swaps, status>>
  /\ \/ Command!LoadVolume \/ Command!Unlock \/ Command!AddNewKeyslot
     \/ Command!VerifyKeyslot \/ Command!RejectKeyslot
     \/ Command!RemoveOldToken \/ Command!AddNewToken
     \/ Command!DestroyOldSlot \/ Command!Enrolled \/ Command!Abandon
     \/ Command!Finish

(* Bound: no keyslot twice with the same key of the administrator. *)
Administers ==
  /\ Between /\ command = "off"
  /\ UNCHANGED <<env, boot, enroll, status>>
  /\ Command!AddAdminKeyslot \/ Command!KillAdminKeyslot
  /\ \A s, t \in SlotIds : s # t /\ slots'[s] = slots'[t] => slots'[s] \notin AdminKeys

(* The stick may come and go during a boot too, see Keyscript. *)
HardwareChanges ==
  /\ Between /\ command = "off"
  /\ SwapHardware \/ InsertStick \/ PullStick
  /\ UNCHANGED <<enroll, status>>

LifeNext ==
  \/ BootBegins \/ BootGoesOn \/ BootEnds
  \/ EnrollRuns \/ Administers \/ HardwareChanges

LifeSpec == LifeInit /\ [][LifeNext]_all
-----------------------------------------------------------------------------
(* Properties, besides OneSwapBoots and StaleRevoked of Keyscript. *)

(* Nothing went wrong in this boot. *)
Undisturbed == pc = "done" /\ status.faults = faults

(* status tells what the next boot will do: the fingerprint's key when it   *)
(* says 0; otherwise the rescue key if its stick is there and opens the     *)
(* volume, and nothing at all if not (the passphrase is asked for).         *)
StatusForetellsBoot ==
  Undisturbed =>
    IF status.code = 0 THEN out \in Secrets
    ELSE out = IF inserted /\ keyfile # NoKey /\ Opens(keyfile)
                 THEN keyfile ELSE NoKey

(* "Self-healing", boot by boot: one that had to use the rescue key leaves  *)
(* a volume whose status is 0, or one with fewer tokens of other machines   *)
(* than before; so a machine heals in as many boots as it has such tokens,  *)
(* whatever cut runs of enroll and of the boot left behind.                 *)
RescueBootHeals ==
  Undisturbed /\ out = RescueKey /\ status.room =>
    StatusCode = 0 \/ Cardinality(Stale) < status.stale

(* run() of enroll.rs: "luks-hwid ne doit jamais etre le seul moyen         *)
(* d'ouvrir un volume".  Enroll never publishes a fingerprint on a volume   *)
(* no key of the administrator opens, even where a keyslot that a cut run   *)
(* left behind, and nobody has the key of, passes for another keyslot.      *)
NeverTheOnlyWay ==
  [][command # "off" /\ Published' \ Published # {}
       => \E key \in AdminKeys : Opens(key)]_all

(* Boots and enroll together keep the promise of the volume, but for the    *)
(* last fingerprint, which enroll retracts before it publishes the new one. *)
LifeStore == INSTANCE FingerprintStore
               WITH openers <- Openers, published <- Published, KeepsOne <- FALSE
LifeKeepsStore == LifeStore!Spec
=============================================================================
