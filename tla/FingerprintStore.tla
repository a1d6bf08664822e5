-------------------------- MODULE FingerprintStore --------------------------
(***************************************************************************)
(* What a volume promises to whoever boots it, whichever program writes    *)
(* it: fingerprint keys that open it, and the fingerprints it publishes in *)
(* tokens, from which a machine gets such a key back.  A key opens before  *)
(* it is published and is retracted before it is revoked, so a boot that   *)
(* reads a token and acts on it much later still holds a key that opens.   *)
(***************************************************************************)
CONSTANTS
  Secrets,
  KeepsOne      (* a Boolean: TRUE when the last fingerprint is never retracted *)

VARIABLES
  openers,      (* secrets that open a keyslot                             *)
  published     (* secrets some token rebuilds                             *)

store == <<openers, published>>

Init ==
  /\ openers \in SUBSET Secrets
  /\ published \in SUBSET openers

(* A secret is drawn that nothing on the volume knows. *)
Add(s) ==
  /\ s \notin openers
  /\ openers' = openers \cup {s}
  /\ UNCHANGED published

Publish(s) ==
  /\ s \in openers \ published
  /\ published' = published \cup {s}
  /\ UNCHANGED openers

Retract(s) ==
  /\ s \in published
  /\ KeepsOne => published # {s}
  /\ published' = published \ {s}
  /\ UNCHANGED openers

Revoke(s) ==
  /\ s \in openers \ published
  /\ openers' = openers \ {s}
  /\ UNCHANGED published

Next == \E s \in Secrets : Add(s) \/ Publish(s) \/ Retract(s) \/ Revoke(s)

Spec == Init /\ [][Next]_store
=============================================================================
