---------------------------- MODULE Fingerprint ----------------------------
(***************************************************************************)
(* The fingerprint of a machine as the boot path sees it: the identifiers  *)
(* collect_all returns, the truncation before enrollment, the default      *)
(* threshold and the quorum recover() needs.                               *)
(*                                                                         *)
(* Identifiers are numbers, ordered as collect_all sorts them (class, then *)
(* value): USB identifiers come last, as IdClass::UsbDevice does.          *)
(***************************************************************************)
EXTENDS Integers, FiniteSets

CONSTANTS
  Ids,          (* all identifiers a machine or a USB device may show      *)
  UsbIds,       (* those of class UsbDevice                                *)
  RescueIds,    (* what the rescue stick itself shows: its serial, or {}   *)
  MAX_SHARES    (* most shares in a token (24 in derive.rs)                *)

ASSUME IdAssumption ==
  /\ IsFiniteSet(Ids)
  /\ Ids \subseteq Nat
  /\ UsbIds \subseteq Ids
  /\ RescueIds \subseteq UsbIds
  /\ \A u \in UsbIds, i \in Ids \ UsbIds : i < u

(* ids.truncate(MAX_SHARES) on the sorted list. *)
Truncate(S) == {i \in S : Cardinality({j \in S : j < i}) < MAX_SHARES}

(* Mutant: every share is needed. *)
AllSharesThreshold(n) == n

(* Policy::default_for(n): max(2, n - 1). *)
DefaultThreshold(n) == IF n > 3 THEN n - 1 ELSE 2

(* recover(): at least k shares open with the collected identifiers. *)
QuorumMet(meta, collected) == Cardinality(meta.ids \cap collected) >= meta.k
=============================================================================
