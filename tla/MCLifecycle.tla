---------------------------- MODULE MCLifecycle ----------------------------
(***************************************************************************)
(* An instance of VolumeLifecycle for TLC: two machines that differ by one *)
(* component and one that differs by more, on a volume with a passphrase,  *)
(* with or without the rescue keyfile's keyslot.                           *)
(***************************************************************************)
EXTENDS VolumeLifecycle, Sequences

MCIds    == 1..5
MCUsbIds == {5}

MCMachines == {{1, 2, 5}, {1, 3, 5}, {1, 3, 4}}

Layout(keys) ==
  [s \in SlotIds |-> IF s < Len(keys) THEN keys[s + 1] ELSE NoKey]

MCInitialSlots  == {Layout(<<Passphrase>>), Layout(<<Passphrase, RescueKey>>)}
MCInitialTokens == {[t \in SlotIds |-> NoToken]}
MCStickKeys     == {RescueKey}
Attached        == {FALSE}
NoRescueIds     == {}
DefaultOnly     == {Unset}
=============================================================================
