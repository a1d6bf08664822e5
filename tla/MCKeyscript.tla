---------------------------- MODULE MCKeyscript ----------------------------
(***************************************************************************)
(* Instances of Keyscript for TLC: identifiers 1 to 4 are components, 5 is *)
(* a USB device that stays plugged in, 6 the serial of the rescue stick.   *)
(***************************************************************************)
EXTENDS Keyscript, Sequences

MCIds    == 1..6
MCUsbIds == {5, 6}

(* Machine B differs from A by one component, C by two, D shows one only. *)
MachineA == {1, 2, 5}
MachineB == {1, 3, 5}
MachineC == {1, 3, 4}
MachineD == {1}

MCMachines    == {MachineA, MachineC, MachineD}
SwapMachines  == {MachineA, MachineB, MachineC}
TwoMachines   == {MachineA, MachineC}
OneMachine    == {MachineA}

Layout(keys) ==
  [s \in SlotIds |-> IF s < Len(keys) THEN keys[s + 1] ELSE NoKey]

(* With and without the rescue keyfile among the keyslots. *)
MCInitialSlots  == {Layout(<<Passphrase>>), Layout(<<Passphrase, RescueKey>>)}
WithRescueSlot  == {Layout(<<Passphrase, RescueKey>>)}

NoTokens        == [t \in SlotIds |-> NoToken]
MCInitialTokens == {[NoTokens EXCEPT ![0] = ForeignToken]}
EmptyTokens     == {NoTokens}

MCStickKeys     == {RescueKey, NoKey}
KeyOnStick      == {RescueKey}
Anywhere        == BOOLEAN
Attached        == {FALSE}
NoRescueIds     == {}
StickSerial     == {6}
=============================================================================
