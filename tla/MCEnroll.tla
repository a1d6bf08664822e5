------------------------------ MODULE MCEnroll ------------------------------
(***************************************************************************)
(* Instances of Enroll for TLC: three machines, one of which shows too few *)
(* identifiers, and the volumes the command may meet: without luks-hwid,   *)
(* the same with every token id taken, enrolled once, and as a             *)
(* re-enrollment cut at boot leaves it (two tokens and their keyslots).    *)
(***************************************************************************)
EXTENDS Enroll, Sequences

MCIds    == 1..5
MCUsbIds == {5}
NoIds    == {}

MachineA == {1, 2, 3, 5}
MachineB == {1, 4}
MachineD == {1}

MCMachines == {MachineA, MachineB, MachineD}

Layout(keys) ==
  [s \in SlotIds |-> IF s < Len(keys) THEN keys[s + 1] ELSE NoKey]
Contents(list) ==
  [t \in SlotIds |-> IF t < Len(list) THEN list[t + 1] ELSE NoToken]

Token(s, secret, ids) ==
  [keyslots |-> {s}, secret |-> secret, ids |-> ids,
   k |-> DefaultThreshold(Cardinality(ids))]

Fresh    == [slots  |-> Layout(<<Passphrase>>),
             tokens |-> Contents(<<ForeignToken>>)]
Crowded  == [slots  |-> Layout(<<Passphrase>>),
             tokens |-> [t \in SlotIds |-> ForeignToken]]
Known    == [slots  |-> Layout(<<Passphrase, 1>>),
             tokens |-> Contents(<<Token(1, 1, MachineB)>>)]
CutShort == [slots  |-> Layout(<<Passphrase, 2, 1>>),
             tokens |-> Contents(<<Token(2, 1, MachineB), Token(1, 2, {1, 2, 5})>>)]

MCInitialVolumes == {Fresh, Crowded, Known, CutShort}
KnownVolume      == {Known}
MCThresholds     == {Unset, 1, 2, 3, 4}
=============================================================================
