------------------------------ MODULE BootFsm ------------------------------
(***************************************************************************)
(* The boot state machine of the keyscript (crates/luks-hwid/src/fsm.rs):  *)
(* a pure transition table.  The driver (module Keyscript) executes the    *)
(* action a transition orders and feeds back the event it observed.        *)
(*                                                                         *)
(* The source's St::Failed(reason) is written as the reason itself, and    *)
(* every Action::Abort(reason) as "Abort": the reason only words a log     *)
(* line.                                                                   *)
(***************************************************************************)

FailReason == {"NoHeader", "NoUsableKey", "Internal"}

St == {"Init", "HeaderReady", "TokenLoaded", "TokenAbsent", "QuorumFailed",
       "RescueAvailable", "Done"} \cup FailReason

Action == {"ReadToken", "CollectAndRecover", "SearchUsb", "Reenroll",
           "EmitFingerprintKey", "EmitRescueKey", "Abort"}

(* The arms of step(): <<state, event, next state, action>>. *)

HeaderArms ==
  { <<"Init", "HeaderFound",   "HeaderReady", "ReadToken">>,
    <<"Init", "HeaderMissing", "NoHeader",    "Abort">> }

TokenArms ==
  { <<"HeaderReady", "TokenFound",   "TokenLoaded",  "CollectAndRecover">>,
    <<"HeaderReady", "TokenMissing", "TokenAbsent",  "SearchUsb">>,
    <<"TokenLoaded", "QuorumMet",    "Done",         "EmitFingerprintKey">>,
    <<"TokenLoaded", "QuorumNotMet", "QuorumFailed", "SearchUsb">> }

(* Mutant: an absent or invalid stick is searched for again. *)
RetryUsbArms ==
  { <<"TokenAbsent",  "UsbKeyValid", "RescueAvailable", "Reenroll">>,
    <<"QuorumFailed", "UsbKeyValid", "RescueAvailable", "Reenroll">>,
    <<"TokenAbsent",  "UsbKeyAbsentOrInvalid", "TokenAbsent",  "SearchUsb">>,
    <<"QuorumFailed", "UsbKeyAbsentOrInvalid", "QuorumFailed", "SearchUsb">> }

UsbArms ==
  { <<"TokenAbsent",  "UsbKeyValid", "RescueAvailable", "Reenroll">>,
    <<"QuorumFailed", "UsbKeyValid", "RescueAvailable", "Reenroll">>,
    <<"TokenAbsent",  "UsbKeyAbsentOrInvalid", "NoUsableKey", "Abort">>,
    <<"QuorumFailed", "UsbKeyAbsentOrInvalid", "NoUsableKey", "Abort">> }

(* Mutant: no arm for a re-enrollment that failed. *)
OnlyReenrollOkArm ==
  { <<"RescueAvailable", "ReenrollOk", "Done", "EmitRescueKey">> }

ReenrollArms ==
  { <<"RescueAvailable", "ReenrollOk",     "Done", "EmitRescueKey">>,
    <<"RescueAvailable", "ReenrollFailed", "Done", "EmitRescueKey">> }

Transitions == HeaderArms \cup TokenArms \cup UsbArms \cup ReenrollArms

(* The catch-all arm. *)
Unexpected(s, e) == \A n \in St, a \in Action : <<s, e, n, a>> \notin Transitions

(* step(s, e) returns state n and action a. *)
Step(s, e, n, a) ==
  \/ <<s, e, n, a>> \in Transitions
  \/ Unexpected(s, e) /\ n = "Internal" /\ a = "Abort"
=============================================================================
