CONSTANTS
  Ids <- MCIds
  ClassOf <- MCClassOf
  HintOf <- MCHintOf
  Machines <- MCMachines
  Thresholds <- MCThresholds
  MAX_SHARES = 4
  FORMAT_VERSION = 1
  Alterations <- AllFields
  MaxChanges = 3
  MaxEnrolled = 2
  Broken = Broken
SPECIFICATION Spec
INVARIANTS
  TypeOK
  WrongOnlyIfForged
  QuorumSuffices
  NoFalseAlarm
  MarginHolds
