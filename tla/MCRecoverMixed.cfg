CONSTANTS
  Ids <- MCIds
  ClassOf <- MCClassOf
  HintOf <- MCHintOf
  Machines <- TwoMachines
  Thresholds <- MCThresholds
  MAX_SHARES = 4
  FORMAT_VERSION = 1
  Alterations <- Mixed
  MaxChanges = 3
  MaxEnrolled = 2
  Broken = Broken
SPECIFICATION Spec
INVARIANTS
  NeverWrong
