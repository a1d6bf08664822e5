CONSTANTS
  TYPE17_SERIAL_OFFSET = 4
  Structures <- MCStructures
  MaxStructures = 3
  Bytes <- MCBytes
  MaxBytes = 6
  MAX_SHARES = 4
  BLACKLIST <- MCBlacklist
  Machines <- MCMachines
  Bare <- MCBare
SPECIFICATION FairSpec
CHECK_DEADLOCK FALSE
INVARIANTS
  InBounds
  ExactSerials
  StableFingerprint
  NoFalseKin
  UsbGoesFirst
PROPERTIES
  CollectEnds
