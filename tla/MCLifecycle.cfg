CONSTANTS
  Ids <- MCIds
  UsbIds <- MCUsbIds
  RescueIds <- NoRescueIds
  MAX_SHARES = 4
  MAX_SLOTS = 4
  MaxSecrets = 5
  TokenRoom = 5
  Machines <- MCMachines
  StickKeys <- MCStickKeys
  Detachments <- Attached
  InitialSlots <- MCInitialSlots
  InitialTokens <- MCInitialTokens
  MaxFaults = 1
  MaxSwaps = 2
  Thresholds <- DefaultOnly
  Unset = Unset
  Passphrase = Passphrase
  RescueKey = RescueKey
  Garbage = Garbage
  NoKey = NoKey
  NoToken = NoToken
  ForeignToken = ForeignToken
SPECIFICATION LifeSpec
INVARIANTS
  OneSwapBoots
  StaleRevoked
  StatusForetellsBoot
  RescueBootHeals
PROPERTIES
  NeverTheOnlyWay
  LifeKeepsStore
