CONSTANTS
  Ids <- MCIds
  UsbIds <- MCUsbIds
  RescueIds <- StickSerial
  MAX_SHARES = 4
  MAX_SLOTS = 6
  MaxSecrets = 7
  TokenRoom = 1
  Machines <- TwoMachines
  StickKeys <- MCStickKeys
  Detachments <- Anywhere
  InitialSlots <- MCInitialSlots
  InitialTokens <- MCInitialTokens
  MaxFaults = 0
  MaxSwaps = 1
  Passphrase = Passphrase
  RescueKey = RescueKey
  Garbage = Garbage
  NoKey = NoKey
  NoToken = NoToken
  ForeignToken = ForeignToken
SPECIFICATION Spec
INVARIANTS
  AtMostTwoFingerprints
