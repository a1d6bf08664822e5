CONSTANTS
  Ids <- MCIds
  UsbIds <- MCUsbIds
  RescueIds <- StickSerial
  MAX_SHARES = 4
  MAX_SLOTS = 6
  MaxSecrets = 7
  TokenRoom = 6
  Machines <- SwapMachines
  StickKeys <- MCStickKeys
  Detachments <- Anywhere
  InitialSlots <- MCInitialSlots
  InitialTokens <- MCInitialTokens
  MaxFaults = 0
  MaxSwaps = 2
  Passphrase = Passphrase
  RescueKey = RescueKey
  Garbage = Garbage
  NoKey = NoKey
  NoToken = NoToken
  ForeignToken = ForeignToken
SPECIFICATION Spec
INVARIANTS
  OneSwapBoots
