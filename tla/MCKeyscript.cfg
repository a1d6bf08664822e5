CONSTANTS
  Ids <- MCIds
  UsbIds <- MCUsbIds
  RescueIds <- StickSerial
  MAX_SHARES = 4
  MAX_SLOTS = 6
  MaxSecrets = 7
  TokenRoom = 6
  Machines <- MCMachines
  StickKeys <- MCStickKeys
  Detachments <- Anywhere
  InitialSlots <- MCInitialSlots
  InitialTokens <- MCInitialTokens
  MaxFaults = 2
  MaxSwaps = 2
  Passphrase = Passphrase
  RescueKey = RescueKey
  Garbage = Garbage
  NoKey = NoKey
  NoToken = NoToken
  ForeignToken = ForeignToken
SPECIFICATION Spec
INVARIANTS
  TypeOK
  TokensBacked
  EmittedKeyOpens
  LeakBound
  DriverOnScript
  ReplacedRevoked
PROPERTIES
  RescueBoots
  BackupKeysSurvive
  HeaderBackedUp
  FingerprintNeverLost
  KeepsStore
