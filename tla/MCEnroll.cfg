CONSTANTS
  Ids <- MCIds
  UsbIds <- MCUsbIds
  RescueIds <- NoIds
  MAX_SHARES = 3
  MAX_SLOTS = 4
  MaxSecrets = 5
  TokenRoom = 2
  Machines <- MCMachines
  InitialVolumes <- MCInitialVolumes
  Thresholds <- MCThresholds
  Unset = Unset
  MaxFaults = 2
  Passphrase = Passphrase
  RescueKey = RescueKey
  Garbage = Garbage
  NoKey = NoKey
  NoToken = NoToken
  ForeignToken = ForeignToken
SPECIFICATION Spec
INVARIANTS
  TypeOK
  TokensBacked
  EnrollmentReplaces
  Recoverable
PROPERTIES
  AdminKeyslotsKept
