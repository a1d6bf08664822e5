CONSTANTS
  Ids <- MCIds
  UsbIds <- MCUsbIds
  RescueIds <- NoIds
  MAX_SHARES = 3
  MAX_SLOTS = 4
  MaxSecrets = 5
  TokenRoom = 2
  Machines <- MCMachines
  InitialVolumes <- KnownVolume
  Thresholds <- MCThresholds
  Unset = Unset
  MaxFaults = 1
  Passphrase = Passphrase
  RescueKey = RescueKey
  Garbage = Garbage
  NoKey = NoKey
  NoToken = NoToken
  ForeignToken = ForeignToken
SPECIFICATION Spec
PROPERTIES
  NewTokenFirst
