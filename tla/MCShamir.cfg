CONSTANTS
  Factors <- Byte
  SecretBytes <- MCSecretBytes
  SecretLen = 2
  Params <- MCParams
  Coefficients <- MCCoefficients
  Abscissae <- MCAbscissae
  MaxHanded = 3
SPECIFICATION MCSpec
CHECK_DEADLOCK FALSE
INVARIANTS
  MulIsProduct
  InverseIsInverse
  QuorumRebuilds
  NoFalseSecret
  NothingFromFewer
