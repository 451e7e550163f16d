SPECIFICATION Spec
CONSTANTS
  None = None
  Principals = {2, 30}
  Interests = {0, 7, 25, 64}
  Extensions = {0, 3}
  Durations = {1, 7}
  FeeRates <- MCFeeRates
  BrokerRates = {0, 7630, 10000}
  Upfronts <- MCUpfronts
INVARIANTS
  MaxDeltaIsMaximal
  BorrowerKeptWhole
  SameLenderNeverReceives
  ReplacementConserves
  LenderKeepsPrincipal
CHECK_DEADLOCK FALSE
