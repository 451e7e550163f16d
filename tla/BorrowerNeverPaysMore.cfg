SPECIFICATION Spec
CONSTANTS
  None = None
  Principals = {2, 6}
  Interests = {0, 1, 3, 7}
  Extensions = {0, 3}
  Durations = {1, 3}
  FeeRates <- MCFeeRates
  BrokerRates = {0, 3333, 10000}
  Upfronts <- MCUpfronts
INVARIANTS
  BorrowerNeverPaysMore
CHECK_DEADLOCK FALSE
