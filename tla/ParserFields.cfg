CONSTANTS
  Keys = {"a", "b"}
  Values <- MCValues
  Documents <- MCDocuments
  Narrow = 2
  Wide = 4
  Long = 5
  Mantissa = 3
  Low = 0
  High = 1
  MaxFields <- MCMaxFields
SPECIFICATION Spec
CHECK_DEADLOCK FALSE
INVARIANTS TypeOK NoInvalidAccepted ErrorNamesFirstInvalid DestinationTrustworthy StrictFindsUnknown
