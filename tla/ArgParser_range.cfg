SPECIFICATION Spec
CONSTANTS
  CandidateLists <- MCCandidateLists
  UnsignedRange = 16
  Texts <- MCTexts
  Options <- MCOptions
  MaxElements = 4
INVARIANT ValuesInRange
CHECK_DEADLOCK FALSE
