SPECIFICATION Spec
CONSTANTS
  CandidateLists <- MCCandidateLists
  UnsignedRange = 16
  Texts <- MCTexts
  Options <- MCOptions
  MaxElements = 5
INVARIANTS OptionsUnambiguous OutcomeAsMeant ValuesAsGiven
CHECK_DEADLOCK FALSE
