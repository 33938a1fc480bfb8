SPECIFICATION Spec
CONSTANTS
  NULL = NULL
  Width = 8
  Ints <- AllInts
  Strings <- ShortStrings
INVARIANTS RoundTrip ParsedAsWritten TokensAreWords
