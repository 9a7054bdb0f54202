SPECIFICATION Spec
CONSTANTS
  Alphabets <- SomeAlphabets
  MaxLen = 5
  MaxNumber = 1100
  Room = 12
  Values <- SomeValues
  MAX_QUERY_TERMS_NUM = 2
  MAX_HIGH_LIGHT_TERM_NUM = 4
  PER_TERM = 3
INVARIANTS
  EscapedInPieces
  XmlRoundTrip
  CutsBetweenCharacters
  NumbersGrouped
  HighlightsTerms
\* A text or a number at its bound is not extended.
CHECK_DEADLOCK FALSE
