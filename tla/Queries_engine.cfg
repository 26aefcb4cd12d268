SPECIFICATION Spec
CONSTANTS
  Words <- MCWords
  Numerals <- MCNumerals
  U32Max = 8
  MaxQuantifier = 2
  Regexes <- MCRegexes
  Questions <- MCQuestions
  WrittenIn <- MCWrittenIn
  Scribbles <- MCScribbles
  Corpora <- MCCorpora
INVARIANTS
  RoundTrip
  HitsAreMatches
  MatchesAreHits
  CountAgrees
  LabelsAddCaptures
CHECK_DEADLOCK FALSE
