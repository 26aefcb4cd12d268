SPECIFICATION Spec
CONSTANTS
  Words <- MCWords
  Numerals <- MCNumerals
  U32Max = 8
  MaxQuantifier = 2
  Regexes <- MCRegexes
  Questions <- MCQuestions
  WrittenIn <- MCWrittenIn
  Scribbles <- MCScribbles
  Corpora <- MCCorpora
INVARIANTS
  Complete
CHECK_DEADLOCK FALSE
