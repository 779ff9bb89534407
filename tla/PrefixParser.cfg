SPECIFICATION Spec
CONSTANTS
  Operators = {"+", "-", "/", "abs"}
  MaxTokens = 6
INVARIANT PrefixTypeOK
INVARIANT ReadsPrefix
INVARIANT ThrowsOnlyErrors
PROPERTY PrefixParsingEnds
CHECK_DEADLOCK FALSE
