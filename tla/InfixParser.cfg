SPECIFICATION Spec
CONSTANTS
  Operators = {"+", "-", "*", "/", ">", ">=", "<", "<=", "abs", "!", "&&", "||", "=="}
  MaxTokens = 7
  MaxReuse = 5
  MaxParses = 2
INVARIANT ParserTypeOK
INVARIANT ReadsAsWritten
INVARIANT RejectsOnlyErrors
PROPERTY ParsingEnds
CHECK_DEADLOCK FALSE
