SPECIFICATION Spec
CONSTANTS
  Operators = {"+", "-", "abs"}
  MaxTokens = 6
  MaxReuse = 0
  MaxParses = 1
INVARIANT ParsesOrThrows
CHECK_DEADLOCK FALSE
