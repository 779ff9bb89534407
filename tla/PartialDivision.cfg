SPECIFICATION OrderSpec
CONSTANTS
  Variable = {"x", "y", "z"}
  Constant <- SmallNumbers
  Arity <- EveryArity
  SizeLimit <- SumsLarger
  Env <- SomeEnvs
  Range0 <- SmallNumbers
INVARIANT KeepsValue
CHECK_DEADLOCK FALSE
