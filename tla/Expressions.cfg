SPECIFICATION OrderSpec
CONSTANTS
  Variable = {"x", "y", "z"}
  Constant <- SmallNumbers
  Arity <- EveryArity
  SizeLimit <- SumsLarger
  Env <- SomeEnvs
  Range0 <- SmallNumbers
INVARIANT KeepsValueWithoutDivision
INVARIANT ThrowsOnlyWithoutValue
INVARIANT ConstantPartCancels
INVARIANT OrdersAllVariables
INVARIANT FollowsFanIn
CHECK_DEADLOCK FALSE
