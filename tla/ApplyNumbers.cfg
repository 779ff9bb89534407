SPECIFICATION Spec
CONSTANTS
  IntBits = 3
  Fact = {}
  Hash <- StructureHash
  TerminalKey <- StructureTerminalKey
  Kind = {"int", "bool"}
  Carrier <- MonoidCarrier
  Neutral <- NeutralElement
  Plus <- MonoidPlus
  Monus <- MonoidMonus
  Glb <- MonoidGlb
  DomainSize <- TwoBits
  Op = {"plus", "minus", "multiplies", "logic_and"}
  OpType <- FunctorType
  OpLeft <- LeftKind
  OpRight <- RightKind
  OpResult <- ResultKind
  OpDefined <- Defined
  OpFun <- Result
  Key = {"ab"}
  ResetKind = {}
  ConstInput <- NumberConst
  VarInput <- NumberVars
  MaxFactories = 1
  MaxHeld = 3
  MaxCalls = 2
INVARIANT TypeOK
INVARIANT CacheSound
INVARIANT ReturnsPointwise
INVARIANT Canonical
INVARIANT MinimumOfResults
INVARIANT FactoryOwnsResults
INVARIANT RecursionDescends
PROPERTY NothingForgotten
PROPERTY ImplementsFunctions
PROPERTY CallEnds
CHECK_DEADLOCK FALSE
