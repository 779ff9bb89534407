SPECIFICATION ReduceSpec
CONSTANTS
  IntBits = 3
  Fact = {}
  Hash <- StructureHash
  TerminalKey <- StructureTerminalKey
  Kind = {"int"}
  Carrier <- MonoidCarrier
  Neutral <- NeutralElement
  Plus <- MonoidPlus
  Monus <- MonoidMonus
  Glb <- MonoidGlb
  DomainSize <- ThreeVars
  Op = {"plus"}
  OpType <- FunctorType
  OpLeft <- LeftKind
  OpRight <- RightKind
  OpResult <- ResultKind
  OpDefined <- Defined
  OpFun <- Result
  Key = {"ab"}
  ResetKind = {}
  ConstInput <- NumberConst
  VarInput <- OuterVars
  MaxFactories = 1
  MaxHeld = 3
  MaxCalls = 2
INVARIANT ReduceTypeOK
INVARIANT ReducesCorrectly
INVARIANT ReductionIsIdempotent
PROPERTY ReductionEnds
CHECK_DEADLOCK FALSE
