SPECIFICATION Spec
CONSTANTS
  IntBits = 3
  Fact = {}
  Hash <- StructureHash
  TerminalKey <- StructureTerminalKey
  Kind = {"int"}
  Carrier <- MonoidCarrier
  Neutral <- NeutralElement
  Plus <- MonoidPlus
  Monus <- MonoidMonus
  Glb <- MonoidGlb
  DomainSize <- TwoBits
  Op = {"plus"}
  OpType <- FunctorType
  OpLeft <- LeftKind
  OpRight <- RightKind
  OpResult <- ResultKind
  OpDefined <- Defined
  OpFun <- Result
  Key = {"ab", "a"}
  ResetKind = {"int"}
  ConstInput <- NumberConst
  VarInput <- NumberVars
  MaxFactories = 2
  MaxHeld = 3
  MaxCalls = 2
PROPERTY ImplementsFunctions
CHECK_DEADLOCK FALSE
