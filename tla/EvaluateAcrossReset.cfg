SPECIFICATION EvalSpec
CONSTANTS
  IntBits = 6
  Fact = {}
  Hash <- StructureHash
  TerminalKey <- StructureTerminalKey
  Kind = {"int"}
  Carrier <- MonoidCarrier
  Neutral <- NeutralElement
  Plus <- MonoidPlus
  Monus <- MonoidMonus
  Glb <- MonoidGlb
  DomainSize <- TwoBits
  Op = {"multiplies"}
  OpType <- FunctorType
  OpLeft <- LeftKind
  OpRight <- RightKind
  OpResult <- ResultKind
  OpDefined <- Defined
  OpFun <- Result
  Key = {"ab"}
  ResetKind = {"int"}
  ConstInput <- FactorConst
  VarInput <- FactorVars
  MaxFactories = 2
  MaxHeld = 3
  MaxCalls = 2
  EvalFun = {"max"}
  PartialState <- NoRestriction
INVARIANT MaxIsGreatest
CHECK_DEADLOCK FALSE
