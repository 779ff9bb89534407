SPECIFICATION EffectSpec
CONSTANTS
  IntBits = 3
  Fact = {"u", "v"}
  Hash <- StructureHash
  TerminalKey <- StructureTerminalKey
  Kind = {"int", "Facts", "pair"}
  Carrier <- MonoidCarrier
  Neutral <- NeutralElement
  Plus <- MonoidPlus
  Monus <- MonoidMonus
  Glb <- MonoidGlb
  DomainSize <- BitAndTrit
  Op = {"minus", "equal_to", "logic_and", "logic_not", "keep_if_true", "Union", "make_pair"}
  OpType <- FunctorType
  OpLeft <- LeftKind
  OpRight <- RightKind
  OpResult <- ResultKind
  OpDefined <- Defined
  OpFun <- Result
  Key = {"xy"}
  ResetKind = {}
  ConstInput <- ProgramConst
  VarInput <- DomainVars
  MaxFactories = 3
  MaxHeld = 50
  MaxCalls = 50
  TermConst = {2}
  TermOp <- SomeOps
  TheKey = "xy"
  MaxSymbols = 5
  MaxEffects = 2
INVARIANT EffectsAsWritten
INVARIANT FailsIfUndefined
PROPERTY BuildingEnds
CHECK_DEADLOCK FALSE
