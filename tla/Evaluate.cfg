SPECIFICATION EvalSpec
CONSTANTS
  IntBits = 5
  Fact = {"u", "v"}
  Hash <- StructureHash
  TerminalKey <- StructureTerminalKey
  Kind = {"int", "Facts", "pair"}
  Carrier <- MonoidCarrier
  Neutral <- NeutralElement
  Plus <- MonoidPlus
  Monus <- MonoidMonus
  Glb <- MonoidGlb
  DomainSize <- TwoBits
  Op = {"plus", "Union", "make_pair"}
  OpType <- FunctorType
  OpLeft <- LeftKind
  OpRight <- RightKind
  OpResult <- ResultKind
  OpDefined <- Defined
  OpFun <- Result
  Key = {"ab"}
  ResetKind = {}
  ConstInput = {}
  VarInput <- EffectCostVars
  MaxFactories = 3
  MaxHeld = 3
  MaxCalls = 2
  EvalFun = {"max", "Relaxation"}
  PartialState <- SomePartialStates
INVARIANT EvalTypeOK
INVARIANT MaxIsGreatest
INVARIANT RelaxationIsCheapest
INVARIANT FactsOccurOnce
PROPERTY EvaluationEnds
CHECK_DEADLOCK FALSE
