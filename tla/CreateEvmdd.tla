---------------------------- MODULE CreateEvmdd ----------------------------
(***************************************************************************)
(* CreateEvmdd (catamorph/interpreters/create_evmdd.h): the diagram of an  *)
(* expression, a catamorphism that is a client of the factory of int       *)
(* diagrams.                                                               *)
(*                                                                         *)
(* The catamorphism visits a term bottom-up.  Each step of the algebra is  *)
(* an action: a leaf makes a diagram, an operator takes those of its       *)
(* operands, the last ones made, and combines them by calls of apply,      *)
(* which run between the actions of this module.  Which leaf or operator   *)
(* comes next is left open, so that the behaviours are those on all terms. *)
(* Beside each diagram stands the function that its part of the term means *)
(* by the operators alone.                                                 *)
(***************************************************************************)
EXTENDS EvmddApply, Operations

CONSTANTS
  TermConst,    \* the constants in terms, as int
  TermOp,       \* operator -> the numbers of operands it may have
  TheKey,       \* the domains and ordering that all diagrams are made for
  MaxSymbols    \* a bound: leaves and operators of all terms together

(* A single operand is only given to the unary operators: the code would   *)
(* read - x as x - x, and + x as x + x.                                    *)
ASSUME TermAssumption ==
  /\ TermConst \subseteq Carrier("int")
  /\ DOMAIN TermOp \subseteq Op
  /\ \A op \in DOMAIN TermOp : 1 \in TermOp[op] => op \in {"logic_not", "absolute"}
  /\ TheKey \in Key
  /\ MaxSymbols \in Nat

VARIABLES
  operands,     \* the diagrams of the operands that no operator has taken yet
  folding,      \* the operator being applied, with what remains to be done
  symbols       \* history: the number of leaves and operators so far

createVars == <<operands, folding, symbols>>

Registered(kind) == <<kind, TheKey>> \in DOMAIN registry

FactoryOf(kind) == registry[<<kind, TheKey>>]

(* A diagram with what it has to denote. *)
Part(e, fn) == [e |-> e, fn |-> fn]

NoFolding == [op |-> "none"]

CreateInit ==
  /\ Init
  /\ operands = <<>>
  /\ folding = NoFolding
  /\ symbols = 0

NotFolding == Idle /\ folding.op = "none"

(* Obtaining a factory that does not exist yet. *)
Obtain(kind) ==
  /\ NotFolding
  /\ GetFactory(kind, TheKey)
  /\ UNCHANGED createVars

----------------------------------------------------------------------------
(* What an operator makes of numbers or facts, if it is defined on them:   *)
(* n-ary ones work from the left, unary ones disregard their second        *)
(* operand.                                                                *)
FromLeft(op, args) == FoldLeft(LAMBDA a, b : Result(op, a, b), Head(args), Tail(args))

Meaning(op, args) ==
  IF Len(args) = 1 THEN Result(op, args[1], args[1]) ELSE FromLeft(op, args)

IsDefined(op, args) ==
  IF Len(args) = 1 THEN Defined(op, args[1], args[1])
  ELSE \A i \in 2 .. Len(args) : Defined(op, FromLeft(op, SubSeq(args, 1, i - 1)), args[i])

At(parts, s) == [i \in DOMAIN parts |-> parts[i].fn[s]]

Expected(op, parts) == [s \in State |-> Meaning(op, At(parts, s))]

----------------------------------------------------------------------------
(* The leaves. *)
Leaf(e, fn) ==
  /\ NotFolding /\ Registered("int")
  /\ symbols < MaxSymbols
  /\ operands' = Append(operands, Part(e, fn))
  /\ symbols' = symbols + 1
  /\ UNCHANGED folding

CreateConst(w) ==
  LET f == FactoryOf("int")
  IN  /\ Leaf([src |-> TerminalOf(f), input |-> w], [s \in State |-> w])
      /\ MakeConst(f, w)

(* The domain values are numbered from 0. *)
DomainValues(v) == [i \in 1 .. DomainSize[v] |-> i - 1]

CreateVar(v) ==
  LET f        == FactoryOf("int")
      children == [i \in 1 .. DomainSize[v] |-> [w |-> i - 1, to |-> TerminalOf(f)]]
  IN  /\ Leaf([src |-> NodeAt(f, v, children), input |-> Neutral("int")],
              [s \in State |-> s[v] - 1])
      /\ MakeVar(f, v, DomainValues(v))

----------------------------------------------------------------------------
(* Mutated forms of Fold. *)
FoldFromRight(op, f, parts) ==
  /\ folding' = [op |-> op, fac |-> f, parts |-> parts, result |-> Last(parts).e,
                 rest |-> [i \in 1 .. Len(parts) - 1 |-> parts[Len(parts) - i].e],
                 waiting |-> FALSE]
  /\ UNCHANGED vars

FoldSkipsFirst(op, f, parts) ==
  /\ folding' = [op |-> op, fac |-> f, parts |-> parts, result |-> parts[1].e,
                 rest |-> [i \in 1 .. Len(parts) - 2 |-> parts[i + 2].e],
                 waiting |-> FALSE]
  /\ UNCHANGED vars

(* An operator is about to be applied to all of the parts in factory f: to *)
(* the first and the second, to the result and the third, and so on; to a  *)
(* single one twice ("no unary apply implemented").                        *)
Fold(op, f, parts) ==
  /\ folding' = [op |-> op, fac |-> f, parts |-> parts, result |-> parts[1].e,
                 rest |-> IF Len(parts) = 1 THEN <<parts[1].e>>
                          ELSE [i \in 1 .. Len(parts) - 1 |-> parts[i + 1].e],
                 waiting |-> FALSE]
  /\ UNCHANGED vars

(* The algebra for an operator with n operands. *)
CreateOp(op, n) ==
  LET rest == Len(operands) - n
  IN  /\ NotFolding
      /\ rest >= 0 /\ symbols < MaxSymbols
      /\ Fold(op, FactoryOf("int"), SubSeq(operands, rest + 1, Len(operands)))
      /\ operands' = SubSeq(operands, 1, rest)
      /\ symbols' = symbols + 1

(* The next call of apply. *)
FoldCall ==
  /\ Idle /\ folding.op # "none"
  /\ ~ folding.waiting /\ folding.rest # <<>>
  /\ Apply(folding.op, folding.fac, folding.result, Head(folding.rest))
  /\ folding' = [folding EXCEPT !.rest = Tail(@), !.waiting = TRUE]
  /\ UNCHANGED <<operands, symbols>>

(* apply has returned. *)
FoldReceive ==
  /\ Idle /\ folding.op # "none"
  /\ folding.waiting /\ outcome.status = "returned"
  /\ folding' = [folding EXCEPT !.result = outcome.result, !.waiting = FALSE]
  /\ UNCHANGED <<vars, operands, symbols>>

(* apply has thrown. *)
FoldThrew ==
  /\ Idle /\ folding.op # "none"
  /\ folding.waiting /\ outcome.status = "threw"

FoldDone ==
  /\ Idle /\ folding.op # "none"
  /\ ~ folding.waiting /\ folding.rest = <<>>

(* What the fold has made. *)
Folded == Part(folding.result, Expected(folding.op, folding.parts))

----------------------------------------------------------------------------
(* The operator of the fold is undefined on its operands in some state. *)
Undefined == \E s \in State : ~ IsDefined(folding.op, At(folding.parts, s))

(* The diagram stands for the term: in every state it has the value that   *)
(* the operators of the term, taken by themselves, give for the domain     *)
(* values.                                                                 *)
DenotesTerm(part) == \A s \in State : Value(s)[part.e] = part.fn[s]
=============================================================================
