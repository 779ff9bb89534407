------------------------- MODULE ConditionalEffects -------------------------
(***************************************************************************)
(* ConditionalEffects and ConditionalEffect (conditional_effects.cpp), and *)
(* the use that main.cpp and product_tests.cpp make of them: the diagram   *)
(* of a cost expression, the union of the diagrams of some conditional     *)
(* effects, and the product of both.                                       *)
(*                                                                         *)
(* The conditions and the cost are terms of CreateEvmdd.  Everything is    *)
(* done for one pair of domains and ordering, with a factory of int, one   *)
(* of Facts and one of pairs.                                              *)
(***************************************************************************)
EXTENDS CreateEvmdd

CONSTANT MaxEffects     \* a bound on the length of the list of effects

ASSUME EffectAssumption == MaxEffects \in Nat

VARIABLES
  pc,           \* what is being built
  cost,         \* the cost, if there is one: a sequence of at most one part
  written,      \* history: the effects as written, conditions with facts
  effects,      \* effect_evmdds
  product       \* what the program is left with: a sequence of at most one part

effectVars == <<pc, cost, written, effects, product>>

allVars == <<vars, createVars, effectVars>>

EffectInit ==
  /\ CreateInit
  /\ pc = "start"
  /\ cost = <<>>
  /\ written = <<>>
  /\ effects = <<>>
  /\ product = <<>>

(* The factory that is asked for first, at each point. *)
Needed ==
  CASE pc \in {"cost", "condition"} -> "int"
    [] pc = "effects"               -> "Facts"
    [] pc = "product"               -> "pair"
    [] OTHER                        -> "none"

GetNeeded ==
  /\ Needed # "none"
  /\ Obtain(Needed)
  /\ UNCHANGED effectVars

Goto(there) == pc' = there /\ UNCHANGED <<vars, createVars>>

(* The program has an expression for the cost, or goes on to the effects.  *)
Start ==
  /\ pc = "start"
  /\ \E there \in {"cost", "effects"} : Goto(there)
  /\ UNCHANGED <<cost, written, effects, product>>

(* The steps of create_evmdd on a term: those of a leaf or an operator,    *)
(* and the end of an operator's application.                               *)
Building == pc \in {"cost", "condition"}

BuildTerm ==
  /\ Building /\ Registered("int")
  /\ \/ \E w \in TermConst : CreateConst(w)
     \/ \E v \in Level : CreateVar(v)
     \/ \E op \in DOMAIN TermOp : \E n \in TermOp[op] : CreateOp(op, n)
  /\ UNCHANGED effectVars

OperatorDone ==
  /\ Building /\ FoldDone
  /\ operands' = Append(operands, Folded)
  /\ folding' = NoFolding
  /\ UNCHANGED <<vars, symbols, effectVars>>

TermDone == NotFolding /\ Building /\ Len(operands) = 1

CostDone ==
  /\ TermDone /\ pc = "cost"
  /\ cost' = operands
  /\ operands' = <<>>
  /\ pc' = "effects"
  /\ UNCHANGED <<vars, folding, symbols, written, effects, product>>

----------------------------------------------------------------------------
(* The effects. *)
NextEffect ==
  /\ pc = "effects" /\ Registered("Facts")
  /\ Len(effects) < MaxEffects
  /\ Goto("condition")
  /\ UNCHANGED <<cost, written, effects, product>>

(* The constant diagram of the effect. *)
MakeEffect(fact) ==
  LET f == FactoryOf("Facts")
      e == [src |-> TerminalOf(f), input |-> {fact}]
  IN  /\ TermDone /\ pc = "condition"
      /\ MakeConst(f, {fact})
      /\ operands' = Append(operands, Part(e, [s \in State |-> {fact}]))
      /\ written' = Append(written, [condition |-> operands[1], fact |-> fact])
      /\ pc' = "effect"
      /\ UNCHANGED <<folding, symbols, cost, effects, product>>

KeepIfTrue ==
  /\ pc = "effect" /\ NotFolding /\ Len(operands) = 2
  /\ Fold("keep_if_true", FactoryOf("Facts"), operands)
  /\ operands' = <<>>
  /\ UNCHANGED <<symbols, effectVars>>

EffectDone ==
  /\ pc = "effect" /\ FoldDone
  /\ effects' = Append(effects, Folded)
  /\ folding' = NoFolding
  /\ pc' = "effects"
  /\ UNCHANGED <<vars, operands, symbols, cost, written, product>>

(* All effects are there: their union, step by step. *)
AfterUnion == IF cost = <<>> THEN "done" ELSE "product"

NoEffects ==
  LET f == FactoryOf("Facts")
      e == [src |-> TerminalOf(f), input |-> {}]
  IN  /\ pc = "effects" /\ Registered("Facts") /\ effects = <<>>
      /\ MakeConst(f, {})
      /\ product' = <<Part(e, [s \in State |-> {}])>>
      /\ pc' = AfterUnion
      /\ UNCHANGED <<createVars, cost, written, effects>>

OneEffect ==
  /\ pc = "effects" /\ NotFolding /\ Len(effects) = 1
  /\ product' = effects
  /\ pc' = AfterUnion
  /\ UNCHANGED <<vars, createVars, cost, written, effects>>

UniteEffects ==
  /\ pc = "effects" /\ NotFolding /\ Len(effects) > 1
  /\ Fold("Union", FactoryOf("Facts"), effects)
  /\ pc' = "union"
  /\ UNCHANGED <<operands, symbols, cost, written, effects, product>>

UnionDone ==
  /\ pc = "union" /\ FoldDone
  /\ product' = <<Folded>>
  /\ folding' = NoFolding
  /\ pc' = AfterUnion
  /\ UNCHANGED <<vars, operands, symbols, cost, written, effects>>

(* main does not build effects if none were entered, and writes the cost.  *)
CostAlone ==
  /\ pc = "effects" /\ NotFolding /\ effects = <<>> /\ cost # <<>>
  /\ product' = cost
  /\ pc' = "done"
  /\ UNCHANGED <<vars, createVars, cost, written, effects>>

(* The product with the cost. *)
Multiply ==
  /\ pc = "product" /\ NotFolding /\ Registered("pair")
  /\ Fold("make_pair", FactoryOf("pair"), product \o cost)
  /\ UNCHANGED <<operands, symbols, effectVars>>

ProductDone ==
  /\ pc = "product" /\ FoldDone
  /\ product' = <<Folded>>
  /\ folding' = NoFolding
  /\ pc' = "done"
  /\ UNCHANGED <<vars, operands, symbols, cost, written, effects>>

(* An exception of apply passes through all of this to the caller. *)
Fail ==
  /\ FoldThrew /\ pc # "failed"
  /\ pc' = "failed"
  /\ operands' = <<>>
  /\ UNCHANGED <<vars, folding, symbols, cost, written, effects, product>>

(* The client catches the exception and starts again, with other           *)
(* expressions: what the factories and the cache hold remains.             *)
StartAgain ==
  /\ pc = "failed"
  /\ pc' = "start"
  /\ folding' = NoFolding
  /\ cost' = <<>> /\ written' = <<>> /\ effects' = <<>> /\ product' = <<>>
  /\ UNCHANGED <<vars, operands, symbols>>

----------------------------------------------------------------------------
(* What runs by itself once an operator has been reached: the calls of     *)
(* apply, their steps, and what is done with the results.                  *)
Continue ==
  \/ Step /\ UNCHANGED <<createVars, effectVars>>
  \/ (FoldCall \/ FoldReceive) /\ UNCHANGED effectVars
  \/ OperatorDone \/ EffectDone \/ UnionDone \/ ProductDone \/ Fail

EffectNext ==
  \/ GetNeeded \/ Start \/ BuildTerm \/ CostDone
  \/ NextEffect \/ (\E fact \in Fact : MakeEffect(fact)) \/ KeepIfTrue
  \/ NoEffects \/ CostAlone \/ OneEffect \/ UniteEffects \/ Multiply \/ StartAgain
  \/ Continue

EffectSpec == EffectInit /\ [][EffectNext]_allVars /\ WF_allVars(Continue)

----------------------------------------------------------------------------
(* The facts that the effects produce in s: "the resulting evmdd evalutes  *)
(* to eff, iff s satisfies phi, otherwise it evaluates to the empty set"   *)
(* (conditional_effects.h).                                                *)
Produced(s) == {w.fact : w \in {x \in Range(written) : x.condition.fn[s] = 1}}

(* The program ends with the diagram of what was written: in every state   *)
(* the facts of the effects whose condition is 1 there, together with the  *)
(* cost, or the cost alone.  On the way every diagram of a term is that of *)
(* its term.                                                               *)
EffectsAsWritten ==
  /\ \A part \in Range(operands) \cup Range(cost) \cup Range(effects) : DenotesTerm(part)
  /\ pc = "done" =>
       \A s \in State :
         Value(s)[product[1].e] =
           IF cost = <<>> THEN Produced(s)
           ELSE IF product = cost THEN cost[1].fn[s]
           ELSE <<Produced(s), cost[1].fn[s]>>

(* It fails if and only if an operator is undefined on the values of its   *)
(* operands in some state: an undefined operator is never passed over, and *)
(* nothing that was left behind by another operator makes one fail.        *)
FailsIfUndefined ==
  /\ pc = "failed" => Undefined
  /\ FoldDone => ~ Undefined

(* Every operator that has been reached is applied or fails. *)
BuildingEnds == (folding.op # "none") ~> (folding.op = "none" \/ pc = "failed")
=============================================================================
