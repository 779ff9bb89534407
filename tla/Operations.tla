----------------------------- MODULE Operations -----------------------------
(***************************************************************************)
(* The operators that apply is called with: the standard functors and      *)
(* evmdd/operations/ for numeric expressions                               *)
(* (catamorph/interpreters/create_evmdd.h), keep_if_true and Union for     *)
(* conditional effects (conditional_effects.cpp), and std::make_pair for   *)
(* the product of an effect and its cost (EvmddFactory::product).          *)
(* An operator is named after its functor.                                 *)
(***************************************************************************)
EXTENDS Monoids

NumericOp == {"plus", "minus", "multiplies", "greater", "less", "greater_equal",
              "less_equal", "equal_to", "logic_and", "logic_or", "logic_not",
              "absolute"}

(* The kinds of the operands and of the result. *)
LeftKind(op)   == IF op \in {"Union", "make_pair"} THEN "Facts" ELSE "int"
RightKind(op)  == IF op \in {"keep_if_true", "Union"} THEN "Facts" ELSE "int"
ResultKind(op) == IF op \in {"keep_if_true", "Union"} THEN "Facts"
                  ELSE IF op = "make_pair" THEN "pair" ELSE "int"

IsBinary(a) == a \in {0, 1}

(* The logic operators throw std::logic_error on operands other than 0 and *)
(* 1.  logic_not looks at its left operand only.                           *)
Defined(op, a, b) ==
  CASE op \in {"logic_and", "logic_or"} -> IsBinary(a) /\ IsBinary(b)
    [] op = "logic_not"                 -> IsBinary(a)
    [] OTHER                            -> TRUE

Bit(truth) == IF truth THEN 1 ELSE 0

(* The unary operators disregard their right operand. *)
Result(op, a, b) ==
  CASE op = "plus"          -> Wrap(a + b)
    [] op = "minus"         -> Wrap(a - b)
    [] op = "multiplies"    -> Wrap(a * b)
    [] op = "greater"       -> Bit(a > b)
    [] op = "less"          -> Bit(a < b)
    [] op = "greater_equal" -> Bit(a >= b)
    [] op = "less_equal"    -> Bit(a <= b)
    [] op = "equal_to"      -> Bit(a = b)
    [] op = "logic_and"     -> Bit(a = 1 /\ b = 1)
    [] op = "logic_or"      -> Bit(a = 1 \/ b = 1)
    [] op = "logic_not"     -> Bit(a = 0)
    [] op = "absolute"      -> IF a < 0 THEN Wrap(-a) ELSE a
    [] op = "keep_if_true"  -> IF a = 1 THEN b ELSE {}
    [] op = "Union"         -> a \cup b
    [] op = "make_pair"     -> <<a, b>>
=============================================================================
