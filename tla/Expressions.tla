---------------------------- MODULE Expressions ----------------------------
(***************************************************************************)
(* Expressions (catamorph/expression.h) and what Polynomial and Evaluate   *)
(* make of them: simplification under a partial environment and            *)
(* evaluation.                                                             *)
(*                                                                         *)
(* A client builds terms bottom-up with Factories, as the parsers do, and  *)
(* asks for the value of the term it has built.  The recursion of          *)
(* catamorph.h has no state, so a catamorphism is a recursive operator     *)
(* here.  A result that is an exception passes through it to the caller.   *)
(***************************************************************************)
EXTENDS Fractions, SequencesExt

CONSTANTS
  Variable,     \* names of variables
  Constant,     \* the constants that terms may have
  Arity,        \* operator -> the numbers of operands it is built with
  SizeLimit,    \* a bound: symbol (operator, "var", "cst") -> size of the terms it is in
  Env,          \* the environments asked for: from some variables to fractions
  Range0        \* the values of variables over which terms are compared

ASSUME ExpressionAssumption ==
  /\ \A env \in Env : DOMAIN env \subseteq Variable
  /\ \A op \in DOMAIN Arity : Arity[op] \subseteq Nat \ {0}
  /\ DOMAIN SizeLimit = DOMAIN Arity \cup {"var", "cst"}

VARIABLES
  terms,        \* the terms that are built but not used as operands yet
  size,         \* the number of symbols in them
  limit,        \* the bound on size, the least of those of the symbols used
  answer        \* history: the last question of the client and its answer

exprVars == <<terms, size, limit, answer>>

----------------------------------------------------------------------------
(* Terms. *)
Cst(q)        == [op |-> "cst", name |-> "", value |-> q, rands |-> <<>>]
Var(v)        == [op |-> "var", name |-> v, value |-> NoValue, rands |-> <<>>]
Term(op, sub) == [op |-> op, name |-> "", value |-> NoValue, rands |-> sub]

(* The exceptions std::logic_error of Optimizations and Iverson. *)
Threw == Term("threw", <<>>)

IsCst(e) == e.op = "cst"

(* Dependency::dependencies *)
RECURSIVE dependencies(_)
dependencies(e) ==
  IF e.op = "var" THEN {e.name}
  ELSE UNION {dependencies(e.rands[i]) : i \in DOMAIN e.rands}

----------------------------------------------------------------------------
(* The meaning of a term, by the operators that its diagram is built with: *)
(* n-ary ones from the left; logic operators are undefined on numbers      *)
(* other than 0 and 1, and a division by zero is.                          *)
Bit(truth) == IF truth THEN One ELSE Zero

Binary(op, a, b) ==
  CASE NoValue \in {a, b}                       -> NoValue
    [] op = "+"                                 -> Sum(a, b)
    [] op = "-"                                 -> Difference(a, b)
    [] op = "*"                                 -> Product(a, b)
    [] op = "/"                                 -> Quotient(a, b)
    [] op = ">"                                 -> Bit(Less(b, a))
    [] op = "<"                                 -> Bit(Less(a, b))
    [] op = ">="                                -> Bit(~ Less(a, b))
    [] op = "<="                                -> Bit(~ Less(b, a))
    [] op = "=="                                -> Bit(a = b)
    [] ~ ({a, b} \subseteq {Zero, One})         -> NoValue
    [] op = "&&"                                -> Bit(a = One /\ b = One)
    [] op = "||"                                -> Bit(a = One \/ b = One)

Unary(op, a) ==
  CASE op = "!"                      -> IF a \in {Zero, One} THEN Difference(One, a) ELSE NoValue
    [] op = "abs" /\ a # NoValue     -> Magnitude(a)
    [] op = "-" /\ a # NoValue       -> Difference(Zero, a)
    [] OTHER                         -> a

RECURSIVE Value(_, _)
Value(e, state) ==
  IF IsCst(e) THEN e.value
  ELSE IF e.op = "var" THEN state[e.name]
  ELSE LET values == [i \in DOMAIN e.rands |-> Value(e.rands[i], state)]
       IN  IF Len(values) = 1 THEN Unary(e.op, values[1])
           ELSE FoldLeft(LAMBDA a, b : Binary(e.op, a, b), Head(values), Tail(values))

----------------------------------------------------------------------------
(* Optimizations (interpreters/optimizations.cpp) *)

(* The constants are folded from the left, starting from the first operand *)
(* if it is one, and what they yield goes to the end of the other operands *)
(* unless it is neutral.                                                   *)
optimize_op(e, neutral) ==
  LET others    == SelectSeq(e.rands, LAMBDA sub : ~ IsCst(sub))
      constants == SelectSeq(Tail(e.rands), IsCst)
      first     == IF IsCst(Head(e.rands)) THEN Head(e.rands).value ELSE neutral
      res       == FoldLeft(LAMBDA acc, c : Binary(e.op, acc, c.value), first, constants)
      subs      == IF res = neutral THEN others ELSE Append(others, Cst(res))
  IN  IF Len(e.rands) < 2 THEN Threw
      ELSE IF others = <<>> THEN Cst(res)
      ELSE IF Len(subs) = 1 THEN subs[1]
      ELSE Term(e.op, subs)

has_zero(subs) == Cst(Zero) \in Range(subs)

(* Mutated forms of opt_add_sub_alg: with the line that is commented out   *)
(* in the code; with the neutral element of multiplication.                *)
opt_add_sub_algFoldsSubtraction(e) == IF e.op \in {"+", "-"} THEN optimize_op(e, Zero) ELSE e

opt_add_sub_algNeutralOne(e) == IF e.op = "+" THEN optimize_op(e, One) ELSE e

(* Subtraction, comparisons and abs are left as they are. *)
opt_add_sub_alg(e) == IF e.op = "+" THEN optimize_op(e, Zero) ELSE e

(* Mutated form of opt_mul_div_alg: the zeros of the operators confused.   *)
opt_mul_div_algZeroThrows(e) ==
  CASE e.op \in {"*", "/"} /\ has_zero(e.rands)     -> Threw
    [] e.op \in {"*", "/"} /\ ~ has_zero(e.rands)   -> optimize_op(e, One)
    [] OTHER                                        -> e

opt_mul_div_alg(e) ==
  CASE e.op = "*" /\ has_zero(e.rands)               -> Cst(Zero)
    [] e.op = "/" /\ has_zero(e.rands)               -> Threw
    [] e.op \in {"*", "/"} /\ ~ has_zero(e.rands)   -> optimize_op(e, One)
    [] OTHER                                        -> e

(* The second algebra sees what the first returns, so that a product or a  *)
(* division that a sum collapses to is folded once more.                   *)
optimize_alg(e) == opt_mul_div_alg(opt_add_sub_alg(e))

(* Iverson (interpreters/iverson.cpp).  && and || are those of C: any      *)
(* number but 0 is true.                                                   *)
Truth(e) == e.value # Zero

iverson_alg(e) ==
  LET number == Len(e.rands)
      folds  == \A i \in DOMAIN e.rands : IsCst(e.rands[i])
  IN  CASE e.op \in {"==", "||", "&&"} /\ number # 2 -> Threw
        [] e.op = "!" /\ number # 1                  -> Threw
        [] e.op = "==" /\ number = 2 /\ folds -> Cst(Bit(e.rands[1].value = e.rands[2].value))
        [] e.op = "||" /\ number = 2 /\ folds -> Cst(Bit(Truth(e.rands[1]) \/ Truth(e.rands[2])))
        [] e.op = "&&" /\ number = 2 /\ folds -> Cst(Bit(Truth(e.rands[1]) /\ Truth(e.rands[2])))
        [] e.op = "!" /\ number = 1 /\ folds  -> Cst(Difference(One, e.rands[1].value))
        [] OTHER                              -> e

(* Evaluate::partial_eval_alg *)
partial_eval_alg(env, e) ==
  IF e.op = "var" /\ e.name \in DOMAIN env THEN Cst(env[e.name]) ELSE e

(* Evaluate::partial_eval: the catamorphism of the three algebras. *)
RECURSIVE partial_eval(_, _)
partial_eval(env, e) ==
  LET rands == [i \in DOMAIN e.rands |-> partial_eval(env, e.rands[i])]
  IN  IF Threw \in Range(rands) THEN Threw
      ELSE optimize_alg(iverson_alg(partial_eval_alg(env, [e EXCEPT !.rands = rands])))

(* Evaluate::eval: an exception if what is left is not a constant. *)
eval(env, e) ==
  LET reduced == partial_eval(env, e)
  IN  IF IsCst(reduced) THEN reduced.value ELSE NoValue

----------------------------------------------------------------------------
NoAnswer == [asked |-> "nothing"]

ExprInit ==
  /\ terms = <<>>
  /\ size = 0
  /\ limit = SizeLimit["var"]
  /\ answer = NoAnswer

(* A new term over the last n ones, built with the given symbol. *)
Build(symbol, n, new) ==
  LET bound == IF SizeLimit[symbol] < limit THEN SizeLimit[symbol] ELSE limit
      rest  == Len(terms) - n
  IN  /\ rest >= 0
      \* as many operators are still needed as join the terms
      /\ size + 1 + (IF rest > 0 THEN 1 ELSE 0) <= bound
      /\ terms' = Append(SubSeq(terms, 1, rest), new)
      /\ size' = size + 1
      /\ limit' = bound
      /\ answer' = NoAnswer

(* Factories::cst, Factories::var, and those of the operators. *)
MakeCst(q) == Build("cst", 0, Cst(q))

MakeVar(v) == Build("var", 0, Var(v))

MakeOp(op, n) ==
  Build(op, n, Term(op, SubSeq(terms, Len(terms) - n + 1, Len(terms))))

Polynomial == terms[1]

HasPolynomial == Len(terms) = 1

(* Polynomial::evaluate *)
evaluate(env) ==
  /\ HasPolynomial
  /\ answer' = [asked |-> "evaluate", e |-> Polynomial, env |-> env,
                term |-> partial_eval(env, Polynomial), value |-> eval(env, Polynomial)]
  /\ UNCHANGED <<terms, size, limit>>

(* Polynomial::get_constant_part, which evaluates where all variables are  *)
(* 0, followed by subtract_constant.                                       *)
subtract_constant_part ==
  LET zero == [v \in dependencies(Polynomial) |-> Zero]
      part == partial_eval(zero, Polynomial)
  IN  /\ HasPolynomial
      /\ answer' = [asked |-> "subtract_constant", e |-> Polynomial, env |-> zero,
                    term |-> IF part = Threw THEN Threw ELSE Term("-", <<Polynomial, part>>)]
      /\ UNCHANGED <<terms, size, limit>>

ExprNext ==
  \/ \E q \in Constant : MakeCst(q)
  \/ \E v \in Variable : MakeVar(v)
  \/ \E op \in DOMAIN Arity : \E n \in Arity[op] : n <= Len(terms) /\ MakeOp(op, n)
  \/ \E env \in Env : evaluate(env)
  \/ subtract_constant_part

ExprSpec == ExprInit /\ [][ExprNext]_exprVars

----------------------------------------------------------------------------
(* The states in which a term is compared with what was made of it. *)
States(env) == {state \in [Variable -> Range0] : \A v \in DOMAIN env : state[v] = env[v]}

RECURSIVE Subterms(_)
Subterms(e) == {e} \cup UNION {Subterms(e.rands[i]) : i \in DOMAIN e.rands}

(* A constant among the operands of a division that has other operands, or *)
(* a zero divided: x / 2 becomes x / (1 / 2), 2 / x becomes x / 2, and     *)
(* 0 / 2 throws.                                                           *)
FoldsDivision(env, e) ==
  \E sub \in Subterms(e) :
    /\ sub.op = "/"
    /\ LET rands == [i \in DOMAIN sub.rands |-> partial_eval(env, sub.rands[i])]
       IN  \/ {IsCst(rands[i]) : i \in DOMAIN rands} = BOOLEAN
           \/ rands[1] = Cst(Zero)

(* An operator with a number of operands that it is not evaluated for.     *)
(* Diagrams are built for any number.                                      *)
WrongArity(e) ==
  \E sub \in Subterms(e) :
    LET n == Len(sub.rands)
    IN  \/ sub.op \in {"+", "*", "/"} /\ n < 2
        \/ sub.op \in {"==", "&&", "||"} /\ n # 2
        \/ sub.op = "!" /\ n # 1

(* "Evaluates the given polynomial expression regarding the passed         *)
(* environment. Partial evaluation is supported" (polynomial.h): what is   *)
(* left of a term has the value of the term wherever this has one, for     *)
(* every completion of the environment.                                    *)
KeepsValue ==
  (answer.asked = "evaluate" /\ answer.term # Threw) =>
    \A state \in States(answer.env) :
      LET value == Value(answer.e, state)
      IN  value # NoValue => Value(answer.term, state) = value

(* The same of all terms but those in which a division is folded.          *)
KeepsValueWithoutDivision ==
  (answer.asked = "evaluate" /\ ~ FoldsDivision(answer.env, answer.e)) => KeepsValue

(* Evaluation throws only if the term has no value in any completion of    *)
(* the environment.  If the environment binds all variables of the term,   *)
(* and no operator is one of those left as they are, eval has an answer.   *)
ThrowsOnlyWithoutValue ==
  (answer.asked = "evaluate" /\ ~ FoldsDivision(answer.env, answer.e) /\ ~ WrongArity(answer.e)) =>
    \A state \in States(answer.env) :
      Value(answer.e, state) # NoValue =>
        /\ answer.term # Threw
        /\ (/\ dependencies(answer.e) \subseteq DOMAIN answer.env
            /\ {sub.op : sub \in Subterms(answer.e)} \cap {"-", ">", "<", ">=", "<=", "abs"} = {})
             => answer.value = Value(answer.e, state)

(* get_constant_part "returns the constant part of an expression"          *)
(* (polynomial.h): once it is subtracted, nothing is left where all        *)
(* variables are 0.                                                        *)
ConstantPartCancels ==
  (answer.asked = "subtract_constant" /\ answer.term # Threw
     /\ ~ FoldsDivision(answer.env, answer.e)) =>
    \A state \in States(answer.env) : Value(answer.term, state) \in {Zero, NoValue}
=============================================================================
