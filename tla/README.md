# LEMON-DD in TLA+

LEMON-DD is a C++ library for edge-valued decision diagrams over monoids
(EVMDDs): a diagram represents a function from the values of some finite-domain
variables to the elements of a monoid. This directory models the library's
algorithms and the structures they share, checks them with TLC on small
instances, and proves the main results for every instance with TLAPS.

## The system

| component | source (under `src/src/`) | state it keeps | operations |
| --- | --- | --- | --- |
| node store | `evmdd/node_factory.h`, `evmdd/node.h` | `id_cache`: hash key -> node, one per factory | `make_node`, `get_terminal_node`, `size` |
| factories | `evmdd/evmdd.h`, `evmdd/abstract_factory.h` | per weight type a static map (domains, ordering) -> factory | `get_factory`, `reset`, `make_const_evmdd`, `make_var_evmdd`, `apply`, `product`, `quasi_reduce` |
| computation cache | `evmdd/evmdd_cache.h` | static map (left, right) -> result, one per combination of C++ types | `find`, `add` |
| diagrams | `evmdd/evmdd.h` | input weight and source node; immutable | `evaluate`, `evaluate_partial`, `get_min`, `get_max`, `==` |
| partial evaluation | `evmdd/node.h`, `evmdd/product_evmdd.*` | static `EvalCache`: node id -> result, emptied after each evaluation | `Node::evaluate`, `Relaxation::evaluate` |
| weights | `evmdd/monoid.h`, `evmdd/monoids/` | none | `+`, `-`, `greatest_lower_bound`, `neutral_element` |
| operators | `evmdd/operations/`, `conditional_effects.*` | none | `logic_and`, `logic_or`, `logic_not`, `absolute`, `keep_if_true` |
| expressions | `catamorph/`, `polynomial.*`, `logical_formula.*` | immutable terms | catamorphism, Iverson brackets, simplification, dependencies, diagram construction |
| variable ordering | `catamorph/interpreters/variable_ordering.*` | none | fan-in ordering of the variables of an expression |
| conditional effects | `conditional_effects.*`, `effect_parser.*` | none | union of the diagrams of the effects |
| parsers | `parser.*` | lexer position; operator and operand stacks | prefix and infix parsing |
| printers | `evmdd/printer.h`, `catamorph/printer.h` | none | dot and text output |
| program | `main.cpp` | options | reads, builds, prints |

Everything runs in one thread. What makes the library hard is shared state that
outlives the calls: nodes are shared by diagrams and found again by the hash of
their structure, results of `apply` are kept in static caches that no factory
owns, and recursion and exceptions run through the middle of all of it.

The components interact by calls only. The client asks the abstract factory for
a factory, builds constants and variables with it and combines them with
`apply`; `apply` recurses on pairs of diagrams, asks the computation cache
first, and builds its result with `create_evmdd`, which asks the node store for
the node. The expression interpreter (`create_evmdd.h`) and the conditional
effects are such clients.

What must hold, component by component:

- *node store*: one node per structure; a stored node never changes; a request
  is answered with the node that was asked for; ids are unique although they are
  derived from the table's size.
- *apply and its cache*: the result denotes the pointwise operation; the cache
  never holds a wrong entry, not after an exception and not after a reset; the
  recursion ends; diagrams are reduced and normalised, so that equality of
  functions is equality of pointers and the input is the minimum.
- *weights*: the greatest lower bound and what the monus leaves add up again.
- *quasi-reduction*: all edges span one level and the function is the same.
- *partial evaluation*: the answer is the one an exhaustive walk over the paths
  would give, and the cache of one evaluation never leaks into another.
- *parsers*: the term read is the term written.
- *expressions*: what is left of a term under a partial environment has the value
  of the term for every completion of the environment; exceptions are for terms
  that have no value.
- *variable ordering*: a permutation of the variables of the term, in which those of
  one operand stay together.
- *diagrams of expressions, conditional effects*: the diagram that a chain of calls
  of `apply` ends with is that of the term, of the effects, or of both, as written;
  an undefined operator is never passed over.

## Modules

| module | models |
| --- | --- |
| `NodeTable` | the unique table as a value: lookup by key, the id a new node gets |
| `NodeFactory` | one node store: `make_node` in its two outcomes |
| `Monoids`, `Operations` | the weights and the functors, with machine integers of `IntBits` bits |
| `EvmddApply` | factories, node stores, the computation cache, and `apply` with explicit activation records |
| `FunctionAlgebra` | the abstract specification: a store of functions, combined pointwise |
| `PartialEvaluation` | `evaluate_partial`, `Node::evaluate` with `EvalCache`, `get_max` and `Relaxation` on the diagrams of `EvmddApply` |
| `QuasiReduce` | `quasi_reduce` and `fill_layers` in the node stores of `EvmddApply` |
| `InfixGrammar` | tokens, grammar, precedences and meaning of infix expressions, as definitions about token sequences |
| `InfixParser` | class `InfixParser` with its two stacks |
| `PrefixParser` | class `Parser`, with the token that the lexer takes back |
| `Fractions`, `Expressions` | terms, simplification, Iverson brackets, evaluation, dependencies, and `Polynomial` |
| `VariableOrdering` | the fan-in ordering of the variables of a term of `Expressions` |
| `CreateEvmdd` | the construction of the diagram of a term, a client of `EvmddApply` |
| `ConditionalEffects` | effects whose conditions are terms of `CreateEvmdd`, their union, and the product with a cost |
| `MCNodeFactory`, `MCEvmddApply`, `MCPartialEvaluation`, `MCQuasiReduce`, `MCVariableOrdering`, `MCConditionalEffects` | the instances for TLC |
| `NodeFactory_proofs`, `EvmddApply_proofs`, `Refinement_proofs`, `QuasiReduce_proofs`, `PartialEvaluation_proofs`, `InfixParser_proofs`, `PrefixParser_proofs` | the theorems |
| `ParserLemmas` | facts about stacks, inductions and completed beginnings of inputs that the proofs about the parsers share |

### NodeFactory

`id_cache` is the code's map; the address of a node is its id. `MakeNewNode` is
`make_node` when the key is absent, `FindNode` when it is present. The hash
function is the constant `Hash`; the theorems about uniqueness assume that it is
injective (`HashIsInjective`), and the instance for TLC is; with a hash that is
not, `make_node` returns a node of another structure, because it compares
nothing but keys. The probe `if (id_cache[key])` inserts a null entry under the
key, so the id, `size()`, is one larger than the number of nodes: `NextId`.

### EvmddApply

| variable | code |
| --- | --- |
| `factories`, `id_cache` | every `EvmddFactory` constructed, and its `NodeFactory` |
| `registry` | `AbstractFactory::cache` |
| `heap` | the nodes; shared pointers keep them alive after their factory is gone |
| `evmdd_cache` | all instances of `EvmddCache`, told apart by `OpType` |
| `stack`, `call` | the C++ stack of the running `apply` |
| `held` | the diagrams in the client's hands |
| `outcome`, `calls` | history variables the properties look at |

One activation of `apply` is a record with its operands, the results of the
recursive calls made so far and a program counter. Its actions are the terminal
case (and the operator's exception), the cache hit, the cache miss, the
recursive call, and the combination of the children, which creates the node,
adds the result to the cache and returns. A client that resets factories, keeps
diagrams of deleted ones, and mixes factories of different weights is part of
the model. `product` is `apply` with `make_pair`. The monoids and operators are
parameters: the model is that of the templates, and `MCEvmddApply` instantiates it.

`FunctionAlgebra` knows nothing of nodes, caches or levels: a client holds
functions, starts an operation on two of them, and the operation ends with the
pointwise result or, if the operator is undefined somewhere, with an exception.
`EvmddApply` implements it under the mapping that takes a diagram to the function
it evaluates to (`ImplementsFunctions`).

### PartialEvaluation

Extends `EvmddApply`: between two calls of `apply` the client evaluates a diagram
it holds under a partial state. `eval_stack` holds the activation records of
`Node::evaluate`, `eval_cache` is the static `EvalCache`, which finds nodes by
their id alone and is emptied in `EvalReturn` when `evaluate_partial` returns.
The two evaluation functions of the code are "max" (`get_max`) and
"Relaxation"; `RelaxationIsCheapest` and `MaxIsGreatest` compare their answers
with the values of the diagram on all states that the partial state allows.
`FactsOccurOnce` is the assertion in `EvaluationType::operator+=`: it is about
every diagram that `apply` and `product` build, not only about those evaluated.

### QuasiReduce

Extends `EvmddApply`: `reduce_stack` is the recursion over the nodes,
`processed` the local table of the call, `rising` the node that `fill_layers` is
raising to the level below its new parent. All nodes go to the store in which
`apply` and later reductions find them, so the run includes reductions of what `apply`
makes of quasi-reduced operands, and shows that quasi-reducing twice returns the very
same diagram.

### Expressions and VariableOrdering

A term is a record of an operator and its operands. The client builds terms
bottom-up (`MakeCst`, `MakeVar`, `MakeOp`, with every number of operands that one
of the parsers yields) and asks for the value of the term it has (`evaluate`,
under an environment that may leave variables open) or for the term without its
constant part (`subtract_constant_part`). A catamorphism has no state and is a
recursive operator; `Threw` stands for an exception on its way to the caller.
The properties compare the result with `Value`, which gives a term the meaning
that the operators of `create_evmdd.h` have, in every completion of the
environment. Constants are exact fractions, so that a difference is one of the
algorithm and never of rounding.

`VariableOrdering` turns the term into the tree of `ASTNode`s and runs the loop of
`get_fan_in_ordering`, one turn per step. `std::sort` is not stable: `ASTNode`
is the set of all trees that it may yield.

### CreateEvmdd and ConditionalEffects

`CreateEvmdd` extends `EvmddApply`: a leaf calls `MakeConst` or `MakeVar`, an
operator starts a fold (`folding`) over the diagrams of its operands, whose calls
of `apply` run step by step, and whose result becomes an operand in its turn. A
catamorphism visits a term bottom-up, so which leaf or operator comes next is left
open and the behaviours are those on all terms of `MaxSymbols` symbols. Beside
each diagram stands the function that its part of the term means.

`ConditionalEffects` adds what `main` and the tests do with it: an optional cost,
a list of effects with a condition each, `keep_if_true` on condition and effect,
the union of all effects, and the product with the cost, with a factory
of its own for each of the three weights; without effects, `main` leaves the cost alone (`CostAlone`), while
`ConditionalEffects::create_evmdd` makes a constant (`NoEffects`). The cost is an `int`, as in
`product_tests.cpp`; `main` instantiates the same templates with `double`, whose rounding is not modelled. An exception abandons everything; the client may
start again, with the nodes and cache entries that remain.

### InfixGrammar, InfixParser and PrefixParser

`InfixGrammar` says which sequences of tokens are expressions
(`IsExpression`, the grammar in the comment of the class) and which term one
stands for (`Meaning`: cut at the operator of the lowest precedence), without
any idea of a parser. `InfixParser` is the code: `parse`, `E`, `P`, `LogicEXP`
and `LP` call each other through explicit activation records and share the stacks
`operators` and `operands`, which survive the call, also one that threw.
`PrefixParser` is the recursive descent of class `Parser`; `lookAhead` is a
token read and taken back with `revert`. It is compared with `Readings`: the terms that the grammar
in the comment of the class (`parser.h:64-73`) gives a sequence of tokens, of which there could be none or
several. Division and signed operands are those of the comment, not of the code. `{expression}` is
read as one or more, as `{digit}` has to be and as the tests ask, which reject `()` and `(* +)`. Three things that
the code accepts and the comment leaves out are allowed by `Readings`, too: comparisons, square
brackets, and an operator without parentheses of its own (`(+ * 2 3)`).

Neither model fixes its input: whenever the parser asks the lexer for a token,
any token may come (`Following`), so one run covers every input up to the bound
and never spends a state on what the parser does not read. Variables and
constants are told apart by their position. A substring that is no token is the
token `INVALID`, at which the lexer throws. `top()` of an empty stack is
undefined in C++; the model goes to the status `undefined` and stops there.

The code's precedences are those of `op_precedence`, one per operator, with
equal operators to the right: `a - b - c` is read as `a - (b - c)` and
`a - b + c` as `a - (b + c)`. No document says otherwise, so `Meaning` takes the
table at its word and this is not a finding. The comment's rule for `LogicEXP`
has a star (several brackets in a row) that no test uses; `Derives` reads
it as one pair of brackets.

## Runs

| run | what it shows |
| --- | --- |
| `node_factory` | uniqueness, persistence and right answers of the node store |
| `apply_numbers` | integers, with an operator that may throw in the middle: correctness, canonicity, normalisation, ownership, descent, memory and termination of `apply`, and the refinement of `FunctionAlgebra` |
| `apply_reset` | factories are reset while diagrams and cache entries live on, and two keys give two factories for one ordering: `apply` still implements `FunctionAlgebra` |
| `evaluate` | `get_max` and `Relaxation` between and after calls of `apply`, under partial states: right, each node once, ending; no fact twice on a path |
| `evaluate_across_reset` | finding: ids of two factories meet in one diagram and in `EvalCache` |
| `quasi_reduce` | right levels, the same function, idempotent, each node once, ending |
| `expressions` | evaluation keeps values where no division is folded, throws only for terms without a value, the constant part cancels; the fan-in ordering is complete and keeps operands together |
| `partial_division` | finding: partial evaluation turns `1 / x` into `x` |
| `conditional_effects` | from terms to the product of effects and cost: the diagrams are those of what was written, construction fails exactly where an operator is undefined, also after a failure, and ends |
| `infix_parser` | every input of seven tokens, and a second parse on a parser whose stacks hold the remains of the first: the term is the one written, only expressions are accepted, only errors rejected, ending |
| `infix_empty_stack` | finding: `-abs(x)` takes an operand from an empty stack |
| `prefix_parser` | every input of six tokens: the one term that the grammar gives, unless operands follow a signed one; only errors rejected, and divisions; ending |

Bounds. Two variables with two values each are the smallest diagrams in which
both operands can lie on the same level, on different levels in either
direction, skip a level, and share nodes; two or three calls are what is needed
for a result to be an operand, for a cache entry to be found again and for a
call to follow one that threw. Integers of three bits overflow in these
calls. Two factories suffice to see one survive the other's reset, or to have one
for each of two keys. `MaxNodes`
in `node_factory` lets four nodes be stored, so that the third is built on top of
the others and can collide with each.

`evaluate` uses three partial states: none, one that lists the values of a
variable in reverse order, so that position and value differ, and one that
fixes the other variable, too. Its integers of five bits hold every sum of the run: where sums
wrap around, the greatest sum is not found by adding to the greatest child, and
`get_max` is about integers that do not. `quasi_reduce` has three variables of which the client
uses the outer two: layers have to be filled below, between and above the nodes,
and the middle variable has a single value. Seven tokens
(`infix_parser`) are four operands with three operators, so that an
operator on the stack meets one of lower and one of higher precedence, or two
nested pairs of brackets with an operator inside or outside; all thirteen
operators take part. Reuse of a parser is about what is left on the stacks: five
tokens for two calls together (`MaxReuse`) leave every kind of it in the first,
operators, operands and a sentinel, and still give the second an operator to apply. Six
tokens (`prefix_parser`, to which `parse` adds a pair of parentheses) hold two
operators and the brackets around the inner one.

`expressions` builds all terms over three variables and three constants (`SmallNumbers`) whose size
is at most `SizeLimit` for each of their symbols: sums of variables have up to seven
symbols, enough for operands of different depths that share variables and for siblings that
the sort may swap; terms with products, quotients, differences or constants have five, so that one
folded operator is the operand of another; comparisons and logic operators, which
fold in one way only, have four. Environments bind no variable, one, two or all, to
values that include 0 and 1, the neutral elements and the truth values.

In `conditional_effects` the variables have two and three values. Five symbols
(`MaxSymbols`) are a cost and two conditions, one of them a comparison, or a
difference of three operands, or a failure on one condition and a second
attempt. Of the operators one is not commutative, one may throw, one is unary and one compares;
the constant 2 makes the logic operators throw. `MaxHeld` and `MaxCalls` are out of reach
here.

Fairness. `apply` is a function in a single thread: once called it runs on, so
its steps are weakly fair (`WF_vars(Step)`); the same holds for the steps of an
evaluation, of a quasi-reduction, of a parser, and of the construction of a diagram
between two operators of the term (`Continue`). The lexer always has an
answer, for it repeats `END`. The client is under no obligation:
it may stop at any time, which is why deadlock is not checked for these runs.

Undefined behaviour. Signed overflow is undefined in C++; builds of the library
wrap around, and `Wrap` does the same. Levels and ids are small in any run of
the library and do not overflow.

Findings. The crash of the parser, the wrong maximum after a reset and the quotients
that change under partial evaluation were reproduced with the library itself. In `EvmddApply` the same reset lets a
factory answer with nodes that it does not store, although "each
domain/ordering pair has exactly one factory which generates and stores all evmdds
for this pair" (`abstract_factory.h:18-20`); this is the cause of the wrong maximum.
The minus that is applied too early makes `1 + -abs(x)` the term
`(0 - 1) + abs(x)`, which is why `ReadsAsWritten` leaves out inputs with a minus
before `abs`. `KeepsValueWithoutDivision` leaves out terms in which constants and other
operands of a division meet, or a zero is divided (`FoldsDivision`).

Differences between code and comments that reading shows and no run repeats:

- `make_var_evmdd` does not pull the minimum out of a variable's values, so
  `get_min` (`evmdd.h:106`) is 0 for a variable with values 1 and 2;
- the neutral element of the numbers is not their greatest lower bound
  (`monoid.h:13-15`), for weights may be negative; the models need `MonoidAssumption` only;
- the prefix parser has no division, though `/` is an `op` in the grammar of its comment
  (`parser.h:67`): `(/ a b)` throws. `ThrowsOnlyErrors` leaves out inputs with a division
  (`HasDivision`) and is violated without this exception;
- by that grammar a sign may belong to the number or variable behind it (`parser.h:69-71`),
  but the prefix parser takes every sign for an operator with all operands up to the
  parenthesis, so that `+ -5 x` is `(+ (- 5 x))` and not the sum of `-5` and `x`. `ReadsPrefix` leaves out
  inputs with a sign in front of an operand that others follow (`SignBeforeMore`) and is violated without
  this exception; where none follow, both readings are the same term;
- a sign in a prefix expression is an operator with one operand, which
  `create_evmdd.h:93-95` applies to the operand twice, so that the diagram of `(- x)`
  is that of `x - x`; `TermAssumption` leaves such terms out;
- the computation cache is selected by the type of an operator (`evmdd.h:208-212`), so
  that function pointers of one signature share results: `apply(l, r, &minus)` after
  `apply(l, r, &plus)` returns the sum. The functors of the library have a type
  each; the mutant of `ReturnsPointwise` has this cache key;
- the heuristic ordering in `main.cpp:105-108` knows the variables of the cost only,
  while the effects are built with it, too; the models have one ordering of
  all variables;
- the prefix parser ignores what follows the parenthesis that closes the
  expression: `a) b` is read as `a`.

## Theorems

`NodeFactory_proofs` proves type correctness and persistence of nodes for every
hash function, and uniqueness and right answers for injective ones.
Type correctness alone is not inductive: that fresh ids are fresh needs the
invariant that every id in use is at most the number of entries, which the
theorem about persistence rests on.

`EvmddApply_proofs` proves, for all monoids, operators, domains, numbers of
factories, diagrams and calls, that `apply` is correct (`ApplyIsPointwise`), that its
cache always is (`CacheIsSound`), and that the recursion descends
(`ApplyDescends`). Assumed are the named assumptions on the constants (among
them `MonoidAssumption`: the greatest lower bound of some weights, added to what
the monus leaves of each, restores it), `HashIsInjective`, and that operators of
one type are the same operator (`OpTypesDistinct`: the code tells operators apart by
their type). The inductive `Invariant` adds to the types that every table entry leads to the
node with the key's structure, that every cached result denotes the operation on
its key, and that on the stack every activation's operands are the children of
its caller's and every collected result denotes the operation on the children it
belongs to. That a value never changes once it is computed, because nodes only
are added to the heap (`HeapGrows`), is what makes it stable.

`Refinement_proofs` proves that no cache entry is ever overwritten (`NothingIsForgotten`). This
needs that no two activations that wait have the same operands, which follows
from the strict descent of levels along the whole stack (`MemoInv`).

It proves that `EvmddApply` implements `FunctionAlgebra`
(`DiagramsImplementFunctions`). It needs the law `NeutralAssumption`, that the neutral
element adds nothing, for the diagrams of variables, and two more invariants.
`ValuesDetermined`: the recursion of `evaluate` has one solution at most, and a
diagram depends on no variable above its source node; so nodes that are added
change the function of no diagram. `StackReaches`: whatever pair of values the operands of
an activation have in some state, the operands of the client's call have in
some state, because the variables above a sub-diagram can be set to reach it; so
an operator that throws in the recursion was undefined for the call as a whole.

It proves, where every kind of weight has one factory, which is
never reset (`OneFactory`), that results are in the store of their factory
(`OneFactoryOwnsResults`) and that results of one function are one diagram
(`ResultsAreCanonical`). Every node is where its table finds it (`NodesStored`), so two
nodes with the same level and edges are one. The terminals, the cached results
and what is collected on the stack belong to a set of diagrams that are reduced
and normalised and whose children are in the set (`Closed`). Such a set stays canonical when diagrams
made by `create_evmdd` from its members are added (`Extends`): two of one level have
equal children, hence equal weights and edges; one whose source is higher depends on its variable. Diagrams
of variables are not in the set, and nothing is claimed of them.

It proves that `get_min` is right: the input of a result is the greatest lower bound of its values
on all states (`InputsAreMinimal`), across resets and for any number of factories. The hypothesis `GlbIsMeet` says
that the greatest lower bound of two weights is commutative, associative and idempotent, which
makes it one for the order "`a` is the greatest lower bound of `a` and `b`". The invariant
(`MinimumInv`) says it of every result, in a cache or on the stack: `create_evmdd` pulls out the greatest lower bound
of the children's inputs, each the greatest lower bound of the child's values, and the greatest lower bounds of
some sets have that of their union (`GlbOfUnion`). The union is that of the new diagram's values, because a
child does not depend on the variable that is branched on. That the folds over children and over values compute the greatest lower
bound is an induction over the subsets of a finite set (`SubsetInduction`).

`QuasiReduce_proofs` proves that `quasi_reduce` keeps the discipline of its recursion
(`ReductionIsTypeCorrect`) and returns a quasi-reduced diagram of the same function
(`QuasiReductionIsCorrect`). Both speak of all nodes below a source node, but neither is
proved by an induction over levels: that one node stands for another
(`StandsFor`: it is quasi-reduced and has the other's value for every input) is kept as
nodes are made, for a node stands for another if its edges carry the same weights to
children that stand for the other's (`ParentStands`), and still does with a filler node on top
(`FillerStands`). The latter needs `RightNeutralAssumption`, the law of `monoid.h` that adding the
neutral element on the right changes nothing: it is what the edges of filler nodes
carry. `SpansOneLevel` is recursive like `Value`, and that its recursion is well
founded is kept as nodes are added (`SpanExists`). Levels descend along the stack, so
the node that has just been processed is none of those that wait.

It proves, where every kind of weight has one factory, that
quasi-reducing a quasi-reduced diagram returns it (`QuasiReductionIsIdempotent`).
The invariant says that what stands for a node whose edges span one level each is this
node: in the table of processed nodes, among the edges that an activation has collected,
among the nodes whose layers are being filled, and in the result (`Kept`). Then
make_node is asked for the level and the edges of a node that exists, and, as every node
is where its table finds it (`NodesStored`), returns it. With a second factory of the same kind it
may not be: the diagram may have been made by the other one.

`PartialEvaluation_proofs` proves the discipline of the recursion of `Node::evaluate`
(`EvaluationTyped`) and that `get_max` and `Relaxation` return what their comments
say (`MaxComputed`, `RelaxationComputed`). A result is right for a set of values if it is the
greatest of them, or has the least cost of everything and of each fact in them. Three facts
make the answer right: adding the weight of an edge to a right result makes it right
for the values with this weight added (`AddReturned`), the results of the edges together make it right for the
union of their values (`NodeReturned`), and that union is the set of values the node itself
has on the allowed states (`NodeUnitesEdges`), because the value below an edge does not depend
on the variable that is branched on. The invariant (`EvalInv`) says that every cached and every collected
result is right for its node or edge, that every activation works on the child its caller
needs next, and that levels descend along the stack, so that what is combined last was not
cached meanwhile. The hypotheses are needed:

- `OneFactory`, every kind of weight has one factory, which is never reset. `EvalCache`
  finds nodes by their id alone, and with two factories two nodes of one id can be met
  in one evaluation, which is the finding of the run `evaluate_across_reset`.
- `NoOverflow`, no addition along a path wraps around. Where one does, the greatest of some sums
  is not the sum of the greatest. It is a hypothesis on the state of the client's diagrams, not on the
  constants; every theorem has the form "always, if no addition wraps around, the answer is right".
- `EvalMonoidAssumption` and `EvalFunAssumption`: the weights are the integers and the pairs of
  `Monoids`; `PowerAssumption` tells the provers that powers of two are positive and double.

It also proves that no fact occurs twice on a path (`FactsOccurOnceOnPaths`), the
assertion in `EvaluationType::operator+=`, across resets and with any number of factories. The
invariant (`FactsInv`) says of every node, of every diagram held, cached or collected on the
stack, that its input has no fact in common with the facts below its source. `FactsBelow`
is recursive; that its recursion has a solution is kept as nodes are added
(`SomeContinuation`), and that it has one only follows level by level (`FactsAreUnique`). A
result of `create_evmdd` has the property because its input is what all children have in
common, and what the monus leaves of a child has none of it (`CreatedFacts`).

`LibraryWeightsSuffice` shows that the laws which the theorems assume of a monoid (`MonoidAssumption`,
`NeutralAssumption`, `RightNeutralAssumption`, `GlbIsMeet`) hold of the weights in `Monoids`, for machine
integers of every width and for every set of facts. None of them needs the neutral element to be the bottom, which
`monoid.h` asks for: what is subtracted from a machine integer is restored when it is added again, even
if the difference wraps around.

`InfixParser_proofs` proves the discipline of the two stacks of the infix parser, on a parser
that may be used again after it threw (`ParserTypeCorrect`). Every activation that waits for a bracket, and
`parse` itself, holds a sentinel on the stack of operators; sentinels are counted, since
those that a failed call has left may be among them. No loop of pops goes past
a sentinel, because nothing has a lower precedence. Operands are counted, too: there is one for every binary
operator on the stack, over all calls, and one more where an operand has just been
read. What is left are operators that are popped before their operand has been read, in `P` and
`LP`: there the top is a sentinel, an operator or a sign that was pushed immediately before, and
only a minus in front of `abs` gives way. Hence the theorem `UnderflowsOnlyForMinus`: the
operand stack is read while it is empty only if the input has a unary minus before `abs`. The run
`infix_empty_stack` shows that it happens; the theorem that it happens in no other way.

It proves, too, that the parser reads and rejects as the grammar and the precedences say, on inputs of every length
and on parsers that are used again: what it returns a term for is an expression, the term is the one that the
expression stands for unless a unary minus stands in front of `abs`
(`ExpressionsReadAsWritten`), and it throws only where no expression begins with what it has
read, or the input ends and is none (`OnlyErrorsRejected`).

The grammar comes first. `Derives` is a recursive function over pairs of a nonterminal
and a span; that its equation has a solution is an induction over a rank in which `P` at a span
is above `LogicEXP` at this span and below all longer spans (`DerivationsExist`). The grammar is unambiguous as far
as the parser needs it (`Unambiguous`): a part has one end, and of two sequences of parts
with one beginning the longer goes on with an operator where the shorter ends. The
invariant (`GrammarInv`) is about all inputs that begin with what is read. Each activation was called to
read a phrase from some token on (`Waits`, `Reads`), what it has consumed is a phrase, or the opening of one, and
if the whole input is an expression, the phrase it was called for begins there, and an operator
that it has read is followed by another part. Nothing is said about the two stacks of operators and operands: which
terms are built does not matter to which tokens are accepted.

The term comes second (`TermInv`), and is about the stacks only. `TermOf` gives the term of a span from those of shorter spans,
so its equation has a solution, too (`TermsExist`), and a phrase is a span that closes every bracket it opens
and ends where an operand ends (`Flat`). Each operator on the stack is given a place (`Place`): the
position of its token, or of the bracket that a sentinel stands for, the number of operands when it was pushed,
and the number of sentinels of this call. `Above` says what may stand between two places
that follow each other: nothing where the upper one is a bracket or a sign; where it is a binary operator, one
phrase, whose term is on the stack of operands, and whose operators have a higher precedence than the one behind it.
The operand of the operator on top is a phrase without operators of a lower precedence, and where an operator is about to be
pushed without one of the same (`Placed`, `Complete`). An operator that is popped is thus the leftmost
of the lowest precedence in the span from the end of the place below, which is where `Meaning` cuts
(`BinaryPhrase`, `BinaryComplete`). What earlier calls have left is below the sentinel of `parse` and never reached: that
the sentinel on top when `parse` returns is its own follows from counting the sentinels of this call,
which are as many as activations that hold one. The one case that is left out is a unary operator that is popped before its
operand has been read, which `PopsBeforeOperand` shows to be a minus in front of `abs`.

`PrefixParser_proofs` proves the discipline of the recursive descent (`PrefixTypeCorrect`), and that the
brackets in what it accepts balance (`AcceptedBracketsBalance`), although its lexer takes tokens back. A token is consumed if
it has been read and is not taken back; of the tokens consumed, opening brackets of a kind are
as many as closing ones and activations that wait for one (`Balanced`). The outermost activation
waits for the parenthesis that `parse` adds, so nothing returns to the client with a token taken back.

It proves, too, that the parser is right on inputs of every length and every set of operators, apart from
the two exceptions above: it
returns the one term that the grammar gives what it has read (`PrefixIsRead`), and it throws only where no
expression begins with what it has read (`OnlyErrorsThrow`). `Readings` is a recursive function; that its
equation has a solution is an induction over the length of a span (`ReadingsExist`), and everything else
uses the equation only. The invariant is about the grammar that the code follows (`TakenFrom`: every sign an operator,
no division). Where neither exception applies, the two grammars have the same equation (`GrammarAgrees`);
what the code accepts has no division (`ReadingsHaveKnownOperators`); and whatever the grammar
of the comment derives without a division the code's grammar derives, signed operands included, if with
another term (`TakenTermsStep`), so no exception for signs is needed for `OnlyErrorsThrow`. `Unambiguous` is the fact about the grammar: a term that begins at a token
has one end and one reading, and of two sequences of terms with one beginning the shorter is followed by a term.
The invariant (`ReadInv`) is about all token sequences that extend what is
read, since a call that is going on cannot know what follows. Each activation has
consumed a part of the tokens, next to that of its caller, which reads as its operands; and if
a whole sequence is a term, a term begins at each part (`Covers`). A call that throws
contradicts the latter (`OperandFollows` for `parseOpExpression`, which has to know that more operands follow
or the parenthesis), and a call that returns has found a term by the rules of the grammar.

Only model-checked: everything about expressions and orderings, whose definitions are
recursive operators; the composition in `ConditionalEffects`, for the same reason; and the liveness
properties (`CallEnds`, `EvaluationEnds`, `ReductionEnds`, `ParsingEnds`, `PrefixParsingEnds`,
`BuildingEnds`), which are out of the prover's reach: TLAPS has no rule for liveness under
fairness here.

## Not modelled

- Rounding: `float` and `double` weights, and the `float` constants of terms.
- The effect parser: it cuts strings by position (an effect without an arrow is
  cut at its second character), keeps no state, and hands the parts to the infix parser.
- The regular expressions of the lexer and `stod`; output formatting (the
  printers, `Formula`, which only parses and prints, and the reading and writing of the programs);
  signal handlers; benchmarks and scripts.
- Vendored code: `boost_dependencies` and Catch make up nearly all lines of the
  repository. The library itself is small, and what is mapped is most of it.
- Diagrams of different variable orderings in one call: the code does not check
  for them, and a common ordering is a precondition of the models.

## Plan

Nothing of the plan is left to be proved. What the model checker alone shows are the properties of the
modules with recursive operators (`Expressions`, `VariableOrdering`, `ConditionalEffects`), and liveness,
for the reasons given under "Only model-checked". The next things worth modelling are the hazards that
have no property yet: the rounding of float and double weights, and the splitting of an effect without an
arrow in `effect_parser.cpp`.
