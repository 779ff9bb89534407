------------------------- MODULE PartialEvaluation -------------------------
(***************************************************************************)
(* Evmdd::evaluate_partial (evmdd/evmdd.h) and Node::evaluate              *)
(* (evmdd/node.h) for the diagrams that EvmddApply builds.                 *)
(*                                                                         *)
(* The client evaluates a diagram it holds under a partial state, which    *)
(* allows a list of values for some of the variables and all values for    *)
(* the others.  What a node makes of the results of its children is the    *)
(* business of an evaluation function; the code has two, that of           *)
(* Evmdd::get_max, "max" here, and that of Relaxation::evaluate            *)
(* (evmdd/product_evmdd.cpp).  Results of nodes are kept in the static     *)
(* EvalCache, which is emptied after the evaluation; it finds nodes by     *)
(* their id alone.                                                         *)
(*                                                                         *)
(* As in EvmddApply, the activation records of the recursion are explicit. *)
(***************************************************************************)
EXTENDS EvmddApply, Operations

CONSTANTS
  EvalFun,      \* the evaluation functions used, from {"max", "Relaxation"}
  PartialState  \* functions from some of the levels to sequences of values

ASSUME PartialStateAssumption ==
  \A state \in PartialState :
    /\ DOMAIN state \subseteq Level
    /\ \A v \in DOMAIN state : state[v] \in Seq(1 .. DomainSize[v]) /\ state[v] # <<>>

ASSUME EvalFunAssumption == EvalFun \subseteq {"max", "Relaxation"}

(* The evaluation functions are for weights of Monoids. *)
ASSUME EvalMonoidAssumption ==
  \A kind \in Kind \cap {"int", "pair"} :
    /\ Carrier(kind) = MonoidCarrier(kind)
    /\ Neutral(kind) = NeutralElement(kind)
    /\ \A a, b \in Carrier(kind) : /\ Plus(kind, a, b) = MonoidPlus(kind, a, b)
                                   /\ Monus(kind, a, b) = MonoidMonus(kind, a, b)

VARIABLES
  eval_cache,   \* EvalCache: id of a node -> result
  eval_stack,   \* activation records of Node::evaluate, the outermost first
  eval_call,    \* the running call of evaluate_partial
  answer        \* history: the last call of evaluate_partial and what it returned

evalVars == <<eval_cache, eval_stack, eval_call, answer>>

----------------------------------------------------------------------------
(* The evaluation functions.  FunKind is the kind of diagrams they are     *)
(* for, ResZero the result Res() of a terminal node, ResPlus operator+= of *)
(* a result and a weight, FunApply the function.                           *)
FunKind(fun) == IF fun = "max" THEN "int" ELSE "pair"

(* EvaluationType: the cheapest cost of every fact, and of everything. *)
NoFacts == [cheapest_facts |-> Empty, cheapest_cost |-> 0]

(* A mutated form of EvaluationPlus. *)
EvaluationPlusNewOnly(res, weight) ==
  LET cost == IntPlus(res.cheapest_cost, weight[2])
  IN  [cheapest_facts |->
         [fact \in DOMAIN res.cheapest_facts \cup weight[1] |->
            IF fact \in weight[1] THEN cost ELSE res.cheapest_facts[fact]],
       cheapest_cost |-> cost]

EvaluationPlus(res, weight) ==
  LET cost == IntPlus(res.cheapest_cost, weight[2])
  IN  [cheapest_facts |->
         [fact \in DOMAIN res.cheapest_facts \cup weight[1] |->
            IF fact \in weight[1] THEN cost
            ELSE IntPlus(res.cheapest_facts[fact], weight[2])],
       cheapest_cost |-> cost]

Least(costs) == CHOOSE c \in costs : \A d \in costs : c <= d

Greatest(costs) == CHOOSE c \in costs : \A d \in costs : d <= c

CheapestOf(child_results) ==
  LET with(fact) == {i \in DOMAIN child_results :
                       fact \in DOMAIN child_results[i].cheapest_facts}
      facts == UNION {DOMAIN child_results[i].cheapest_facts : i \in DOMAIN child_results}
  IN  [cheapest_facts |->
         [fact \in facts |->
            Least({child_results[i].cheapest_facts[fact] : i \in with(fact)})],
       cheapest_cost |->
         Least({IntMax} \cup {child_results[i].cheapest_cost : i \in DOMAIN child_results})]

ResZero(fun) == IF fun = "max" THEN NeutralElement("int") ELSE NoFacts

ResPlus(fun, res, weight) ==
  IF fun = "max" THEN IntPlus(res, weight) ELSE EvaluationPlus(res, weight)

FunApply(fun, child_results) ==
  IF fun = "max"
  THEN Greatest({child_results[i] : i \in DOMAIN child_results})
  ELSE CheapestOf(child_results)

----------------------------------------------------------------------------
NotEvaluating == eval_stack = <<>>
NoEvaluation  == [fun |-> "none"]

EvalInit ==
  /\ Init
  /\ eval_cache = Empty
  /\ eval_stack = <<>>
  /\ eval_call = NoEvaluation
  /\ answer = NoEvaluation

EvalTop == eval_stack[Len(eval_stack)]

EvalFrame(p) == [node |-> p, pc |-> "enter", child_results |-> <<>>]

(* The domain values a node is evaluated for, in the order of the code. *)
Values(state, v) ==
  IF v \in DOMAIN state THEN state[v] ELSE [i \in 1 .. DomainSize[v] |-> i]

TopValues == Values(eval_call.state, heap[EvalTop.node].level)

(* The client calls e.evaluate_partial(state, fun). *)
EvaluatePartial(fun, e, state) ==
  /\ Idle /\ NotEvaluating
  /\ e.src.kind = FunKind(fun)
  /\ eval_call' = [fun |-> fun, e |-> e, state |-> state]
  /\ eval_stack' = <<EvalFrame(e.src)>>
  /\ answer' = NoEvaluation
  /\ UNCHANGED <<vars, eval_cache>>

(* Mutated forms of the steps of an evaluation. *)
EvalReturnUncleared(res, cache) ==
  \/ LET n       == Len(eval_stack) - 1
         caller  == eval_stack[n]
         d_val   == Values(eval_call.state, heap[caller.node].level)
                      [Len(caller.child_results) + 1]
         child   == heap[caller.node].children[d_val]
     IN  /\ n > 0
         /\ eval_stack' =
              [SubSeq(eval_stack, 1, n) EXCEPT ![n].child_results =
                 Append(@, ResPlus(eval_call.fun, res, child.w))]
         /\ eval_cache' = cache
         /\ UNCHANGED <<eval_call, answer>>
  \/ /\ Len(eval_stack) = 1
     /\ eval_stack' = <<>>
     /\ eval_cache' = cache
     /\ eval_call' = NoEvaluation
     /\ answer' = [fun |-> eval_call.fun, e |-> eval_call.e, state |-> eval_call.state,
                   value |-> ResPlus(eval_call.fun, res, eval_call.e.input)]

EvalRecurseByPosition ==
  LET i == Len(EvalTop.child_results) + 1
  IN  /\ ~ NotEvaluating /\ EvalTop.pc = "children"
      /\ i <= Len(TopValues)
      /\ eval_stack' = Append(eval_stack, EvalFrame(heap[EvalTop.node].children[i].to))
      /\ UNCHANGED <<vars, eval_cache, eval_call, answer>>

EvalRecurseSkipsLast ==
  LET i == Len(EvalTop.child_results) + 1
  IN  /\ ~ NotEvaluating /\ EvalTop.pc = "children"
      /\ i < Len(TopValues)
      /\ eval_stack' = Append(eval_stack,
                              EvalFrame(heap[EvalTop.node].children[TopValues[i]].to))
      /\ UNCHANGED <<vars, eval_cache, eval_call, answer>>

(* The innermost activation returns res: to its caller, which adds the     *)
(* weight of the edge, or to evaluate_partial, which empties the cache and *)
(* adds the input.                                                         *)
EvalReturn(res, cache) ==
  \/ LET n       == Len(eval_stack) - 1
         caller  == eval_stack[n]
         d_val   == Values(eval_call.state, heap[caller.node].level)
                      [Len(caller.child_results) + 1]
         child   == heap[caller.node].children[d_val]
     IN  /\ n > 0
         /\ eval_stack' =
              [SubSeq(eval_stack, 1, n) EXCEPT ![n].child_results =
                 Append(@, ResPlus(eval_call.fun, res, child.w))]
         /\ eval_cache' = cache
         /\ UNCHANGED <<eval_call, answer>>
  \/ /\ Len(eval_stack) = 1
     /\ eval_stack' = <<>>
     /\ eval_cache' = Empty
     /\ eval_call' = NoEvaluation
     /\ answer' = [fun |-> eval_call.fun, e |-> eval_call.e, state |-> eval_call.state,
                   value |-> ResPlus(eval_call.fun, res, eval_call.e.input)]

(* A terminal node yields the neutral result. *)
EvalTerminal ==
  /\ ~ NotEvaluating /\ EvalTop.pc = "enter"
  /\ IsTerminal(EvalTop.node)
  /\ EvalReturn(ResZero(eval_call.fun), eval_cache)
  /\ UNCHANGED vars

EvalHit ==
  /\ ~ NotEvaluating /\ EvalTop.pc = "enter"
  /\ ~ IsTerminal(EvalTop.node)
  /\ EvalTop.node.id \in DOMAIN eval_cache
  /\ EvalReturn(eval_cache[EvalTop.node.id], eval_cache)
  /\ UNCHANGED vars

EvalMiss ==
  /\ ~ NotEvaluating /\ EvalTop.pc = "enter"
  /\ ~ IsTerminal(EvalTop.node)
  /\ EvalTop.node.id \notin DOMAIN eval_cache
  /\ eval_stack' = [eval_stack EXCEPT ![Len(eval_stack)].pc = "children"]
  /\ UNCHANGED <<vars, eval_cache, eval_call, answer>>

(* The recursive call for the next domain value. *)
EvalRecurse ==
  LET i == Len(EvalTop.child_results) + 1
  IN  /\ ~ NotEvaluating /\ EvalTop.pc = "children"
      /\ i <= Len(TopValues)
      /\ eval_stack' = Append(eval_stack,
                              EvalFrame(heap[EvalTop.node].children[TopValues[i]].to))
      /\ UNCHANGED <<vars, eval_cache, eval_call, answer>>

(* func(child_results) and EvalCache::add. *)
EvalCombine ==
  LET res == FunApply(eval_call.fun, EvalTop.child_results)
  IN  /\ ~ NotEvaluating /\ EvalTop.pc = "children"
      /\ Len(EvalTop.child_results) = Len(TopValues)
      /\ EvalReturn(res, Put(eval_cache, EvalTop.node.id, res))
      /\ UNCHANGED vars

EvalStep == EvalTerminal \/ EvalHit \/ EvalMiss \/ EvalRecurse \/ EvalCombine

EvalNext ==
  \/ NotEvaluating /\ Next /\ answer' = NoEvaluation
     /\ UNCHANGED <<eval_cache, eval_stack, eval_call>>
  \/ \E fun \in EvalFun, e \in held, state \in PartialState : EvaluatePartial(fun, e, state)
  \/ EvalStep

EvalSpec ==
  EvalInit /\ [][EvalNext]_<<vars, evalVars>> /\ WF_<<vars, evalVars>>(EvalStep)

----------------------------------------------------------------------------
(* Types, and the discipline of the recursion: each activation works on    *)
(* the child its caller needs next, and what is still being evaluated is   *)
(* not in the cache, so that no node is evaluated twice in one evaluation. *)
EvalTypeOK ==
  /\ DOMAIN eval_cache \subseteq Nat
  /\ \A i \in DOMAIN eval_stack :
       /\ eval_stack[i].node \in DOMAIN heap
       /\ eval_stack[i].pc \in {"enter", "children"}
       /\ eval_stack[i].pc = "children" => eval_stack[i].node.id \notin DOMAIN eval_cache
  /\ \A i \in 1 .. Len(eval_stack) - 1 :
       LET caller == eval_stack[i]
           values == Values(eval_call.state, heap[caller.node].level)
       IN  /\ Len(caller.child_results) < Len(values)
           /\ eval_stack[i + 1].node =
                heap[caller.node].children[values[Len(caller.child_results) + 1]].to
  /\ NotEvaluating <=> eval_call = NoEvaluation

(* The states that a partial state allows. *)
Consistent(state) == {s \in State : \A v \in DOMAIN state : s[v] \in Range(state[v])}

(* "Computes max_{s \in S} E(s)" (get_max in evmdd.h): the answer is the   *)
(* greatest value of the diagram on the states that are allowed, whatever  *)
(* was evaluated before and in whichever order results were cached.        *)
MaxIsGreatest ==
  answer.fun = "max" =>
    answer.value = Greatest({Value(s)[answer.e] : s \in Consistent(answer.state)})

(* "for each fact it's cheapest cost among all paths is stored"            *)
(* (product_evmdd.h): a fact is in the answer if it is in the value of the *)
(* diagram on some allowed state, with the least cost it has on these.     *)
RelaxationIsCheapest ==
  answer.fun = "Relaxation" =>
    LET values == {Value(s)[answer.e] : s \in Consistent(answer.state)}
        costs  == answer.value.cheapest_facts
    IN  /\ DOMAIN costs = UNION {value[1] : value \in values}
        /\ \A fact \in DOMAIN costs :
             costs[fact] = Least({value[2] : value \in {v \in values : fact \in v[1]}})

(* The number of a weight. *)
Number(kind, w) == IF kind = "int" THEN w ELSE w[2]

(* Adding w to what comes of node p stays within the machine's integers. *)
Fits(p, w) ==
  p.kind \in {"int", "pair"} =>
    \A s \in State :
      Number(p.kind, w) + Number(p.kind, Value(s)[[src |-> p, input |-> Neutral(p.kind)]])
        \in Ints

(* No addition along a path of a diagram wraps around.  Where one does,    *)
(* the greatest of some sums need not be the sum of the greatest.          *)
NoOverflow ==
  /\ \A p \in DOMAIN heap : \A i \in DOMAIN heap[p].children :
       Fits(heap[p].children[i].to, heap[p].children[i].w)
  /\ \A e \in held : Fits(e.src, e.input)

(* The facts on the edges below a node. *)
FactsBelow ==
  LET below[p \in DOMAIN heap] ==
        UNION {heap[p].children[i].w[1] \cup below[heap[p].children[i].to] :
                 i \in DOMAIN heap[p].children}
  IN  below

(* No fact occurs twice on a path of a diagram, the assertion in           *)
(* EvaluationType::operator+=: the monus leaves an edge nothing of what    *)
(* the input or an edge above it carries already.                          *)
FactsOccurOnce ==
  /\ \A p \in {q \in DOMAIN heap : q.kind = "pair"} : \A i \in DOMAIN heap[p].children :
       heap[p].children[i].w[1] \cap FactsBelow[heap[p].children[i].to] = {}
  /\ \A e \in {d \in held : d.src.kind = "pair"} : e.input[1] \cap FactsBelow[e.src] = {}

(* Every evaluation ends. *)
EvaluationEnds == (eval_stack # <<>>) ~> (eval_stack = <<>>)
=============================================================================
