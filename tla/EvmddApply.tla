----------------------------- MODULE EvmddApply -----------------------------
(***************************************************************************)
(* The core of LEMON-DD: the factories (evmdd/abstract_factory.h), the     *)
(* diagrams they build and combine (EvmddFactory in evmdd/evmdd.h), and    *)
(* the cache of finished computations that all factories share             *)
(* (evmdd/evmdd_cache.h).                                                  *)
(*                                                                         *)
(* A client obtains factories, builds constants and variables, combines    *)
(* the diagrams it holds with apply, and may reset the factories.  apply   *)
(* is recursive; here its activation records are explicit, so that what    *)
(* the shared structures hold between two of its steps, or after an        *)
(* operator has thrown out of the middle of it, is visible.                *)
(*                                                                         *)
(* All factories are assumed to agree on the order of the variables:       *)
(* level i is the same variable, with DomainSize[i] values, in all of      *)
(* them.  Operands of different orderings are a precondition of apply that *)
(* the code does not check.                                                *)
(***************************************************************************)
EXTENDS NodeTable, SequencesExt

CONSTANTS
  (* The monoids: Monoid<M,F>, one kind per instance of the template. *)
  Kind, Carrier(_), Neutral(_), Plus(_, _, _), Monus(_, _, _), Glb(_, _, _),
  (* The domains, in the order of the levels. *)
  DomainSize,
  (* The operators apply is called with.  OpType is the C++ type of the    *)
  (* operator, which is all that the cache knows of it.                    *)
  Op, OpType(_), OpLeft(_), OpRight(_), OpResult(_),
  OpDefined(_, _, _), OpFun(_, _, _),
  (* The (domains, ordering) pairs the client asks factories for, and the  *)
  (* kinds whose factories it may reset.                                   *)
  Key, ResetKind,
  (* What the client builds: constants [kind, w], variables [kind, level, values]. *)
  ConstInput, VarInput,
  (* Bounds: factories constructed, diagrams held, calls of apply. *)
  MaxFactories, MaxHeld, MaxCalls

VARIABLES
  factories,    \* the kind of every EvmddFactory ever constructed, in that order
  id_cache,     \* for each of them the table of its NodeFactory: key -> address
  registry,     \* AbstractFactory::cache: <<kind, key>> -> index in factories
  heap,         \* address -> node, for the nodes of all factories
  evmdd_cache,  \* EvmddCache: <<OpType(op), left, right>> -> result
  stack,        \* activation records of apply, the outermost first
  call,         \* operator and factory of the running call of apply
  held,         \* the diagrams the client holds
  outcome,      \* history: how the last call of apply ended
  calls         \* history: number of calls of apply

vars == <<factories, id_cache, registry, heap, evmdd_cache, stack, call, held, outcome, calls>>

NumLevels == Len(DomainSize)
Level     == 1 .. NumLevels
State     == {s \in [Level -> UNION {1 .. DomainSize[v] : v \in Level}] :
                \A v \in Level : s[v] <= DomainSize[v]}

(* greatest_lower_bound over a non-empty sequence of weights, from the left. *)
GlbAll(kind, ws) == FoldLeft(LAMBDA a, b : Glb(kind, a, b), Head(ws), Tail(ws))

ASSUME DomainAssumption == DomainSize \in Seq(Nat \ {0})

(* What apply needs of the monoids: adding the greatest lower bound of     *)
(* some weights to what the monus leaves of each restores it.  Neither     *)
(* associativity nor the order of monoid.h is needed.                      *)
ASSUME MonoidAssumption ==
  \A kind \in Kind :
    /\ Neutral(kind) \in Carrier(kind)
    /\ \A a, b \in Carrier(kind) : /\ Plus(kind, a, b) \in Carrier(kind)
                                   /\ Monus(kind, a, b) \in Carrier(kind)
    /\ \A v \in Level : \A ws \in [1 .. DomainSize[v] -> Carrier(kind)] :
         /\ GlbAll(kind, ws) \in Carrier(kind)
         /\ \A i \in 1 .. DomainSize[v] :
              Plus(kind, GlbAll(kind, ws), Monus(kind, ws[i], GlbAll(kind, ws))) = ws[i]

(* The law of monoid.h that the diagram of a variable needs: its input is  *)
(* the neutral element.                                                    *)
ASSUME NeutralAssumption ==
  \A kind \in Kind : \A a \in Carrier(kind) : Plus(kind, Neutral(kind), a) = a

ASSUME OpAssumption ==
  \A op \in Op :
    /\ OpLeft(op) \in Kind /\ OpRight(op) \in Kind /\ OpResult(op) \in Kind
    /\ \A a \in Carrier(OpLeft(op)), b \in Carrier(OpRight(op)) :
         /\ OpDefined(op, a, b) \in BOOLEAN
         /\ OpDefined(op, a, b) => OpFun(op, a, b) \in Carrier(OpResult(op))

ASSUME InputAssumption ==
  /\ \A c \in ConstInput : c.kind \in Kind /\ c.w \in Carrier(c.kind)
  /\ \A v \in VarInput : /\ v.kind \in Kind /\ v.level \in Level
                         /\ v.values \in [1 .. DomainSize[v.level] -> Carrier(v.kind)]

ASSUME BoundAssumption == MaxFactories \in Nat /\ MaxHeld \in Nat /\ MaxCalls \in Nat

----------------------------------------------------------------------------
(* Addresses, edges and diagrams. *)

(* Node_ptr<Monoid<M,F>>.  Ids are unique within a factory; fac tells      *)
(* apart nodes that different factories own.                               *)
Pointer == [kind : Kind, fac : 1 .. Len(factories), id : Nat]

(* Evmdd<M,F>: an input weight and a source node. *)
EvmddOf(kind) ==
  [src : {p \in DOMAIN heap : p.kind = kind}, input : Carrier(kind)]

Evmdd == UNION {EvmddOf(kind) : kind \in Kind}

IsTerminal(p)    == p.id = 0
TerminalOf(f)    == [kind |-> factories[f], fac |-> f, id |-> 0]
LevelOf(e)       == heap[e.src].level
ChildrenOf(e)    == heap[e.src].children

(* The diagram of one domain value: the input moves down the edge. *)
Child(e, i) ==
  [src   |-> ChildrenOf(e)[i].to,
   input |-> Plus(e.src.kind, e.input, ChildrenOf(e)[i].w)]

(* Evmdd::evaluate, as a function of the diagram: what e is on state s. *)
Value(s) ==
  LET value[e \in Evmdd] ==
        IF IsTerminal(e.src) THEN e.input ELSE value[Child(e, s[LevelOf(e)])]
  IN  value

----------------------------------------------------------------------------
(* Mutated forms of NodeAt and StoreNode. *)
NodeAtIdOfSize(f, level, children) ==
  IF IsStored(id_cache[f], level, children)
  THEN id_cache[f][Hash(level, children)]
  ELSE [kind |-> factories[f], fac |-> f, id |-> Cardinality(DOMAIN id_cache[f]) - 1]

NodeAtReusedAddress(f, level, children) ==
  IF IsStored(id_cache[f], level, children)
  THEN id_cache[f][Hash(level, children)]
  ELSE [kind |-> factories[f], fac |-> 1, id |-> NextId(id_cache[f])]

StoreNodeUnrecorded(f, level, children) ==
  /\ heap' = Put(heap, [kind |-> factories[f], fac |-> f, id |-> NextId(id_cache[f])],
                 [level |-> level, children |-> children])
  /\ UNCHANGED id_cache

(* NodeFactory::make_node in factory f: the address it returns, and what   *)
(* it does to the store.                                                   *)
NodeAt(f, level, children) ==
  IF IsStored(id_cache[f], level, children)
  THEN id_cache[f][Hash(level, children)]
  ELSE [kind |-> factories[f], fac |-> f, id |-> NextId(id_cache[f])]

StoreNode(f, level, children) ==
  \/ /\ IsStored(id_cache[f], level, children)
     /\ UNCHANGED <<id_cache, heap>>
  \/ /\ ~ IsStored(id_cache[f], level, children)
     /\ id_cache' = [id_cache EXCEPT ![f] =
                       Put(@, Hash(level, children), NodeAt(f, level, children))]
     /\ heap' = Put(heap, NodeAt(f, level, children),
                    [level |-> level, children |-> children])

(* Mutated forms of the parts of create_evmdd. *)
AllEqualNever(children) == Len(children) = 1

MinWeightFirst(kind, children) == children[1].input

EdgesWithoutMonus(kind, children) ==
  [i \in DOMAIN children |-> [w |-> children[i].input, to |-> children[i].src]]

(* create_evmdd: pull the greatest lower bound out of the children, unless *)
(* they are all equal and the node would be redundant.                     *)
AllEqual(children) == \A i \in DOMAIN children : children[i] = children[1]

MinWeight(kind, children) ==
  GlbAll(kind, [i \in DOMAIN children |-> children[i].input])

Edges(kind, children) ==
  [i \in DOMAIN children |->
     [w  |-> Monus(kind, children[i].input, MinWeight(kind, children)),
      to |-> children[i].src]]

Created(f, level, children) ==
  IF AllEqual(children)
  THEN children[1]
  ELSE [src   |-> NodeAt(f, level, Edges(factories[f], children)),
        input |-> MinWeight(factories[f], children)]

CreateEvmdd(f, level, children) ==
  IF AllEqual(children)
  THEN UNCHANGED <<id_cache, heap>>
  ELSE StoreNode(f, level, Edges(factories[f], children))

(* A mutated form of sub_evmdds. *)
sub_evmddsStrict(f, g) ==
  IF LevelOf(f) > LevelOf(g)
  THEN [i \in DOMAIN ChildrenOf(f) |-> Child(f, i)]
  ELSE [i \in DOMAIN ChildrenOf(g) |-> f]

(* sub_evmdds(f, g): the diagrams of f for the values of the variable at   *)
(* the higher of the two source nodes.                                     *)
sub_evmdds(f, g) ==
  IF LevelOf(f) >= LevelOf(g)
  THEN [i \in DOMAIN ChildrenOf(f) |-> Child(f, i)]
  ELSE [i \in DOMAIN ChildrenOf(g) |-> f]

RootLevel(l, r) == IF LevelOf(l) <= LevelOf(r) THEN LevelOf(r) ELSE LevelOf(l)

----------------------------------------------------------------------------
NoCall    == [op |-> "none", fac |-> 0]
NoOutcome == [status |-> "none"]
Empty     == [x \in {} |-> x]

Init ==
  /\ factories = <<>>
  /\ id_cache = Empty
  /\ registry = Empty
  /\ heap = Empty
  /\ evmdd_cache = Empty
  /\ stack = <<>>
  /\ call = NoCall
  /\ held = {}
  /\ outcome = NoOutcome
  /\ calls = 0

(* The program is single threaded: the client runs when apply does not. *)
Idle == stack = <<>>

(* AbstractFactory::get_factory for a pair that has no factory yet; for    *)
(* any other pair it changes nothing.  The new factory owns one node, the  *)
(* terminal.                                                               *)
GetFactory(kind, key) ==
  LET f        == Len(factories) + 1
      terminal == [kind |-> kind, fac |-> f, id |-> 0]
  IN  /\ Idle
      /\ <<kind, key>> \notin DOMAIN registry
      /\ Len(factories) < MaxFactories
      /\ factories' = Append(factories, kind)
      /\ id_cache' = Put(id_cache, f, [k \in {TerminalKey} |-> terminal])
      /\ heap' = Put(heap, terminal, TerminalNode)
      /\ registry' = Put(registry, <<kind, key>>, f)
      /\ outcome' = NoOutcome
      /\ UNCHANGED <<evmdd_cache, stack, call, held, calls>>

(* AbstractFactory<M,F>::reset deletes the factories of one kind.  Their   *)
(* nodes live on in the diagrams and cache entries that refer to them.     *)
Reset(kind) ==
  /\ Idle
  /\ \E entry \in DOMAIN registry : entry[1] = kind
  /\ registry' = [entry \in {e \in DOMAIN registry : e[1] # kind} |-> registry[entry]]
  /\ outcome' = NoOutcome
  /\ UNCHANGED <<factories, id_cache, heap, evmdd_cache, stack, call, held, calls>>

(* The factories the client can call. *)
Live == {registry[entry] : entry \in DOMAIN registry}

(* make_const_evmdd *)
MakeConst(f, w) ==
  /\ Idle
  /\ Cardinality(held) < MaxHeld
  /\ held' = held \cup {[src |-> TerminalOf(f), input |-> w]}
  /\ outcome' = NoOutcome
  /\ UNCHANGED <<factories, id_cache, registry, heap, evmdd_cache, stack, call, calls>>

(* make_var_evmdd: one node, whose edges carry the values as they are.     *)
(* Nothing is pulled out of them and nothing is reduced.                   *)
MakeVar(f, level, values) ==
  LET children == [i \in DOMAIN values |-> [w |-> values[i], to |-> TerminalOf(f)]]
  IN  /\ Idle
      /\ Cardinality(held) < MaxHeld
      /\ StoreNode(f, level, children)
      /\ held' = held \cup {[src   |-> NodeAt(f, level, children),
                             input |-> Neutral(factories[f])]}
      /\ outcome' = NoOutcome
      /\ UNCHANGED <<factories, registry, evmdd_cache, stack, call, calls>>

----------------------------------------------------------------------------
(* apply *)
Frame(l, r) == [l |-> l, r |-> r, pc |-> "enter", done |-> <<>>]

Top == stack[Len(stack)]

(* The client calls apply(l, r, op) on factory f. *)
Apply(op, f, l, r) ==
  /\ Idle
  /\ calls < MaxCalls
  /\ factories[f] = OpResult(op)
  /\ l.src.kind = OpLeft(op)
  /\ r.src.kind = OpRight(op)
  /\ call' = [op |-> op, fac |-> f]
  /\ stack' = <<Frame(l, r)>>
  /\ calls' = calls + 1
  /\ outcome' = NoOutcome
  /\ UNCHANGED <<factories, id_cache, registry, heap, evmdd_cache, held>>

(* The innermost activation returns result, to its caller or the client. *)
Return(result) ==
  \/ /\ Len(stack) > 1
     /\ stack' = [i \in 1 .. Len(stack) - 1 |->
                    IF i < Len(stack) - 1 THEN stack[i]
                    ELSE [stack[i] EXCEPT !.done = Append(@, result)]]
     /\ UNCHANGED <<call, held, outcome>>
  \/ /\ Len(stack) = 1
     /\ stack' = <<>>
     /\ call' = NoCall
     /\ held' = held \cup {result}
     /\ outcome' = [status |-> "returned", op |-> call.op, fac |-> call.fac,
                    l |-> stack[1].l, r |-> stack[1].r, result |-> result]

BothTerminal == IsTerminal(Top.l.src) /\ IsTerminal(Top.r.src)

(* Mutated forms of the cache key, and of the steps of apply.  The first   *)
(* is what operators that are passed by pointer, all of one type, make of  *)
(* the key.                                                                *)
CacheKeyOfOperands == <<OpResult(call.op), Top.l, Top.r>>

CacheKeyWithoutRightInput ==
  <<OpType(call.op), Top.l, [Top.r EXCEPT !.input = Neutral(Top.r.src.kind)]>>

TerminalCaseUnchecked ==
  /\ ~ Idle /\ Top.pc = "enter" /\ BothTerminal
  /\ Return([src   |-> TerminalOf(call.fac),
             input |-> OpFun(call.op, Top.l.input, Top.r.input)])
  /\ UNCHANGED <<factories, id_cache, registry, heap, evmdd_cache, calls>>

RecurseSkipsLast ==
  LET i == Len(Top.done) + 1
  IN  /\ ~ Idle /\ Top.pc = "children"
      /\ i < Len(sub_evmdds(Top.l, Top.r))
      /\ stack' = Append(stack, Frame(sub_evmdds(Top.l, Top.r)[i],
                                      sub_evmdds(Top.r, Top.l)[i]))
      /\ UNCHANGED <<factories, id_cache, registry, heap, evmdd_cache, call, held, outcome, calls>>

CacheKey == <<OpType(call.op), Top.l, Top.r>>

(* terminal_case, make_terminal_evmdd: the operator is applied. *)
TerminalCase ==
  /\ ~ Idle /\ Top.pc = "enter" /\ BothTerminal
  /\ OpDefined(call.op, Top.l.input, Top.r.input)
  /\ Return([src   |-> TerminalOf(call.fac),
             input |-> OpFun(call.op, Top.l.input, Top.r.input)])
  /\ UNCHANGED <<factories, id_cache, registry, heap, evmdd_cache, calls>>

(* The operator throws: every activation is unwound, nothing is undone. *)
TerminalThrow ==
  /\ ~ Idle /\ Top.pc = "enter" /\ BothTerminal
  /\ ~ OpDefined(call.op, Top.l.input, Top.r.input)
  /\ stack' = <<>>
  /\ call' = NoCall
  /\ outcome' = [status |-> "threw"]
  /\ UNCHANGED <<factories, id_cache, registry, heap, evmdd_cache, held, calls>>

CacheHit ==
  /\ ~ Idle /\ Top.pc = "enter" /\ ~ BothTerminal
  /\ CacheKey \in DOMAIN evmdd_cache
  /\ Return(evmdd_cache[CacheKey])
  /\ UNCHANGED <<factories, id_cache, registry, heap, evmdd_cache, calls>>

CacheMiss ==
  /\ ~ Idle /\ Top.pc = "enter" /\ ~ BothTerminal
  /\ CacheKey \notin DOMAIN evmdd_cache
  /\ stack' = [stack EXCEPT ![Len(stack)].pc = "children"]
  /\ UNCHANGED <<factories, id_cache, registry, heap, evmdd_cache, call, held, outcome, calls>>

(* The recursive call for the next pair of sub-diagrams. *)
Recurse ==
  LET i == Len(Top.done) + 1
  IN  /\ ~ Idle /\ Top.pc = "children"
      /\ i <= Len(sub_evmdds(Top.l, Top.r))
      /\ stack' = Append(stack, Frame(sub_evmdds(Top.l, Top.r)[i],
                                      sub_evmdds(Top.r, Top.l)[i]))
      /\ UNCHANGED <<factories, id_cache, registry, heap, evmdd_cache, call, held, outcome, calls>>

(* All children are there: create_evmdd, EvmddCache::add and return. *)
Combine ==
  LET level  == RootLevel(Top.l, Top.r)
      result == Created(call.fac, level, Top.done)
  IN  /\ ~ Idle /\ Top.pc = "children"
      /\ Len(Top.done) = Len(sub_evmdds(Top.l, Top.r))
      /\ CreateEvmdd(call.fac, level, Top.done)
      /\ evmdd_cache' = Put(evmdd_cache, CacheKey, result)
      /\ Return(result)
      /\ UNCHANGED <<factories, registry, calls>>

Step == TerminalCase \/ TerminalThrow \/ CacheHit \/ CacheMiss \/ Recurse \/ Combine

Client ==
  \/ \E kind \in Kind, key \in Key : GetFactory(kind, key)
  \/ \E kind \in ResetKind : Reset(kind)
  \/ \E f \in Live, c \in ConstInput :
       c.kind = factories[f] /\ MakeConst(f, c.w)
  \/ \E f \in Live, v \in VarInput :
       v.kind = factories[f] /\ MakeVar(f, v.level, v.values)
  \/ \E op \in Op, f \in Live, l, r \in held : Apply(op, f, l, r)

Next == Client \/ Step

(* A call of apply runs until it returns or throws; what the client does   *)
(* is its own affair.                                                      *)
Spec == Init /\ [][Next]_vars /\ WF_vars(Step)
----------------------------------------------------------------------------
(* Types, and the shape of the diagrams: children of a node are of its     *)
(* kind, one per value of its variable, and lie on lower levels.           *)
Node(p) ==
  IF IsTerminal(p)
  THEN heap[p] = TerminalNode
  ELSE /\ heap[p].level \in Level
       /\ heap[p].children \in
            [1 .. DomainSize[heap[p].level] ->
               [w : Carrier(p.kind), to : {q \in DOMAIN heap : q.kind = p.kind}]]
       /\ \A i \in DOMAIN heap[p].children :
            heap[heap[p].children[i].to].level < heap[p].level

Activation(op) ==
  [l : EvmddOf(OpLeft(op)), r : EvmddOf(OpRight(op)), pc : {"enter", "children"},
   done : Seq(EvmddOf(OpResult(op)))]

(* The nodes and the tables that find them. *)
HeapOK ==
  /\ factories \in Seq(Kind)
  /\ DOMAIN id_cache = DOMAIN factories
  /\ \A f \in DOMAIN id_cache : \A key \in DOMAIN id_cache[f] :
       /\ id_cache[f][key] \in DOMAIN heap
       /\ id_cache[f][key].kind = factories[f]
  /\ DOMAIN heap \subseteq Pointer
  /\ \A p \in DOMAIN heap : Node(p)

CacheOK ==
  \A entry \in DOMAIN evmdd_cache : \E op \in Op :
    /\ entry \in {OpType(op)} \X EvmddOf(OpLeft(op)) \X EvmddOf(OpRight(op))
    /\ evmdd_cache[entry] \in EvmddOf(OpResult(op))

CallOK ==
  \/ Idle
  \/ /\ call.op \in Op
     /\ call.fac \in DOMAIN factories
     /\ factories[call.fac] = OpResult(call.op)
     /\ stack \in Seq(Activation(call.op))

ClientOK ==
  /\ \A entry \in DOMAIN registry :
       /\ entry \in Kind \X Key
       /\ registry[entry] \in DOMAIN factories
       /\ factories[registry[entry]] = entry[1]
  /\ held \subseteq Evmdd
  /\ \/ outcome.status \in {"none", "threw"}
     \/ /\ outcome.status = "returned"
        /\ outcome.op \in Op
        /\ outcome.l \in EvmddOf(OpLeft(outcome.op))
        /\ outcome.r \in EvmddOf(OpRight(outcome.op))
        /\ outcome.result \in EvmddOf(OpResult(outcome.op))
  /\ calls \in 0 .. MaxCalls

TypeOK == HeapOK /\ CacheOK /\ CallOK /\ ClientOK

(* e is the diagram of `l op r': on every state it has the value that op   *)
(* yields for the values of l and r, and op was defined there.             *)
Denotes(e, op, l, r) ==
  \A s \in State :
    /\ OpDefined(op, Value(s)[l], Value(s)[r])
    /\ Value(s)[e] = OpFun(op, Value(s)[l], Value(s)[r])

(* Whatever the cache holds is right: "apply returns an evmdd ... which    *)
(* represents function 'left op right'" (evmdd.h).  This is so in the      *)
(* middle of a computation, after one that threw, and across resets.       *)
CacheSound ==
  \A op \in Op : \A entry \in DOMAIN evmdd_cache :
    entry[1] = OpType(op) => Denotes(evmdd_cache[entry], op, entry[2], entry[3])

(* The same of what the client is given: apply returned the diagram of     *)
(* `left op right'.                                                        *)
ReturnsPointwise ==
  outcome.status = "returned" =>
    Denotes(outcome.result, outcome.op, outcome.l, outcome.r)

(* The diagrams that apply has produced. *)
Results ==
  {evmdd_cache[entry] : entry \in DOMAIN evmdd_cache} \cup
  {e \in held : IsTerminal(e.src)}

(* The diagrams are canonical: two results that denote one function have   *)
(* the same input and the same source node, provided one factory has made  *)
(* them all.  This is what makes operator== on diagrams, a comparison of a *)
(* weight and a pointer, an equality of functions.                         *)
Canonical ==
  \A e1, e2 \in Results :
    (e1.src.kind = e2.src.kind /\ \A s \in State : Value(s)[e1] = Value(s)[e2])
    => e1 = e2

(* "By construction, the input value corresponds to the minimum" (get_min  *)
(* in evmdd.h): the input of a result is the greatest lower bound of its   *)
(* values.  The diagram of a variable, which is not the result of apply,   *)
(* has the neutral element as its input, whatever its values are.          *)
MinimumOfResults ==
  \A e \in Results :
    LET values == {Value(s)[e] : s \in State}
    IN  e.input = FoldSet(LAMBDA a, b : Glb(e.src.kind, a, b),
                          CHOOSE v \in values : TRUE, values)

(* "Each domain/ordering pair has exactly one factory which generates and  *)
(* stores all evmdds for this pair" (abstract_factory.h): the source node  *)
(* of what a factory returns is in that factory's store.                   *)
FactoryOwnsResults ==
  outcome.status = "returned" =>
    \E key \in DOMAIN id_cache[outcome.fac] :
      id_cache[outcome.fac][key] = outcome.result.src

(* Every recursive call works on a pair of diagrams below those of its     *)
(* caller, so the recursion is no deeper than the number of levels, and    *)
(* the entry a call is going to add to the cache cannot be added by the    *)
(* calls it makes.                                                         *)
RecursionDescends ==
  \A i \in 1 .. Len(stack) - 1 :
    RootLevel(stack[i + 1].l, stack[i + 1].r) < RootLevel(stack[i].l, stack[i].r)

(* A finished computation stays in the cache with the result it had, and a *)
(* node once made keeps its level and edges: evmdds given to the client    *)
(* never change under it.                                                  *)
NothingForgotten ==
  [][/\ \A entry \in DOMAIN evmdd_cache :
          entry \in DOMAIN evmdd_cache' /\ evmdd_cache'[entry] = evmdd_cache[entry]
     /\ \A p \in DOMAIN heap : p \in DOMAIN heap' /\ heap'[p] = heap[p]]_vars

(* Every call of apply ends. *)
CallEnds == (stack # <<>>) ~> (stack = <<>>)

----------------------------------------------------------------------------
(* The diagrams implement pointwise operations on functions: a diagram is  *)
(* mapped to the function it evaluates to.                                 *)
Denotation(e) == [kind |-> e.src.kind, fn |-> [s \in State |-> Value(s)[e]]]

Functions == INSTANCE FunctionAlgebra WITH
  known   <- {Denotation(e) : e \in held},
  pending <- IF Idle THEN [op |-> "none"]
             ELSE [op |-> call.op, left |-> Denotation(stack[1].l),
                                   right |-> Denotation(stack[1].r)],
  ending  <- outcome.status

ImplementsFunctions == Functions!Spec
=============================================================================
