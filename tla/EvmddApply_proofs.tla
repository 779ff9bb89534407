------------------------- MODULE EvmddApply_proofs -------------------------
(***************************************************************************)
(* Proofs about EvmddApply, for all monoids, operators, domains, numbers   *)
(* of factories, diagrams and calls: apply denotes the pointwise           *)
(* operation, its cache holds right results only, and its recursion        *)
(* descends.                                                               *)
(***************************************************************************)
EXTENDS EvmddApply, TLAPS, FiniteSetTheorems

(* Nodes are added to the heap, and the ones it has stay as they are.      *)
HeapGrows ==
  /\ DOMAIN heap \subseteq DOMAIN heap'
  /\ \A p \in DOMAIN heap : heap'[p] = heap[p]

----------------------------------------------------------------------------
(* Diagrams on a heap that does not change. *)

(* There are finitely many levels, each with at least one value. *)
LEMMA DomainSizes ==
  /\ NumLevels \in Nat
  /\ \A v \in Level : DomainSize[v] \in Nat \ {0}
BY DomainAssumption DEF NumLevels, Level

(* A diagram of kind k, taken apart. *)
LEMMA Fields ==
  ASSUME NEW kind \in Kind, NEW e \in EvmddOf(kind)
  PROVE  /\ e \in Evmdd
         /\ e.src \in DOMAIN heap
         /\ e.src.kind = kind
         /\ e.input \in Carrier(kind)
BY DEF Evmdd, EvmddOf

(* Every diagram is one of some kind. *)
LEMMA SomeKind ==
  ASSUME NEW e \in Evmdd
  PROVE  \E kind \in Kind : e \in EvmddOf(kind)
BY DEF Evmdd

(* Level 0 is that of the terminal nodes, and of these only. *)
LEMMA Levels ==
  ASSUME HeapOK, NEW p \in DOMAIN heap
  PROVE  /\ heap[p].level \in 0 .. NumLevels
         /\ IsTerminal(p) <=> heap[p].level = 0
         /\ ~ IsTerminal(p) => heap[p].level \in Level
BY DomainSizes DEF HeapOK, Node, TerminalNode, Level

(* The children of a diagram are diagrams of its kind on lower levels. *)
LEMMA Children ==
  ASSUME HeapOK, NEW kind \in Kind, NEW e \in EvmddOf(kind), ~ IsTerminal(e.src)
  PROVE  /\ LevelOf(e) \in Level
         /\ DOMAIN ChildrenOf(e) = 1 .. DomainSize[LevelOf(e)]
         /\ \A i \in 1 .. DomainSize[LevelOf(e)] :
              /\ Child(e, i) \in EvmddOf(kind)
              /\ LevelOf(Child(e, i)) < LevelOf(e)
<1>1. e.src \in DOMAIN heap /\ e.src.kind = kind /\ e.input \in Carrier(kind)
  BY Fields
<1>2. Node(e.src)
  BY <1>1 DEF HeapOK
<1>3. /\ LevelOf(e) \in Level
      /\ ChildrenOf(e) \in [1 .. DomainSize[LevelOf(e)] ->
           [w : Carrier(kind), to : {q \in DOMAIN heap : q.kind = kind}]]
      /\ \A i \in DOMAIN ChildrenOf(e) : heap[ChildrenOf(e)[i].to].level < LevelOf(e)
  BY <1>1, <1>2 DEF Node, LevelOf, ChildrenOf
<1>4. ASSUME NEW i \in 1 .. DomainSize[LevelOf(e)]
      PROVE  Child(e, i) \in EvmddOf(kind) /\ LevelOf(Child(e, i)) < LevelOf(e)
  <2>1. ChildrenOf(e)[i].w \in Carrier(kind) /\ ChildrenOf(e)[i].to \in {q \in DOMAIN heap : q.kind = kind}
    BY <1>3
  <2>2. Plus(kind, e.input, ChildrenOf(e)[i].w) \in Carrier(kind)
    BY <1>1, <2>1, MonoidAssumption
  <2>. QED
    BY <1>1, <1>3, <2>1, <2>2 DEF Child, EvmddOf, LevelOf
<1>. QED
  BY <1>3, <1>4

(* What apply recurses over. *)
LEMMA Subs ==
  ASSUME HeapOK, NEW kf \in Kind, NEW kg \in Kind, NEW f \in EvmddOf(kf), NEW g \in EvmddOf(kg),
         ~ (IsTerminal(f.src) /\ IsTerminal(g.src))
  PROVE  /\ RootLevel(f, g) \in Level
         /\ RootLevel(g, f) = RootLevel(f, g)
         /\ DomainSize[RootLevel(f, g)] \in Nat \ {0}
         /\ sub_evmdds(f, g) \in [1 .. DomainSize[RootLevel(f, g)] -> EvmddOf(kf)]
         /\ Len(sub_evmdds(f, g)) = DomainSize[RootLevel(f, g)]
         /\ \A i \in 1 .. DomainSize[RootLevel(f, g)] :
              LevelOf(sub_evmdds(f, g)[i]) < RootLevel(f, g)
<1>1. f.src \in DOMAIN heap /\ g.src \in DOMAIN heap
  BY Fields
<1>2. LevelOf(f) \in 0 .. NumLevels /\ LevelOf(g) \in 0 .. NumLevels /\ NumLevels \in Nat
  BY <1>1, Levels, DomainSizes DEF LevelOf
<1>3. CASE LevelOf(f) >= LevelOf(g)
  <2>1. ~ IsTerminal(f.src)
    BY <1>1, <1>2, <1>3, Levels DEF LevelOf
  <2>2. RootLevel(f, g) = LevelOf(f) /\ RootLevel(g, f) = LevelOf(f)
    BY <1>2, <1>3 DEF RootLevel
  <2>3. sub_evmdds(f, g) = [i \in 1 .. DomainSize[LevelOf(f)] |-> Child(f, i)]
    BY <1>3, <2>1, Children DEF sub_evmdds
  <2>. QED
    BY <2>1, <2>2, <2>3, Children, DomainSizes
<1>4. CASE LevelOf(f) < LevelOf(g)
  <2>1. ~ IsTerminal(g.src)
    BY <1>1, <1>2, <1>4, Levels DEF LevelOf
  <2>2. RootLevel(f, g) = LevelOf(g) /\ RootLevel(g, f) = LevelOf(g)
    BY <1>2, <1>4 DEF RootLevel
  <2>3. sub_evmdds(f, g) = [i \in 1 .. DomainSize[LevelOf(g)] |-> f]
    <3>1. ~ (LevelOf(f) >= LevelOf(g))
      BY <1>2, <1>4
    <3>2. DOMAIN ChildrenOf(g) = 1 .. DomainSize[LevelOf(g)]
      BY <2>1, Children
    <3>. QED
      BY <3>1, <3>2 DEF sub_evmdds
  <2>. QED
    BY <1>4, <2>1, <2>2, <2>3, Children, DomainSizes
<1>. QED
  BY <1>2, <1>3, <1>4

----------------------------------------------------------------------------
(* Values. *)

StepValue(V, s, e) ==
  IF IsTerminal(e.src) THEN e.input ELSE V[Child(e, s[LevelOf(e)])]

(* V gives the values of all diagrams on state s. *)
IsValue(V, s) == \A e \in Evmdd : V[e] = StepValue(V, s, e)

(* The recursion of evaluate is well founded: it has a solution. *)
ValueExists == \A s \in State : \E V : V = [e \in Evmdd |-> StepValue(V, s, e)]

(* Value(s), chosen by its equation, satisfies it where a solution exists. *)
LEMMA ValueIsValue ==
  ASSUME ValueExists, NEW s \in State
  PROVE  IsValue(Value(s), s)
<1> DEFINE P(V) == V = [e \in Evmdd |->
                      IF IsTerminal(e.src) THEN e.input ELSE V[Child(e, s[LevelOf(e)])]]
<1>1. \E V : P(V)
  BY DEF ValueExists, StepValue
<1>2. Value(s) = CHOOSE V : P(V)
  BY DEF Value
<1>3. P(Value(s))
  BY <1>1, <1>2
<1>. QED
  BY <1>3 DEF IsValue, StepValue

(* A state gives every variable one of its values. *)
LEMMA States ==
  ASSUME NEW s \in State, NEW v \in Level
  PROVE  s[v] \in 1 .. DomainSize[v]
<1>1. s[v] \in UNION {1 .. DomainSize[u] : u \in Level} /\ s[v] <= DomainSize[v]
  BY DEF State
<1>2. s[v] \in Nat \ {0}
  BY <1>1, DomainSizes
<1>. QED
  BY <1>1, <1>2, DomainSizes

(* On a state, f is what its sub-diagram for the root variable's value is. *)
LEMMA ValueOfSub ==
  ASSUME HeapOK, NEW kf \in Kind, NEW kg \in Kind, NEW f \in EvmddOf(kf), NEW g \in EvmddOf(kg),
         ~ (IsTerminal(f.src) /\ IsTerminal(g.src)),
         NEW s \in State, NEW V, IsValue(V, s)
  PROVE  V[f] = V[sub_evmdds(f, g)[s[RootLevel(f, g)]]]
<1>1. f.src \in DOMAIN heap /\ g.src \in DOMAIN heap /\ f \in Evmdd
  BY Fields
<1>2. LevelOf(f) \in 0 .. NumLevels /\ LevelOf(g) \in 0 .. NumLevels /\ NumLevels \in Nat
  BY <1>1, Levels, DomainSizes DEF LevelOf
<1>3. CASE LevelOf(f) >= LevelOf(g)
  <2>1. ~ IsTerminal(f.src)
    BY <1>1, <1>2, <1>3, Levels DEF LevelOf
  <2>2. RootLevel(f, g) = LevelOf(f)
    BY <1>2, <1>3 DEF RootLevel
  <2>3. sub_evmdds(f, g) = [i \in 1 .. DomainSize[LevelOf(f)] |-> Child(f, i)]
    BY <1>3, <2>1, Children DEF sub_evmdds
  <2>4. s[LevelOf(f)] \in 1 .. DomainSize[LevelOf(f)]
    BY <2>1, Children, States
  <2>5. V[f] = V[Child(f, s[LevelOf(f)])]
    BY <1>1, <2>1 DEF IsValue, StepValue
  <2>. QED
    BY <2>2, <2>3, <2>4, <2>5
<1>4. CASE LevelOf(f) < LevelOf(g)
  <2>1. ~ IsTerminal(g.src)
    BY <1>1, <1>2, <1>4, Levels DEF LevelOf
  <2>2. RootLevel(f, g) = LevelOf(g)
    BY <1>2, <1>4 DEF RootLevel
  <2>3. sub_evmdds(f, g) = [i \in 1 .. DomainSize[LevelOf(g)] |-> f]
    <3>1. ~ (LevelOf(f) >= LevelOf(g))
      BY <1>2, <1>4
    <3>2. DOMAIN ChildrenOf(g) = 1 .. DomainSize[LevelOf(g)]
      BY <2>1, Children
    <3>. QED
      BY <3>1, <3>2 DEF sub_evmdds
  <2>4. s[LevelOf(g)] \in 1 .. DomainSize[LevelOf(g)]
    BY <2>1, Children, States
  <2>. QED
    BY <2>2, <2>3, <2>4
<1>. QED
  BY <1>2, <1>3, <1>4

----------------------------------------------------------------------------
(* The heap only grows: what is said of old diagrams stays true. *)

(* A diagram of kind k remains one. *)
LEMMA GrowthOfTypes ==
  ASSUME HeapGrows, NEW kind
  PROVE  EvmddOf(kind) \subseteq EvmddOf(kind)'
BY DEF HeapGrows, EvmddOf

(* A diagram remains one. *)
LEMMA GrowthOfEvmdd ==
  ASSUME HeapGrows
  PROVE  Evmdd \subseteq Evmdd'
BY GrowthOfTypes DEF Evmdd

(* Levels and children of a diagram do not change. *)
LEMMA Stable ==
  ASSUME HeapGrows, NEW e, e.src \in DOMAIN heap
  PROVE  /\ LevelOf(e)' = LevelOf(e)
         /\ ChildrenOf(e)' = ChildrenOf(e)
         /\ \A i : Child(e, i)' = Child(e, i)
BY DEF HeapGrows, LevelOf, ChildrenOf, Child

(* Nor does what apply recurses over. *)
LEMMA StableSubs ==
  ASSUME HeapGrows, NEW f, NEW g, f.src \in DOMAIN heap, g.src \in DOMAIN heap
  PROVE  /\ sub_evmdds(f, g)' = sub_evmdds(f, g)
         /\ RootLevel(f, g)' = RootLevel(f, g)
BY Stable DEF sub_evmdds, RootLevel

(* A function that evaluates the new diagrams evaluates the old ones. *)
LEMMA ValueOfOld ==
  ASSUME HeapGrows, NEW s, NEW V, IsValue(V, s)'
  PROVE  IsValue(V, s)
<1> SUFFICES ASSUME NEW e \in Evmdd
             PROVE  V[e] = StepValue(V, s, e)
  BY DEF IsValue
<1>1. e \in Evmdd' /\ e.src \in DOMAIN heap
  BY GrowthOfEvmdd, SomeKind, Fields
<1>2. V[e] = StepValue(V, s, e)'
  BY <1>1 DEF IsValue
<1>3. StepValue(V, s, e)' = StepValue(V, s, e)
  BY <1>1, Stable DEF StepValue
<1>. QED
  BY <1>2, <1>3

----------------------------------------------------------------------------
(* make_node *)

(* Every table finds its terminal node under TerminalKey and its other     *)
(* nodes under the keys of their structure, and no id it has handed out is *)
(* above the number of its entries.                                        *)
StoreInv ==
  \A f \in DOMAIN id_cache :
    /\ TerminalKey \in DOMAIN id_cache[f]
    /\ id_cache[f][TerminalKey] = TerminalOf(f)
    /\ \A key \in DOMAIN id_cache[f] :
         /\ id_cache[f][key].fac = f
         /\ key # TerminalKey =>
              /\ ~ IsTerminal(id_cache[f][key])
              /\ key = Hash(heap[id_cache[f][key]].level, heap[id_cache[f][key]].children)
    /\ IsFiniteSet(DOMAIN id_cache[f])
    /\ \A p \in DOMAIN heap : p.fac = f => p.id <= Cardinality(DOMAIN id_cache[f])

(* The edges of a node that a factory may be asked for on level v. *)
EdgesFor(kind, v) ==
  {c \in [1 .. DomainSize[v] ->
            [w : Carrier(kind), to : {q \in DOMAIN heap : q.kind = kind}]] :
     \A i \in 1 .. DomainSize[v] : heap[c[i].to].level < v}

(* make_node finds a node on the heap that has the structure asked for. *)
LEMMA StoredNode ==
  ASSUME HeapOK, StoreInv, HashIsInjective,
         NEW f \in DOMAIN factories, NEW level, NEW children,
         IsStored(id_cache[f], level, children)
  PROVE  LET p == NodeAt(f, level, children)
         IN  /\ p \in DOMAIN heap
             /\ p.kind = factories[f]
             /\ ~ IsTerminal(p)
             /\ heap[p].level = level
             /\ heap[p].children = children
<1> DEFINE key == Hash(level, children)
           p == id_cache[f][key]
<1>1. f \in DOMAIN id_cache /\ key \in DOMAIN id_cache[f] /\ NodeAt(f, level, children) = p
  BY DEF HeapOK, IsStored, NodeAt
<1>2. key # TerminalKey
  BY DEF HashIsInjective
<1>3. p \in DOMAIN heap /\ p.kind = factories[f]
  BY <1>1 DEF HeapOK
<1>4. ~ IsTerminal(p) /\ key = Hash(heap[p].level, heap[p].children)
  BY <1>1, <1>2 DEF StoreInv
<1>5. heap[p].level = level /\ heap[p].children = children
  BY <1>4 DEF HashIsInjective
<1>. QED
  BY <1>1, <1>3, <1>4, <1>5

(* A node that is made has an address that no node of the heap has. *)
LEMMA NewNode ==
  ASSUME HeapOK, StoreInv, NEW f \in DOMAIN factories, NEW level, NEW children,
         ~ IsStored(id_cache[f], level, children)
  PROVE  LET p == NodeAt(f, level, children)
         IN  /\ p = [kind |-> factories[f], fac |-> f, id |-> NextId(id_cache[f])]
             /\ p \in Pointer
             /\ p \notin DOMAIN heap
             /\ ~ IsTerminal(p)
<1> DEFINE p == NodeAt(f, level, children)
<1>1. p = [kind |-> factories[f], fac |-> f, id |-> NextId(id_cache[f])]
  BY DEF NodeAt
<1>2. f \in DOMAIN id_cache /\ factories \in Seq(Kind)
  BY DEF HeapOK
<1>3. Cardinality(DOMAIN id_cache[f]) \in Nat
  BY <1>2, FS_CardinalityType DEF StoreInv
<1>4. p.id = Cardinality(DOMAIN id_cache[f]) + 1 /\ p.fac = f
  BY <1>1 DEF NextId
<1>5. p \in Pointer
  BY <1>1, <1>2, <1>3 DEF Pointer, NextId
<1>6. p \notin DOMAIN heap
  BY <1>2, <1>3, <1>4 DEF StoreInv
<1>7. ~ IsTerminal(p)
  BY <1>3, <1>4 DEF IsTerminal
<1>. QED
  BY <1>1, <1>5, <1>6, <1>7

(* The edges for a level lead to nodes of the heap on lower levels. *)
LEMMA EdgesToHeap ==
  ASSUME NEW kind, NEW level \in Level, NEW c \in EdgesFor(kind, level)
  PROVE  /\ c \in [1 .. DomainSize[level] ->
                     [w : Carrier(kind), to : {q \in DOMAIN heap : q.kind = kind}]]
         /\ \A i \in DOMAIN c : c[i].to \in DOMAIN heap /\ heap[c[i].to].level < level
BY DEF EdgesFor

(* A node stays well formed while the heap grows. *)
LEMMA NodeStable ==
  ASSUME HeapGrows, NEW q \in DOMAIN heap, Node(q)
  PROVE  Node(q)'
<1>1. \A p \in DOMAIN heap : p \in DOMAIN heap' /\ heap'[p] = heap[p]
  BY DEF HeapGrows
<1>2. CASE IsTerminal(q)
  BY <1>1, <1>2 DEF Node, IsTerminal
<1>3. CASE ~ IsTerminal(q)
  <2>1. /\ heap[q].level \in Level
        /\ heap[q].children \in [1 .. DomainSize[heap[q].level] ->
              [w : Carrier(q.kind), to : {r \in DOMAIN heap : r.kind = q.kind}]]
        /\ \A i \in DOMAIN heap[q].children :
              heap[heap[q].children[i].to].level < heap[q].level
    BY <1>3 DEF Node
  <2>2. heap[q].children \in [1 .. DomainSize[heap[q].level] ->
              [w : Carrier(q.kind), to : {r \in DOMAIN heap' : r.kind = q.kind}]]
    BY <2>1, <1>1
  <2>3. \A i \in DOMAIN heap[q].children :
              heap'[heap[q].children[i].to].level < heap[q].level
    BY <2>1, <1>1
  <2>. QED
    BY <1>1, <1>3, <2>1, <2>2, <2>3 DEF Node, IsTerminal, Level, NumLevels
<1>. QED
  BY <1>2, <1>3

(* Storing a new node. *)
LEMMA StoreNew ==
  ASSUME HeapOK, StoreInv, NEW f \in DOMAIN factories, NEW level \in Level,
         NEW children \in EdgesFor(factories[f], level), ~ IsStored(id_cache[f], level, children),
         StoreNode(f, level, children), factories' = factories, HashIsInjective
  PROVE  LET p == NodeAt(f, level, children)
         IN  /\ HeapGrows
             /\ DOMAIN heap' = DOMAIN heap \cup {p}
             /\ heap'[p] = [level |-> level, children |-> children]
             /\ HeapOK'
             /\ StoreInv'
<1> DEFINE p    == NodeAt(f, level, children)
           key  == Hash(level, children)
           node == [level |-> level, children |-> children]
<1>1. /\ p = [kind |-> factories[f], fac |-> f, id |-> NextId(id_cache[f])]
      /\ p \in Pointer /\ p \notin DOMAIN heap /\ ~ IsTerminal(p)
  BY NewNode
<1>2. /\ id_cache' = [id_cache EXCEPT ![f] = Put(id_cache[f], key, p)]
      /\ heap' = Put(heap, p, node)
      /\ key \notin DOMAIN id_cache[f]
      /\ key # TerminalKey
  BY DEF StoreNode, IsStored, HashIsInjective
<1> HIDE DEF p, key, node
<1>3. /\ DOMAIN heap' = DOMAIN heap \cup {p}
      /\ heap'[p] = node
      /\ \A q \in DOMAIN heap : heap'[q] = heap[q]
  BY <1>1, <1>2 DEF Put
<1>4. HeapGrows
  BY <1>3 DEF HeapGrows
<1>5. f \in DOMAIN id_cache /\ DOMAIN id_cache' = DOMAIN id_cache /\ DOMAIN id_cache = DOMAIN factories
  BY <1>2 DEF HeapOK
<1>6. /\ DOMAIN id_cache'[f] = DOMAIN id_cache[f] \cup {key}
      /\ id_cache'[f][key] = p
      /\ \A k \in DOMAIN id_cache[f] : id_cache'[f][k] = id_cache[f][k]
      /\ \A g \in DOMAIN id_cache : g # f => id_cache'[g] = id_cache[g]
  BY <1>2, <1>5 DEF Put
<1>7. HeapOK'
  <2>1. \A g \in DOMAIN id_cache' : \A k \in DOMAIN id_cache'[g] :
          id_cache'[g][k] \in DOMAIN heap' /\ id_cache'[g][k].kind = factories'[g]
    <3> SUFFICES ASSUME NEW g \in DOMAIN id_cache', NEW k \in DOMAIN id_cache'[g]
                 PROVE  id_cache'[g][k] \in DOMAIN heap' /\ id_cache'[g][k].kind = factories'[g]
      OBVIOUS
    <3>1. CASE g = f /\ k = key
      BY <3>1, <1>1, <1>3, <1>6
    <3>2. CASE ~ (g = f /\ k = key)
      <4>1. k \in DOMAIN id_cache[g] /\ id_cache'[g][k] = id_cache[g][k] /\ g \in DOMAIN id_cache
        BY <3>2, <1>5, <1>6
      <4>. QED
        BY <4>1, <1>3 DEF HeapOK
    <3>. QED
      BY <3>1, <3>2
  <2>2. DOMAIN heap' \subseteq Pointer'
    <3>1. Pointer' = Pointer
      BY DEF Pointer
    <3>. QED
      BY <3>1, <1>1, <1>3 DEF HeapOK
  <2>3. \A q \in DOMAIN heap' : Node(q)'
    <3>1. ASSUME NEW q \in DOMAIN heap
          PROVE  Node(q)'
      <4>1. Node(q)
        BY DEF HeapOK
      <4>. QED
        BY <4>1, <1>4, NodeStable
    <3>2. ASSUME NEW q, q = p
          PROVE  Node(q)'
      <4>1. heap'[q].level = level /\ heap'[q].children = children /\ q.kind = factories[f]
        BY <3>2, <1>1, <1>3 DEF node
      <4>2. children \in [1 .. DomainSize[level] ->
              [w : Carrier(q.kind), to : {r \in DOMAIN heap' : r.kind = q.kind}]]
        BY <1>3, <4>1, EdgesToHeap
      <4>3. \A i \in DOMAIN children : heap'[children[i].to].level < level
        BY <1>3, EdgesToHeap
      <4>4. ~ IsTerminal(q)
        BY <3>2, <1>1
      <4>. QED
        BY <4>1, <4>2, <4>3, <4>4 DEF Node, IsTerminal
    <3>. QED
      BY <3>1, <3>2, <1>3
  <2>. QED
    BY <2>1, <2>2, <2>3, <1>5 DEF HeapOK
<1>8. StoreInv'
  <2> SUFFICES ASSUME NEW g \in DOMAIN id_cache
               PROVE  /\ TerminalKey \in DOMAIN id_cache'[g]
                      /\ id_cache'[g][TerminalKey] = TerminalOf(g)'
                      /\ \A k \in DOMAIN id_cache'[g] :
                           /\ id_cache'[g][k].fac = g
                           /\ k # TerminalKey =>
                                /\ ~ IsTerminal(id_cache'[g][k])
                                /\ k = Hash(heap'[id_cache'[g][k]].level,
                                            heap'[id_cache'[g][k]].children)
                      /\ IsFiniteSet(DOMAIN id_cache'[g])
                      /\ \A q \in DOMAIN heap' :
                           q.fac = g => q.id <= Cardinality(DOMAIN id_cache'[g])
    BY <1>5 DEF StoreInv, IsTerminal
  <2>1. TerminalOf(g)' = TerminalOf(g)
    BY DEF TerminalOf
  <2>2. \A k \in DOMAIN id_cache[g] :
          heap'[id_cache[g][k]] = heap[id_cache[g][k]] /\ id_cache[g][k] \in DOMAIN heap
    BY <1>3 DEF HeapOK
  <2>3. CASE g = f
    <3>1. IsFiniteSet(DOMAIN id_cache[f]) /\ Cardinality(DOMAIN id_cache[f]) \in Nat
      BY <1>5, FS_CardinalityType DEF StoreInv
    <3>2. /\ IsFiniteSet(DOMAIN id_cache'[f])
          /\ Cardinality(DOMAIN id_cache'[f]) = Cardinality(DOMAIN id_cache[f]) + 1
      BY <3>1, <1>2, <1>6, FS_AddElement
    <3>3. key = Hash(heap'[p].level, heap'[p].children)
      BY <1>3 DEF key, node
    <3>4. \A q \in DOMAIN heap' : q.fac = f => q.id <= Cardinality(DOMAIN id_cache'[f])
      <4>1. p.id = Cardinality(DOMAIN id_cache[f]) + 1
        BY <1>1 DEF NextId
      <4>2. \A q \in DOMAIN heap : q.id \in Nat /\ (q.fac = f => q.id <= Cardinality(DOMAIN id_cache[f]))
        BY <1>5 DEF StoreInv, HeapOK, Pointer
      <4>. QED
        BY <4>1, <4>2, <3>1, <3>2, <1>3
    <3>5. /\ TerminalKey \in DOMAIN id_cache'[f]
          /\ id_cache'[f][TerminalKey] = TerminalOf(f)
      BY <1>5, <1>6 DEF StoreInv
    <3>6. \A k \in DOMAIN id_cache'[f] :
            /\ id_cache'[f][k].fac = f
            /\ k # TerminalKey =>
                 /\ ~ IsTerminal(id_cache'[f][k])
                 /\ k = Hash(heap'[id_cache'[f][k]].level, heap'[id_cache'[f][k]].children)
      <4>1. p.fac = f
        BY <1>1
      <4>2. \A k \in DOMAIN id_cache[f] :
              /\ id_cache[f][k].fac = f
              /\ k # TerminalKey =>
                   /\ ~ IsTerminal(id_cache[f][k])
                   /\ k = Hash(heap[id_cache[f][k]].level, heap[id_cache[f][k]].children)
        BY <1>5 DEF StoreInv
      <4>. QED
        BY <4>1, <4>2, <1>1, <1>6, <2>2, <2>3, <3>3
    <3>. QED
      BY <2>1, <2>3, <3>2, <3>4, <3>5, <3>6
  <2>4. CASE g # f
    <3>1. id_cache'[g] = id_cache[g] /\ p.fac # g
      BY <2>4, <1>1, <1>6
    <3>2. \A q \in DOMAIN heap' : q.fac = g => q.id <= Cardinality(DOMAIN id_cache[g])
      BY <3>1, <1>3 DEF StoreInv
    <3>. QED
      BY <2>1, <2>2, <3>1, <3>2 DEF StoreInv
  <2>. QED
    BY <2>3, <2>4
<1>. QED
  BY <1>3, <1>4, <1>7, <1>8 DEF p, node

(* A node added above nodes of the heap leaves the values well defined. *)
LEMMA ValuesGrow ==
  ASSUME HeapOK, HeapOK', HeapGrows, ValueExists, NEW p,
         DOMAIN heap' = DOMAIN heap \cup {p},
         ~ IsTerminal(p) => \A i \in DOMAIN heap'[p].children :
                              heap'[p].children[i].to \in DOMAIN heap
  PROVE  ValueExists'
<1> SUFFICES ASSUME NEW s \in State
             PROVE  \E W : W = [e \in Evmdd' |-> StepValue(W, s, e)']
  BY DEF ValueExists, State, Level, NumLevels
<1>1. PICK V : V = [e \in Evmdd |-> StepValue(V, s, e)]
  BY DEF ValueExists
<1>0. PICK W : W = [e \in Evmdd' |->
          IF e \in Evmdd THEN V[e]
          ELSE IF IsTerminal(e.src) THEN e.input
          ELSE V[[src |-> heap'[e.src].children[s[heap'[e.src].level]].to,
                  input |-> Plus(e.src.kind, e.input,
                                 heap'[e.src].children[s[heap'[e.src].level]].w)]]]
  OBVIOUS
<1>2. Evmdd \subseteq Evmdd'
  BY GrowthOfEvmdd
<1>3. ASSUME NEW e \in Evmdd'
      PROVE  W[e] = StepValue(W, s, e)'
  <2> DEFINE c == [src |-> heap'[e.src].children[s[heap'[e.src].level]].to,
                   input |-> Plus(e.src.kind, e.input,
                                  heap'[e.src].children[s[heap'[e.src].level]].w)]
  <2>1. StepValue(W, s, e)' = IF IsTerminal(e.src) THEN e.input ELSE W[c]
    BY DEF StepValue, Child, ChildrenOf, LevelOf, IsTerminal
  <2>2. PICK kind \in Kind : e \in EvmddOf(kind)'
    BY DEF Evmdd, EvmddOf
  <2>3. e.src \in DOMAIN heap' /\ e.src.kind = kind /\ e.input \in Carrier(kind)
        /\ e = [src |-> e.src, input |-> e.input]
    BY <2>2 DEF EvmddOf
  <2>4. CASE IsTerminal(e.src)
    <3>1. e \in Evmdd => V[e] = e.input
      BY <1>1, <2>4 DEF StepValue
    <3>. QED
      BY <1>0, <2>1, <2>4, <3>1
  <2>5. CASE ~ IsTerminal(e.src) /\ e \in Evmdd
    <3>1. e \in EvmddOf(kind) /\ e.src \in DOMAIN heap
      BY <2>3, <2>5, SomeKind, Fields DEF EvmddOf
    <3>2. c = Child(e, s[LevelOf(e)])
      BY <3>1, Stable DEF Child, ChildrenOf, LevelOf, HeapGrows
    <3>3. c \in Evmdd
      <4>1. LevelOf(e) \in Level
        BY <2>5, <3>1, Children
      <4>2. Child(e, s[LevelOf(e)]) \in EvmddOf(kind)
        BY <2>5, <3>1, <4>1, Children, States
      <4>. QED
        BY <3>2, <4>2, Fields
    <3>4. V[e] = V[c]
      BY <1>1, <2>5, <3>2 DEF StepValue
    <3>. QED
      BY <1>0, <1>2, <2>1, <2>5, <3>3, <3>4
  <2>6. CASE ~ IsTerminal(e.src) /\ e \notin Evmdd
    <3>1. e.src = p
      <4>1. e.src \in DOMAIN heap => e \in EvmddOf(kind)
        BY <2>3 DEF EvmddOf
      <4>. QED
        BY <2>3, <2>6, <4>1, Fields
    <3>2. Node(e.src)'
      BY <2>3 DEF HeapOK
    <3>3. /\ heap'[e.src].level \in Level
          /\ heap'[e.src].children \in [1 .. DomainSize[heap'[e.src].level] ->
               [w : Carrier(kind), to : {q \in DOMAIN heap' : q.kind = kind}]]
      BY <2>3, <2>6, <3>2 DEF Node, IsTerminal, Level, NumLevels
    <3>4. s[heap'[e.src].level] \in 1 .. DomainSize[heap'[e.src].level]
      BY <3>3, States
    <3>5. /\ c.src \in DOMAIN heap /\ c.src.kind = kind
          /\ heap'[e.src].children[s[heap'[e.src].level]].w \in Carrier(kind)
      BY <2>6, <3>1, <3>3, <3>4
    <3>6. c.input \in Carrier(kind)
      BY <2>3, <3>5, MonoidAssumption
    <3>7. c \in EvmddOf(kind)
      BY <3>5, <3>6 DEF EvmddOf
    <3>8. c \in Evmdd
      BY <3>7, Fields
    <3>. QED
      BY <1>0, <1>2, <2>1, <2>6, <3>8
  <2>. QED
    BY <2>4, <2>5, <2>6
<1>4. W = [e \in Evmdd' |-> StepValue(W, s, e)']
  <2>1. W = [e \in Evmdd' |-> W[e]]
    BY <1>0
  <2>. QED
    BY <1>3, <2>1
<1>. QED
  BY <1>4

(* A step that leaves the heap alone leaves all diagrams alone. *)
LEMMA SameHeap ==
  ASSUME UNCHANGED heap
  PROVE  /\ HeapGrows
         /\ Evmdd' = Evmdd
         /\ ValueExists => ValueExists'
         /\ \A e : LevelOf(e)' = LevelOf(e)
<1>1. \A kind : EvmddOf(kind)' = EvmddOf(kind)
  BY DEF EvmddOf
<1>2. Evmdd' = Evmdd
  BY <1>1 DEF Evmdd
<1>3. \A V, s, e : StepValue(V, s, e)' = StepValue(V, s, e)
  BY DEF StepValue, Child, ChildrenOf, LevelOf, IsTerminal
<1>. QED
  BY <1>2, <1>3 DEF HeapGrows, ValueExists, LevelOf, State, Level, NumLevels

(* make_node leaves every invariant of the store, and returns a node that  *)
(* is what was asked for.                                                  *)
LEMMA MakeNode ==
  ASSUME HeapOK, StoreInv, ValueExists, HashIsInjective,
         NEW f \in DOMAIN factories, NEW level \in Level, NEW children \in EdgesFor(factories[f], level),
         StoreNode(f, level, children), UNCHANGED factories
  PROVE  /\ HeapGrows /\ HeapOK' /\ StoreInv' /\ ValueExists'
         /\ \E p \in DOMAIN heap' :
              /\ p = NodeAt(f, level, children)
              /\ p.kind = factories[f]
              /\ ~ IsTerminal(p)
              /\ heap'[p].level = level
              /\ heap'[p].children = children
<1>1. CASE IsStored(id_cache[f], level, children)
  <2>1. UNCHANGED <<factories, id_cache, heap>>
    BY <1>1 DEF StoreNode
  <2>2. HeapGrows /\ ValueExists'
    BY <2>1, SameHeap
  <2>3. HeapOK' /\ StoreInv'
    BY <2>1 DEF HeapOK, StoreInv, Node, Pointer, TerminalOf, IsTerminal
  <2>. QED
    BY <1>1, <2>1, <2>2, <2>3, StoredNode
<1>2. CASE ~ IsStored(id_cache[f], level, children)
  <2> DEFINE p == NodeAt(f, level, children)
  <2>1. /\ HeapGrows /\ HeapOK' /\ StoreInv'
        /\ DOMAIN heap' = DOMAIN heap \cup {p}
        /\ heap'[p] = [level |-> level, children |-> children]
    BY <1>2, StoreNew
  <2>2. ~ IsTerminal(p) /\ p.kind = factories[f]
    BY <1>2, NewNode
  <2>3. \A i \in DOMAIN children : children[i].to \in DOMAIN heap
    BY EdgesToHeap
  <2>4. PICK q : q = p
    OBVIOUS
  <2>5. ValueExists'
    BY <2>1, <2>3, <2>4, ValuesGrow
  <2>. QED
    BY <2>1, <2>2, <2>5
<1>. QED
  BY <1>1, <1>2

(* The children that create_evmdd is given. *)
Offspring(kind, v) ==
  {c \in [1 .. DomainSize[v] -> EvmddOf(kind)] :
     \A i \in 1 .. DomainSize[v] : LevelOf(c[i]) < v}

(* The greatest lower bound plus what the monus leaves is the weight again. *)
LEMMA GlbRestores ==
  ASSUME NEW kind \in Kind, NEW level \in Level,
         NEW ws \in [1 .. DomainSize[level] -> Carrier(kind)]
  PROVE  /\ GlbAll(kind, ws) \in Carrier(kind)
         /\ \A i \in 1 .. DomainSize[level] :
              /\ Monus(kind, ws[i], GlbAll(kind, ws)) \in Carrier(kind)
              /\ Plus(kind, GlbAll(kind, ws), Monus(kind, ws[i], GlbAll(kind, ws))) = ws[i]
BY MonoidAssumption

(* Normalised edges below the minimum weight are the children again. *)
LEMMA EdgesOfOffspring ==
  ASSUME NEW kind \in Kind, NEW level \in Level, NEW children \in Offspring(kind, level)
  PROVE  /\ Edges(kind, children) \in EdgesFor(kind, level)
         /\ MinWeight(kind, children) \in Carrier(kind)
         /\ \A i \in 1 .. DomainSize[level] :
              [src   |-> Edges(kind, children)[i].to,
               input |-> Plus(kind, MinWeight(kind, children),
                              Edges(kind, children)[i].w)] = children[i]
<1>1. PICK ws : ws = [i \in 1 .. DomainSize[level] |-> children[i].input]
  OBVIOUS
<1>2. /\ children \in [1 .. DomainSize[level] -> EvmddOf(kind)]
      /\ DOMAIN children = 1 .. DomainSize[level]
      /\ \A i \in 1 .. DomainSize[level] : LevelOf(children[i]) < level
  BY DEF Offspring
<1>3. /\ ws \in [1 .. DomainSize[level] -> Carrier(kind)]
      /\ \A i \in 1 .. DomainSize[level] :
           /\ children[i].src \in {q \in DOMAIN heap : q.kind = kind}
           /\ heap[children[i].src].level < level
           /\ children[i] = [src |-> children[i].src, input |-> ws[i]]
  BY <1>1, <1>2 DEF EvmddOf, LevelOf
<1>4. PICK m : m = MinWeight(kind, children)
  OBVIOUS
<1>5. m = GlbAll(kind, ws)
  BY <1>1, <1>2, <1>4 DEF MinWeight
<1>6. /\ m \in Carrier(kind)
      /\ \A i \in 1 .. DomainSize[level] :
           Monus(kind, ws[i], m) \in Carrier(kind) /\ Plus(kind, m, Monus(kind, ws[i], m)) = ws[i]
  BY <1>3, <1>5, GlbRestores
<1>7. Edges(kind, children) =
        [i \in 1 .. DomainSize[level] |-> [w |-> Monus(kind, ws[i], m), to |-> children[i].src]]
  BY <1>1, <1>2, <1>4 DEF Edges
<1>8. PICK edges : edges = Edges(kind, children)
  OBVIOUS
<1>9. edges \in EdgesFor(kind, level)
  <2>1. PICK nodes : nodes = {q \in DOMAIN heap : q.kind = kind}
    OBVIOUS
  <2>2. \A i \in 1 .. DomainSize[level] :
          edges[i] \in [w : Carrier(kind), to : nodes] /\ edges[i].to = children[i].src
    <3> SUFFICES ASSUME NEW i \in 1 .. DomainSize[level]
                 PROVE  edges[i] \in [w : Carrier(kind), to : nodes] /\ edges[i].to = children[i].src
      OBVIOUS
    <3>1. edges[i] = [w |-> Monus(kind, ws[i], m), to |-> children[i].src]
      BY <1>7, <1>8
    <3>2. Monus(kind, ws[i], m) \in Carrier(kind) /\ children[i].src \in nodes
      BY <1>3, <1>6, <2>1
    <3>. QED
      BY <3>1, <3>2
  <2>3. edges \in [1 .. DomainSize[level] -> [w : Carrier(kind), to : nodes]]
    BY <1>7, <1>8, <2>2
  <2>4. \A i \in 1 .. DomainSize[level] : heap[edges[i].to].level < level
    BY <1>3, <2>2
  <2>. QED
    BY <2>1, <2>3, <2>4 DEF EdgesFor
<1>10. \A i \in 1 .. DomainSize[level] :
         [src |-> edges[i].to, input |-> Plus(kind, m, edges[i].w)] = children[i]
  BY <1>3, <1>6, <1>7, <1>8
<1>. QED
  BY <1>4, <1>6, <1>8, <1>9, <1>10

(* create_evmdd returns a diagram that, on every state, is the child for   *)
(* the value of the variable.                                              *)
LEMMA Create ==
  ASSUME HeapOK, StoreInv, ValueExists, HashIsInjective,
         NEW f \in DOMAIN factories, NEW level \in Level, NEW kind, kind = factories[f],
         NEW children \in Offspring(kind, level),
         CreateEvmdd(f, level, children), UNCHANGED factories,
         NEW e, e = Created(f, level, children)
  PROVE  /\ HeapGrows /\ HeapOK' /\ StoreInv' /\ ValueExists'
         /\ e \in EvmddOf(kind)'
         /\ LevelOf(e)' <= level
         /\ \A s \in State : \A V : IsValue(V, s)' => V[e] = V[children[s[level]]]
<1>1. /\ children \in [1 .. DomainSize[level] -> EvmddOf(kind)]
      /\ DOMAIN children = 1 .. DomainSize[level]
      /\ \A i \in 1 .. DomainSize[level] : LevelOf(children[i]) < level
      /\ 1 \in 1 .. DomainSize[level]
      /\ kind \in Kind
  BY DomainSizes DEF Offspring, HeapOK
<1>2. CASE AllEqual(children)
  <2>1. e = children[1] /\ UNCHANGED <<factories, id_cache, heap>>
    BY <1>2 DEF Created, CreateEvmdd
  <2>2. HeapGrows /\ ValueExists'
    BY <2>1, SameHeap
  <2>3. HeapOK' /\ StoreInv'
    BY <2>1 DEF HeapOK, StoreInv, Node, Pointer, TerminalOf, IsTerminal
  <2>4. e \in EvmddOf(kind) /\ LevelOf(e) < level
    BY <1>1, <2>1
  <2>5. e \in EvmddOf(kind)' /\ LevelOf(e)' <= level
    <3>1. LevelOf(e)' = LevelOf(e) /\ EvmddOf(kind)' = EvmddOf(kind)
      BY <2>1 DEF LevelOf, EvmddOf
    <3>2. LevelOf(e) \in Int /\ level \in Int
      BY <1>1, <2>4, Fields, Levels, DomainSizes DEF LevelOf, Level
    <3>. QED
      BY <2>4, <3>1, <3>2
  <2>6. ASSUME NEW s \in State, NEW V
        PROVE  V[e] = V[children[s[level]]]
    <3>1. s[level] \in DOMAIN children
      BY <1>1, States
    <3>. QED
      BY <1>2, <2>1, <3>1 DEF AllEqual
  <2>. QED
    BY <2>2, <2>3, <2>5, <2>6
<1>3. CASE ~ AllEqual(children)
  <2>1. PICK edges, m : edges = Edges(kind, children) /\ m = MinWeight(kind, children)
    OBVIOUS
  <2>2. /\ edges \in EdgesFor(factories[f], level)
        /\ m \in Carrier(kind)
        /\ \A i \in 1 .. DomainSize[level] :
             [src |-> edges[i].to, input |-> Plus(kind, m, edges[i].w)] = children[i]
    BY <1>1, <2>1, EdgesOfOffspring
  <2>3. StoreNode(f, level, edges)
    BY <1>3, <2>1 DEF CreateEvmdd
  <2>4. HeapGrows /\ HeapOK' /\ StoreInv' /\ ValueExists'
    BY <2>2, <2>3, MakeNode
  <2>5. PICK p \in DOMAIN heap' :
          /\ p = NodeAt(f, level, edges)
          /\ p.kind = factories[f]
          /\ ~ IsTerminal(p)
          /\ heap'[p].level = level
          /\ heap'[p].children = edges
    BY <2>2, <2>3, MakeNode
  <2>6. e = [src |-> p, input |-> m]
    BY <1>3, <2>1, <2>5 DEF Created
  <2>7. e \in EvmddOf(kind)' /\ LevelOf(e)' = level
    BY <2>2, <2>5, <2>6 DEF EvmddOf, LevelOf
  <2>8. ASSUME NEW s \in State, NEW V, IsValue(V, s)'
        PROVE  V[e] = V[children[s[level]]]
    <3>1. e \in Evmdd'
      BY <1>1, <2>7 DEF Evmdd, EvmddOf
    <3>2. V[e] = V[Child(e, s[level])']
      <4>1. V[e] = StepValue(V, s, e)'
        BY <2>8, <3>1 DEF IsValue
      <4>2. StepValue(V, s, e)' = V[Child(e, s[level])']
        BY <2>5, <2>6 DEF StepValue, LevelOf, IsTerminal, Child, ChildrenOf
      <4>. QED
        BY <4>1, <4>2
    <3>3. s[level] \in 1 .. DomainSize[level]
      BY States
    <3>4. Child(e, s[level])' = [src |-> edges[s[level]].to, input |-> Plus(kind, m, edges[s[level]].w)]
      BY <2>5, <2>6 DEF Child, ChildrenOf
    <3>. QED
      BY <2>2, <3>2, <3>3, <3>4
  <2>9. level <= level
    BY DomainSizes DEF Level
  <2>. QED
    BY <2>4, <2>7, <2>8, <2>9
<1>. QED
  BY <1>2, <1>3

----------------------------------------------------------------------------
(* Soundness. *)

Correct(V, e, op, l, r) == OpDefined(op, V[l], V[r]) /\ V[e] = OpFun(op, V[l], V[r])

(* e answers the call of op on l and r. *)
Answer(e, op, l, r) ==
  /\ e \in EvmddOf(OpResult(op))
  /\ LevelOf(e) <= RootLevel(l, r)
  /\ \A s \in State : \A V : IsValue(V, s) => Correct(V, e, op, l, r)

CacheInv ==
  \A entry \in DOMAIN evmdd_cache : \E op \in Op :
    /\ entry \in {OpType(op)} \X EvmddOf(OpLeft(op)) \X EvmddOf(OpRight(op))
    /\ Answer(evmdd_cache[entry], op, entry[2], entry[3])

(* An activation of apply for operator op: what it has computed so far     *)
(* answers its first recursive calls.                                      *)
FrameInv(fr, op) ==
  /\ fr \in Activation(op)
  /\ fr.pc = "enter" => fr.done = <<>>
  /\ fr.pc = "children" => /\ ~ (IsTerminal(fr.l.src) /\ IsTerminal(fr.r.src))
                           /\ Len(fr.done) <= Len(sub_evmdds(fr.l, fr.r))
  /\ \A i \in 1 .. Len(fr.done) :
       Answer(fr.done[i], op, sub_evmdds(fr.l, fr.r)[i], sub_evmdds(fr.r, fr.l)[i])

(* Activation fr waits for its recursive call, which is activation next. *)
Calls(fr, next) ==
  /\ fr.pc = "children"
  /\ Len(fr.done) < Len(sub_evmdds(fr.l, fr.r))
  /\ next.l = sub_evmdds(fr.l, fr.r)[Len(fr.done) + 1]
  /\ next.r = sub_evmdds(fr.r, fr.l)[Len(fr.done) + 1]

StackInv ==
  /\ \A i \in 1 .. Len(stack) : FrameInv(stack[i], call.op)
  /\ \A i \in 1 .. Len(stack) - 1 : Calls(stack[i], stack[i + 1])

OutcomeInv ==
  outcome.status = "returned" =>
    Answer(outcome.result, outcome.op, outcome.l, outcome.r)

Invariant ==
  /\ HeapOK /\ StoreInv /\ ValueExists
  /\ CacheInv
  /\ CallOK /\ StackInv
  /\ ClientOK /\ OutcomeInv

(* A right answer remains right while the heap grows. *)
LEMMA AnswerStable ==
  ASSUME HeapGrows, NEW op, NEW e, NEW l, NEW r,
         l.src \in DOMAIN heap, r.src \in DOMAIN heap, Answer(e, op, l, r)
  PROVE  Answer(e, op, l, r)'
<1>1. e \in EvmddOf(OpResult(op)) /\ e.src \in DOMAIN heap
  BY DEF Answer, EvmddOf
<1>2. e \in EvmddOf(OpResult(op))'
  BY <1>1, GrowthOfTypes
<1>3. LevelOf(e)' <= RootLevel(l, r)'
  BY <1>1, Stable DEF Answer, RootLevel
<1>4. ASSUME NEW s \in State, NEW V, IsValue(V, s)'
      PROVE  Correct(V, e, op, l, r)
  BY <1>4, ValueOfOld DEF Answer
<1>. QED
  BY <1>2, <1>3, <1>4 DEF Answer, Correct, State, Level, NumLevels

(* So does an entry of the cache. *)
LEMMA CacheStable ==
  ASSUME HeapGrows, CacheInv, NEW entry \in DOMAIN evmdd_cache, NEW e, e = evmdd_cache[entry]
  PROVE  \E op \in Op :
           /\ entry \in ({OpType(op)} \X EvmddOf(OpLeft(op)) \X EvmddOf(OpRight(op)))'
           /\ Answer(e, op, entry[2], entry[3])'
<1>1. PICK op \in Op :
        /\ entry \in {OpType(op)} \X EvmddOf(OpLeft(op)) \X EvmddOf(OpRight(op))
        /\ Answer(e, op, entry[2], entry[3])
  BY DEF CacheInv
<1>2. entry[2] \in EvmddOf(OpLeft(op)) /\ entry[3] \in EvmddOf(OpRight(op))
      /\ entry = <<OpType(op), entry[2], entry[3]>>
  BY <1>1
<1>3. entry[2].src \in DOMAIN heap /\ entry[3].src \in DOMAIN heap
  BY <1>2 DEF EvmddOf
<1>4. Answer(e, op, entry[2], entry[3])'
  BY <1>1, <1>3, AnswerStable
<1>5. EvmddOf(OpLeft(op)) \subseteq EvmddOf(OpLeft(op))' /\ EvmddOf(OpRight(op)) \subseteq EvmddOf(OpRight(op))'
  BY GrowthOfTypes
<1>6. entry \in {OpType(op)} \X EvmddOf(OpLeft(op))' \X EvmddOf(OpRight(op))'
  BY <1>2, <1>5
<1>. QED
  BY <1>4, <1>6

(* The fields of an activation. *)
LEMMA FrameTypes ==
  ASSUME NEW op, NEW fr, fr \in Activation(op)
  PROVE  /\ fr.l \in EvmddOf(OpLeft(op)) /\ fr.r \in EvmddOf(OpRight(op))
         /\ fr.l.src \in DOMAIN heap /\ fr.r.src \in DOMAIN heap
         /\ fr.pc \in {"enter", "children"}
         /\ fr.done \in Seq(EvmddOf(OpResult(op)))
         /\ Len(fr.done) \in Nat
         /\ fr = [l |-> fr.l, r |-> fr.r, pc |-> fr.pc, done |-> fr.done]
<1>1. /\ fr.l \in EvmddOf(OpLeft(op)) /\ fr.r \in EvmddOf(OpRight(op))
      /\ fr.pc \in {"enter", "children"}
      /\ fr.done \in Seq(EvmddOf(OpResult(op)))
      /\ fr = [l |-> fr.l, r |-> fr.r, pc |-> fr.pc, done |-> fr.done]
  BY DEF Activation
<1>2. fr.l.src \in DOMAIN heap /\ fr.r.src \in DOMAIN heap
  BY <1>1 DEF EvmddOf
<1>. QED
  BY <1>1, <1>2

(* What is said of an activation remains true while the heap grows. *)
LEMMA FrameStable ==
  ASSUME HeapOK, HeapGrows, NEW op \in Op, NEW fr, FrameInv(fr, op)
  PROVE  FrameInv(fr, op)'
<1>1. fr \in Activation(op)
  BY DEF FrameInv
<1>2. fr \in Activation(op)'
  <2>1. /\ EvmddOf(OpLeft(op)) \subseteq EvmddOf(OpLeft(op))'
        /\ EvmddOf(OpRight(op)) \subseteq EvmddOf(OpRight(op))'
        /\ EvmddOf(OpResult(op)) \subseteq EvmddOf(OpResult(op))'
    BY GrowthOfTypes
  <2>2. fr.done \in Seq(EvmddOf(OpResult(op))')
    BY <1>1, <2>1, FrameTypes
  <2>. QED
    BY <1>1, <2>1, <2>2, FrameTypes DEF Activation
<1>3. fr.l.src \in DOMAIN heap /\ fr.r.src \in DOMAIN heap
  BY <1>1, FrameTypes
<1>4. sub_evmdds(fr.l, fr.r)' = sub_evmdds(fr.l, fr.r) /\ sub_evmdds(fr.r, fr.l)' = sub_evmdds(fr.r, fr.l)
  BY <1>3, StableSubs
<1>5. ASSUME NEW i \in 1 .. Len(fr.done)
      PROVE  Answer(fr.done[i], op, sub_evmdds(fr.l, fr.r)[i], sub_evmdds(fr.r, fr.l)[i])'
  <2>1. PICK a, b : a = sub_evmdds(fr.l, fr.r)[i] /\ b = sub_evmdds(fr.r, fr.l)[i]
    OBVIOUS
  <2>2. Answer(fr.done[i], op, a, b)
    BY <2>1 DEF FrameInv
  <2>3. a.src \in DOMAIN heap /\ b.src \in DOMAIN heap
    <3>1. fr.pc = "children" /\ ~ (IsTerminal(fr.l.src) /\ IsTerminal(fr.r.src))
          /\ i \in 1 .. Len(sub_evmdds(fr.l, fr.r))
      BY <1>1, FrameTypes DEF FrameInv
    <3>. QED
      BY <1>1, <2>1, <3>1, FrameTypes, Subs, OpAssumption, Fields
  <2>. QED
    BY <1>4, <2>1, <2>2, <2>3, AnswerStable
<1>. QED
  BY <1>2, <1>4, <1>5 DEF FrameInv, IsTerminal

(* So does that its operands are children of its caller's. *)
LEMMA CallsStable ==
  ASSUME HeapGrows, NEW op, NEW fr, NEW next, fr \in Activation(op), Calls(fr, next)
  PROVE  Calls(fr, next)'
<1>1. fr.l.src \in DOMAIN heap /\ fr.r.src \in DOMAIN heap
  BY FrameTypes
<1>2. sub_evmdds(fr.l, fr.r)' = sub_evmdds(fr.l, fr.r) /\ sub_evmdds(fr.r, fr.l)' = sub_evmdds(fr.r, fr.l)
  BY <1>1, StableSubs
<1>. QED
  BY <1>2 DEF Calls

(* A recursive call returns to the activation that waits for it. *)
LEMMA FrameReturns ==
  ASSUME HeapOK, HeapGrows, NEW op \in Op, NEW fr, NEW next, NEW result, NEW new,
         FrameInv(fr, op), Calls(fr, next), Answer(result, op, next.l, next.r)',
         new = [fr EXCEPT !.done = Append(@, result)]
  PROVE  FrameInv(new, op)'
<1>1. fr \in Activation(op) /\ fr.pc = "children" /\ ~ (IsTerminal(fr.l.src) /\ IsTerminal(fr.r.src))
  BY DEF FrameInv, Calls
<1>2. FrameInv(fr, op)' /\ (fr \in Activation(op))'
  BY FrameStable DEF FrameInv
<1>3. /\ fr.l \in EvmddOf(OpLeft(op))' /\ fr.r \in EvmddOf(OpRight(op))'
      /\ fr.done \in Seq(EvmddOf(OpResult(op))')
      /\ Len(fr.done) \in Nat
      /\ fr = [l |-> fr.l, r |-> fr.r, pc |-> fr.pc, done |-> fr.done]
      /\ fr.pc \in {"enter", "children"}
  BY <1>2 DEF Activation
<1>4. /\ new.l = fr.l /\ new.r = fr.r /\ new.pc = fr.pc
      /\ new.done = Append(fr.done, result)
      /\ new = [l |-> fr.l, r |-> fr.r, pc |-> fr.pc, done |-> Append(fr.done, result)]
  BY <1>3
<1>5. result \in EvmddOf(OpResult(op))'
  BY DEF Answer
<1>6. /\ new.done \in Seq(EvmddOf(OpResult(op))')
      /\ Len(new.done) = Len(fr.done) + 1
      /\ \A i \in 1 .. Len(fr.done) : new.done[i] = fr.done[i]
      /\ new.done[Len(fr.done) + 1] = result
  BY <1>3, <1>4, <1>5
<1>7. (new \in Activation(op))'
  BY <1>3, <1>4, <1>6 DEF Activation
<1>8. PICK subl, subr : subl = sub_evmdds(fr.l, fr.r) /\ subr = sub_evmdds(fr.r, fr.l)
  OBVIOUS
<1>9. sub_evmdds(fr.l, fr.r)' = subl /\ sub_evmdds(fr.r, fr.l)' = subr
  BY <1>1, <1>8, FrameTypes, StableSubs
<1>10. Len(new.done) <= Len(subl)
  <2>1. Len(fr.done) < Len(subl)
    BY <1>8 DEF Calls
  <2>2. Len(subl) \in Nat
    BY <1>1, <1>8, FrameTypes, Subs, OpAssumption
  <2>. QED
    BY <1>3, <1>6, <2>1, <2>2
<1>11. \A i \in 1 .. Len(new.done) : Answer(new.done[i], op, subl[i], subr[i])'
  <2> SUFFICES ASSUME NEW i \in 1 .. Len(new.done)
               PROVE  Answer(new.done[i], op, subl[i], subr[i])'
    OBVIOUS
  <2>1. CASE i \in 1 .. Len(fr.done)
    BY <1>2, <1>6, <1>9, <2>1 DEF FrameInv
  <2>2. CASE i = Len(fr.done) + 1
    BY <1>6, <1>8, <2>2 DEF Calls
  <2>. QED
    BY <1>3, <1>6, <2>1, <2>2
<1>. QED
  BY <1>1, <1>4, <1>7, <1>9, <1>10, <1>11 DEF FrameInv, IsTerminal

(* Facts about the sequence of activations. *)
LEMMA StackTypes ==
  ASSUME CallOK, ~ Idle
  PROVE  /\ call.op \in Op /\ call.fac \in DOMAIN factories
         /\ factories[call.fac] = OpResult(call.op)
         /\ stack \in Seq(Activation(call.op))
         /\ Len(stack) \in Nat \ {0}
         /\ DOMAIN stack = 1 .. Len(stack)
         /\ Top = stack[Len(stack)]
         /\ Top \in Activation(call.op)
<1>1. /\ call.op \in Op /\ call.fac \in DOMAIN factories
      /\ factories[call.fac] = OpResult(call.op)
      /\ stack \in Seq(Activation(call.op))
      /\ stack # <<>>
  BY DEF CallOK, Idle
<1>. QED
  BY <1>1 DEF Top

(* What the client has stays as it was while the heap grows. *)
LEMMA ClientStable ==
  ASSUME HeapGrows, ClientOK, OutcomeInv,
         UNCHANGED <<factories, registry, held, outcome, calls>>
  PROVE  ClientOK' /\ OutcomeInv'
<1>1. held' \subseteq Evmdd'
  BY GrowthOfEvmdd DEF ClientOK
<1>2. CASE outcome.status = "returned"
  <2>1. PICK op, l, r, e :
          /\ op \in Op
          /\ op = outcome.op /\ l = outcome.l /\ r = outcome.r /\ e = outcome.result
          /\ l \in EvmddOf(OpLeft(op)) /\ r \in EvmddOf(OpRight(op)) /\ e \in EvmddOf(OpResult(op))
    BY <1>2 DEF ClientOK
  <2>2. /\ l \in EvmddOf(OpLeft(op))' /\ r \in EvmddOf(OpRight(op))'
        /\ e \in EvmddOf(OpResult(op))'
    BY <2>1, GrowthOfTypes
  <2>3. Answer(e, op, l, r)
    BY <1>2, <2>1 DEF OutcomeInv
  <2>4. Answer(e, op, l, r)'
    BY <2>1, <2>3, AnswerStable DEF EvmddOf
  <2>5. OutcomeInv'
    BY <2>1, <2>4 DEF OutcomeInv
  <2>6. ClientOK'
    BY <1>1, <1>2, <2>1, <2>2 DEF ClientOK
  <2>. QED
    BY <2>5, <2>6
<1>3. CASE outcome.status # "returned"
  BY <1>1, <1>3 DEF ClientOK, OutcomeInv
<1>. QED
  BY <1>2, <1>3

(* An activation that returns an answer leaves the others as they should   *)
(* be, or gives the client the answer.                                     *)
LEMMA Returns ==
  ASSUME HeapOK, HeapGrows, CallOK, ClientOK, StackInv, OutcomeInv, ~ Idle,
         NEW op, op = call.op, NEW fr, fr = Top, NEW result,
         Answer(result, op, fr.l, fr.r)', Return(result),
         UNCHANGED <<factories, registry, calls>>
  PROVE  CallOK' /\ StackInv' /\ ClientOK' /\ OutcomeInv'
<1>1. /\ op \in Op /\ call.fac \in DOMAIN factories
      /\ factories[call.fac] = OpResult(op)
      /\ stack \in Seq(Activation(op))
      /\ Len(stack) \in Nat \ {0}
      /\ DOMAIN stack = 1 .. Len(stack)
      /\ fr = stack[Len(stack)] /\ fr \in Activation(op)
  BY StackTypes
<1>2. /\ \A i \in 1 .. Len(stack) : FrameInv(stack[i], op)
      /\ \A i \in 1 .. Len(stack) - 1 : Calls(stack[i], stack[i + 1])
  BY DEF StackInv
<1>3. CASE Len(stack) > 1
  <2>1. PICK n : n = Len(stack) - 1 /\ n \in Nat \ {0} /\ Len(stack) = n + 1
    BY <1>1, <1>3
  <2>2. PICK new : new = [stack[n] EXCEPT !.done = Append(@, result)]
    OBVIOUS
  <2>3. /\ stack' = [i \in 1 .. n |-> IF i < n THEN stack[i] ELSE new]
        /\ UNCHANGED <<call, held, outcome>>
    <3>1. Len(stack) # 1
      BY <1>1, <1>3
    <3>2. /\ stack' = [i \in 1 .. Len(stack) - 1 |->
                    IF i < Len(stack) - 1 THEN stack[i]
                    ELSE [stack[i] EXCEPT !.done = Append(@, result)]]
          /\ UNCHANGED <<call, held, outcome>>
      BY <1>1, <3>1 DEF Return
    <3>3. Len(stack) - 1 = n
      BY <2>1
    <3>4. /\ stack' = [i \in 1 .. n |-> IF i < n THEN stack[i]
                                       ELSE [stack[i] EXCEPT !.done = Append(@, result)]]
          /\ UNCHANGED <<call, held, outcome>>
      BY <3>2, <3>3, Zenon
    <3>5. \A i \in 1 .. n : (IF i < n THEN stack[i]
                             ELSE [stack[i] EXCEPT !.done = Append(@, result)])
                          = (IF i < n THEN stack[i] ELSE new)
      <4>1. \A i \in 1 .. n : ~ (i < n) => i = n
        BY <2>1
      <4>. QED
        BY <2>2, <4>1, Zenon
    <3>. QED
      BY <3>4, <3>5, Zenon
  <2>4. n \in 1 .. Len(stack) /\ n \in 1 .. Len(stack) - 1
    BY <2>1
  <2>5. FrameInv(stack[n], op) /\ Calls(stack[n], fr)
    BY <1>1, <1>2, <2>1, <2>4
  <2>6. FrameInv(new, op)'
    BY <1>1, <2>2, <2>5, FrameReturns
  <2>7. stack[n] \in Activation(op)
    BY <1>1, <2>4
  <2>8. new.l = stack[n].l /\ new.r = stack[n].r
    <3>1. stack[n] = [l |-> stack[n].l, r |-> stack[n].r, pc |-> stack[n].pc, done |-> stack[n].done]
      BY <2>7, FrameTypes
    <3>. QED
      BY <2>2, <3>1
  <2>9. /\ Len(stack') = n /\ stack' # <<>>
        /\ \A i \in 1 .. n : i # n => stack'[i] = stack[i]
        /\ stack'[n] = new
    <3>1. DOMAIN stack' = 1 .. n /\ n \in Nat /\ n \in 1 .. n /\ n # 0
      BY <2>1, <2>3
    <3>2. stack' \in Seq(Range(stack'))
      BY <2>1, <2>3 DEF Range
    <3>3. Len(stack') = n
      BY <3>1, <3>2
    <3>. QED
      BY <2>3, <3>1, <3>3
  <2>10. ASSUME NEW i \in 1 .. n, NEW x, x = stack'[i]
         PROVE  FrameInv(x, op)'
    <3>1. CASE i = n
      BY <2>6, <2>9, <2>10, <3>1
    <3>2. CASE i # n
      <4>1. x = stack[i] /\ i \in 1 .. Len(stack)
        BY <2>1, <2>9, <2>10, <3>2
      <4>2. FrameInv(x, op)
        BY <1>2, <4>1
      <4>. QED
        BY <1>1, <4>2, FrameStable
    <3>. QED
      BY <3>1, <3>2
  <2>11. ASSUME NEW i \in 1 .. n - 1, NEW x, x = stack'[i], NEW y, y = stack'[i + 1]
         PROVE  Calls(x, y)'
    <3>1. /\ x = stack[i] /\ i \in 1 .. Len(stack) /\ i \in 1 .. Len(stack) - 1
          /\ i + 1 \in 1 .. n /\ i + 1 \in 1 .. Len(stack)
      BY <2>1, <2>9, <2>11
    <3>2. Calls(x, stack[i + 1]) /\ x \in Activation(op)
      BY <1>1, <1>2, <3>1
    <3>3. PICK z : z = stack[i + 1]
      OBVIOUS
    <3>4. y.l = z.l /\ y.r = z.r
      BY <2>8, <2>9, <2>11, <3>1, <3>3
    <3>5. Calls(x, z)'
      BY <3>2, <3>3, CallsStable
    <3>. QED
      BY <3>4, <3>5 DEF Calls
  <2>12. StackInv'
    BY <1>1, <2>3, <2>9, <2>10, <2>11 DEF StackInv
  <2>13. CallOK'
    <3>1. \A i \in 1 .. n : stack'[i] \in Activation(op)'
      <4> SUFFICES ASSUME NEW i \in 1 .. n, NEW x, x = stack'[i]
                   PROVE  x \in Activation(op)'
        OBVIOUS
      <4>. QED
        BY <2>10 DEF FrameInv
    <3>2. stack' \in Seq(Activation(op)')
      BY <2>1, <2>3, <2>9, <3>1
    <3>. QED
      BY <1>1, <2>3, <3>2 DEF CallOK
  <2>. QED
    BY <2>3, <2>12, <2>13, ClientStable
<1>4. CASE Len(stack) = 1
  <2>1. /\ stack' = <<>>
        /\ held' = held \cup {result}
        /\ outcome' = [status |-> "returned", op |-> op, fac |-> call.fac,
                       l |-> fr.l, r |-> fr.r, result |-> result]
    BY <1>1, <1>4 DEF Return
  <2>2. CallOK' /\ StackInv'
    BY <2>1 DEF CallOK, StackInv, Idle
  <2>3. fr.l \in EvmddOf(OpLeft(op))' /\ fr.r \in EvmddOf(OpRight(op))'
    BY <1>1, FrameTypes, GrowthOfTypes
  <2>4. result \in EvmddOf(OpResult(op))'
    BY DEF Answer
  <2>5. held' \subseteq Evmdd'
    <3>1. result \in Evmdd'
      BY <1>1, <2>4, OpAssumption DEF Evmdd, EvmddOf
    <3>. QED
      BY <2>1, <3>1, GrowthOfEvmdd DEF ClientOK
  <2>6. ClientOK'
    BY <1>1, <2>1, <2>3, <2>4, <2>5 DEF ClientOK
  <2>7. OutcomeInv'
    BY <2>1 DEF OutcomeInv
  <2>. QED
    BY <2>2, <2>6, <2>7
<1>. QED
  BY <1>1, <1>3, <1>4

----------------------------------------------------------------------------
(* The steps of apply. *)

(* Different operators have different types. *)
OpTypesDistinct == \A op1, op2 \in Op : OpType(op1) = OpType(op2) => op1 = op2

(* A step that leaves factories, tables and heap alone keeps what is said of them. *)
LEMMA SameStore ==
  ASSUME HeapOK, StoreInv, ValueExists, UNCHANGED <<factories, id_cache, heap>>
  PROVE  HeapGrows /\ HeapOK' /\ StoreInv' /\ ValueExists'
BY SameHeap DEF HeapOK, StoreInv, Node, Pointer, TerminalOf, IsTerminal

(* A step that leaves the cache alone keeps it sound while the heap grows. *)
LEMMA CacheKeeps ==
  ASSUME HeapGrows, CacheInv, UNCHANGED evmdd_cache
  PROVE  CacheInv'
<1> SUFFICES ASSUME NEW entry \in DOMAIN evmdd_cache, NEW e, e = evmdd_cache[entry]
             PROVE  \E op \in Op :
                      /\ entry \in ({OpType(op)} \X EvmddOf(OpLeft(op)) \X EvmddOf(OpRight(op)))'
                      /\ Answer(e, op, entry[2], entry[3])'
  BY DEF CacheInv
<1>. QED
  BY CacheStable

(* The store holds the terminal node of every factory. *)
LEMMA TerminalStored ==
  ASSUME HeapOK, StoreInv, NEW f \in DOMAIN factories
  PROVE  /\ TerminalOf(f) \in DOMAIN heap
         /\ TerminalOf(f).kind = factories[f]
         /\ IsTerminal(TerminalOf(f))
         /\ heap[TerminalOf(f)].level = 0
<1>1. TerminalOf(f) \in DOMAIN heap
  BY DEF HeapOK, StoreInv
<1>2. TerminalOf(f).kind = factories[f] /\ IsTerminal(TerminalOf(f))
  BY DEF TerminalOf, IsTerminal
<1>. QED
  BY <1>1, <1>2, Levels

(* The terminal case of apply keeps the invariant. *)
LEMMA TerminalCaseStep ==
  ASSUME Invariant, TerminalCase
  PROVE  Invariant' /\ HeapGrows
<1>1. /\ HeapOK /\ StoreInv /\ ValueExists /\ CacheInv /\ CallOK /\ StackInv
      /\ ClientOK /\ OutcomeInv
  BY DEF Invariant
<1>2. PICK op, fr, result :
        /\ op = call.op /\ fr = Top
        /\ result = [src |-> TerminalOf(call.fac), input |-> OpFun(op, fr.l.input, fr.r.input)]
  OBVIOUS
<1>3. /\ ~ Idle /\ IsTerminal(fr.l.src) /\ IsTerminal(fr.r.src)
      /\ OpDefined(op, fr.l.input, fr.r.input)
      /\ Return(result)
      /\ UNCHANGED <<factories, id_cache, registry, heap, evmdd_cache, calls>>
  BY <1>2 DEF TerminalCase, BothTerminal
<1>4. HeapGrows /\ HeapOK' /\ StoreInv' /\ ValueExists'
  BY <1>1, <1>3, SameStore
<1>5. CacheInv'
  BY <1>1, <1>3, <1>4, CacheKeeps
<1>6. /\ op \in Op /\ call.fac \in DOMAIN factories /\ factories[call.fac] = OpResult(op)
      /\ fr \in Activation(op)
      /\ fr.l \in EvmddOf(OpLeft(op)) /\ fr.r \in EvmddOf(OpRight(op))
      /\ OpLeft(op) \in Kind /\ OpRight(op) \in Kind /\ OpResult(op) \in Kind
  BY <1>1, <1>2, <1>3, StackTypes, FrameTypes, OpAssumption
<1>7. fr.l \in Evmdd /\ fr.r \in Evmdd /\ fr.l.src \in DOMAIN heap /\ fr.r.src \in DOMAIN heap
      /\ fr.l.input \in Carrier(OpLeft(op)) /\ fr.r.input \in Carrier(OpRight(op))
  BY <1>6, Fields
<1>8. result \in EvmddOf(OpResult(op))
  <2>1. OpFun(op, fr.l.input, fr.r.input) \in Carrier(OpResult(op))
    BY <1>3, <1>6, <1>7, OpAssumption
  <2>. QED
    BY <1>1, <1>2, <1>6, <2>1, TerminalStored DEF EvmddOf
<1>9. result \in Evmdd /\ IsTerminal(result.src) /\ LevelOf(result) = 0
  BY <1>1, <1>2, <1>6, <1>8, Fields, TerminalStored DEF LevelOf
<1>10. Answer(result, op, fr.l, fr.r)
  <2>1. LevelOf(result) <= RootLevel(fr.l, fr.r)
    <3>1. LevelOf(fr.l) \in 0 .. NumLevels /\ LevelOf(fr.r) \in 0 .. NumLevels
      BY <1>1, <1>7, Levels DEF LevelOf
    <3>. QED
      BY <1>9, <3>1, DomainSizes DEF RootLevel
  <2>2. ASSUME NEW s \in State, NEW V, IsValue(V, s)
        PROVE  Correct(V, result, op, fr.l, fr.r)
    <3>1. V[result] = result.input /\ V[fr.l] = fr.l.input /\ V[fr.r] = fr.r.input
      BY <1>3, <1>7, <1>9, <2>2 DEF IsValue, StepValue
    <3>. QED
      BY <1>2, <1>3, <3>1 DEF Correct
  <2>. QED
    BY <1>8, <2>1, <2>2 DEF Answer
<1>11. Answer(result, op, fr.l, fr.r)'
  BY <1>4, <1>7, <1>10, AnswerStable
<1>12. CallOK' /\ StackInv' /\ ClientOK' /\ OutcomeInv'
  BY <1>1, <1>2, <1>3, <1>4, <1>11, Returns
<1>. QED
  BY <1>4, <1>5, <1>12 DEF Invariant

(* An exception of the operator keeps it: nothing is left to repair. *)
LEMMA TerminalThrowStep ==
  ASSUME Invariant, TerminalThrow
  PROVE  Invariant' /\ HeapGrows
<1>1. /\ HeapOK /\ StoreInv /\ ValueExists /\ CacheInv /\ ClientOK
  BY DEF Invariant
<1>2. /\ stack' = <<>> /\ outcome' = [status |-> "threw"]
      /\ UNCHANGED <<factories, id_cache, registry, heap, evmdd_cache, held, calls>>
  BY DEF TerminalThrow
<1>3. HeapGrows /\ HeapOK' /\ StoreInv' /\ ValueExists'
  BY <1>1, <1>2, SameStore
<1>4. CacheInv'
  BY <1>1, <1>2, <1>3, CacheKeeps
<1>5. CallOK' /\ StackInv'
  BY <1>2 DEF CallOK, StackInv, Idle
<1>6. held' \subseteq Evmdd'
  BY <1>1, <1>2, <1>3, GrowthOfEvmdd DEF ClientOK
<1>7. ClientOK' /\ OutcomeInv'
  BY <1>1, <1>2, <1>6 DEF ClientOK, OutcomeInv
<1>. QED
  BY <1>3, <1>4, <1>5, <1>7 DEF Invariant

(* An answer from the cache keeps it, if a C++ type is one operator. *)
LEMMA CacheHitStep ==
  ASSUME Invariant, CacheHit, OpTypesDistinct
  PROVE  Invariant' /\ HeapGrows
<1>1. /\ HeapOK /\ StoreInv /\ ValueExists /\ CacheInv /\ CallOK /\ StackInv
      /\ ClientOK /\ OutcomeInv
  BY DEF Invariant
<1>2. PICK op, fr, key, result :
        op = call.op /\ fr = Top /\ key = CacheKey /\ result = evmdd_cache[key]
  OBVIOUS
<1>3. /\ ~ Idle
      /\ key = <<OpType(op), fr.l, fr.r>> /\ key \in DOMAIN evmdd_cache
      /\ Return(result)
      /\ UNCHANGED <<factories, id_cache, registry, heap, evmdd_cache, calls>>
  BY <1>2 DEF CacheHit, CacheKey
<1>4. HeapGrows /\ HeapOK' /\ StoreInv' /\ ValueExists'
  BY <1>1, <1>3, SameStore
<1>5. CacheInv'
  BY <1>1, <1>3, <1>4, CacheKeeps
<1>6. op \in Op
  BY <1>1, <1>2, <1>3, StackTypes
<1>7. Answer(result, op, fr.l, fr.r)'
  <2>1. PICK o \in Op :
          /\ key \in ({OpType(o)} \X EvmddOf(OpLeft(o)) \X EvmddOf(OpRight(o)))'
          /\ Answer(result, o, key[2], key[3])'
    BY <1>1, <1>2, <1>3, <1>4, CacheStable
  <2>2. o = op
    BY <1>3, <1>6, <2>1 DEF OpTypesDistinct
  <2>3. key[2] = fr.l /\ key[3] = fr.r
    BY <1>3
  <2>. QED
    BY <2>1, <2>2, <2>3
<1>8. CallOK' /\ StackInv' /\ ClientOK' /\ OutcomeInv'
  BY <1>1, <1>2, <1>3, <1>4, <1>7, Returns
<1>. QED
  BY <1>4, <1>5, <1>8 DEF Invariant

(* Starting on the children keeps it. *)
LEMMA CacheMissStep ==
  ASSUME Invariant, CacheMiss
  PROVE  Invariant' /\ HeapGrows
<1>1. /\ HeapOK /\ StoreInv /\ ValueExists /\ CacheInv /\ CallOK /\ StackInv
      /\ ClientOK /\ OutcomeInv
  BY DEF Invariant
<1>2. PICK op, fr, n, new :
        /\ op = call.op /\ fr = Top /\ n = Len(stack)
        /\ new = [fr EXCEPT !.pc = "children"]
  OBVIOUS
<1>3. /\ ~ Idle /\ ~ (IsTerminal(fr.l.src) /\ IsTerminal(fr.r.src)) /\ fr.pc = "enter"
      /\ stack' = [stack EXCEPT ![n].pc = "children"]
      /\ UNCHANGED <<factories, id_cache, registry, heap, evmdd_cache, call, held, outcome, calls>>
  BY <1>2 DEF CacheMiss, BothTerminal
<1>4. HeapGrows /\ HeapOK' /\ StoreInv' /\ ValueExists'
  BY <1>1, <1>3, SameStore
<1>5. CacheInv'
  BY <1>1, <1>3, <1>4, CacheKeeps
<1>6. ClientOK' /\ OutcomeInv'
  BY <1>1, <1>3, <1>4, ClientStable
<1>7. /\ op \in Op /\ OpLeft(op) \in Kind /\ OpRight(op) \in Kind
      /\ stack \in Seq(Activation(op)) /\ n \in Nat \ {0} /\ DOMAIN stack = 1 .. n
      /\ fr = stack[n] /\ fr \in Activation(op)
      /\ fr.l \in EvmddOf(OpLeft(op)) /\ fr.r \in EvmddOf(OpRight(op))
  BY <1>1, <1>2, <1>3, StackTypes, FrameTypes, OpAssumption
<1>8. /\ Len(stack') = n /\ stack' # <<>>
      /\ \A i \in 1 .. n : i # n => stack'[i] = stack[i]
      /\ stack'[n] = new
  BY <1>2, <1>3, <1>7
<1>9. FrameInv(fr, op)
  BY <1>1, <1>2, <1>7 DEF StackInv
<1>10. /\ fr = [l |-> fr.l, r |-> fr.r, pc |-> fr.pc, done |-> fr.done]
       /\ fr.done \in Seq(EvmddOf(OpResult(op))) /\ fr.done = <<>>
  BY <1>3, <1>7, <1>9, FrameTypes DEF FrameInv
<1>11. new.l = fr.l /\ new.r = fr.r /\ new.pc = "children" /\ new.done = <<>>
       /\ new = [l |-> fr.l, r |-> fr.r, pc |-> "children", done |-> <<>>]
  BY <1>2, <1>10
<1>12. new \in Activation(op)
  BY <1>7, <1>10, <1>11 DEF Activation
<1>13. FrameInv(new, op)
  <2>1. Len(sub_evmdds(fr.l, fr.r)) \in Nat
    BY <1>1, <1>3, <1>7, Subs
  <2>. QED
    BY <1>3, <1>11, <1>12, <2>1 DEF FrameInv
<1>14. ASSUME NEW i \in 1 .. n, NEW x, x = stack'[i]
       PROVE  FrameInv(x, op)'
  <2>1. CASE i = n
    BY <1>1, <1>4, <1>7, <1>8, <1>13, <1>14, <2>1, FrameStable
  <2>2. CASE i # n
    <3>1. FrameInv(x, op)
      BY <1>1, <1>2, <1>8, <1>14, <2>2 DEF StackInv
    <3>. QED
      BY <1>1, <1>4, <1>7, <3>1, FrameStable
  <2>. QED
    BY <2>1, <2>2
<1>15. ASSUME NEW i \in 1 .. n - 1, NEW x, x = stack'[i], NEW y, y = stack'[i + 1]
       PROVE  Calls(x, y)'
  <2>1. PICK z : z = stack[i + 1]
    OBVIOUS
  <2>2. x = stack[i] /\ i \in 1 .. n /\ i + 1 \in 1 .. n
    BY <1>7, <1>8, <1>15
  <2>3. Calls(x, z)
    BY <1>1, <1>2, <2>1, <2>2 DEF StackInv
  <2>4. y.l = z.l /\ y.r = z.r
    BY <1>7, <1>8, <1>11, <1>15, <2>1, <2>2
  <2>5. Calls(x, z)'
    BY <1>4, <1>7, <2>2, <2>3, CallsStable
  <2>. QED
    BY <2>4, <2>5 DEF Calls
<1>16. StackInv'
  BY <1>2, <1>3, <1>8, <1>14, <1>15 DEF StackInv
<1>17. CallOK'
  <2>1. stack' \in Seq(Activation(op))
    BY <1>3, <1>7, <1>8, <1>12
  <2>2. Activation(op)' = Activation(op)
    BY <1>3 DEF Activation, EvmddOf
  <2>. QED
    BY <1>1, <1>2, <1>3, <1>7, <2>1, <2>2, StackTypes DEF CallOK
<1>. QED
  BY <1>4, <1>5, <1>6, <1>16, <1>17 DEF Invariant

(* A recursive call keeps it: its operands are children of the caller's. *)
LEMMA RecurseStep ==
  ASSUME Invariant, Recurse
  PROVE  Invariant' /\ HeapGrows
<1>1. /\ HeapOK /\ StoreInv /\ ValueExists /\ CacheInv /\ CallOK /\ StackInv
      /\ ClientOK /\ OutcomeInv
  BY DEF Invariant
<1>2. PICK op, fr, n, j, new :
        /\ op = call.op /\ fr = Top /\ n = Len(stack) /\ j = Len(fr.done) + 1
        /\ new = Frame(sub_evmdds(fr.l, fr.r)[j], sub_evmdds(fr.r, fr.l)[j])
  OBVIOUS
<1>3. /\ ~ Idle /\ fr.pc = "children" /\ j <= Len(sub_evmdds(fr.l, fr.r))
      /\ stack' = Append(stack, new)
      /\ UNCHANGED <<factories, id_cache, registry, heap, evmdd_cache, call, held, outcome, calls>>
  BY <1>2 DEF Recurse
<1>4. HeapGrows /\ HeapOK' /\ StoreInv' /\ ValueExists'
  BY <1>1, <1>3, SameStore
<1>5. CacheInv'
  BY <1>1, <1>3, <1>4, CacheKeeps
<1>6. ClientOK' /\ OutcomeInv'
  BY <1>1, <1>3, <1>4, ClientStable
<1>7. /\ op \in Op /\ OpLeft(op) \in Kind /\ OpRight(op) \in Kind
      /\ stack \in Seq(Activation(op)) /\ n \in Nat \ {0} /\ DOMAIN stack = 1 .. n
      /\ fr = stack[n] /\ fr \in Activation(op)
      /\ fr.l \in EvmddOf(OpLeft(op)) /\ fr.r \in EvmddOf(OpRight(op))
      /\ Len(fr.done) \in Nat
  BY <1>1, <1>2, <1>3, StackTypes, FrameTypes, OpAssumption
<1>8. FrameInv(fr, op)
  BY <1>1, <1>2, <1>7 DEF StackInv
<1>9. /\ sub_evmdds(fr.l, fr.r)[j] \in EvmddOf(OpLeft(op))
      /\ sub_evmdds(fr.r, fr.l)[j] \in EvmddOf(OpRight(op))
  <2>1. ~ (IsTerminal(fr.l.src) /\ IsTerminal(fr.r.src))
    BY <1>3, <1>8 DEF FrameInv
  <2>2. PICK d : d = DomainSize[RootLevel(fr.l, fr.r)]
    OBVIOUS
  <2>3. /\ d \in Nat /\ Len(sub_evmdds(fr.l, fr.r)) = d
        /\ sub_evmdds(fr.l, fr.r) \in [1 .. d -> EvmddOf(OpLeft(op))]
        /\ RootLevel(fr.r, fr.l) = RootLevel(fr.l, fr.r)
    BY <1>1, <1>7, <2>1, <2>2, Subs
  <2>4. sub_evmdds(fr.r, fr.l) \in [1 .. d -> EvmddOf(OpRight(op))]
    BY <1>1, <1>7, <2>1, <2>2, <2>3, Subs
  <2>5. j \in 1 .. d
    BY <1>2, <1>3, <1>7, <2>3
  <2>. QED
    BY <2>3, <2>4, <2>5
<1>10. /\ new.l = sub_evmdds(fr.l, fr.r)[j] /\ new.r = sub_evmdds(fr.r, fr.l)[j]
       /\ new.pc = "enter" /\ new.done = <<>>
  BY <1>2 DEF Frame
<1>11. new \in Activation(op)
  BY <1>2, <1>9 DEF Frame, Activation
<1>12. FrameInv(new, op)
  BY <1>10, <1>11 DEF FrameInv
<1>13. Calls(fr, new)
  <2>1. Len(fr.done) < Len(sub_evmdds(fr.l, fr.r))
    <3>1. ~ (IsTerminal(fr.l.src) /\ IsTerminal(fr.r.src))
      BY <1>3, <1>8 DEF FrameInv
    <3>2. Len(sub_evmdds(fr.l, fr.r)) \in Nat
      BY <1>1, <1>7, <3>1, Subs
    <3>. QED
      BY <1>2, <1>3, <1>7, <3>2
  <2>. QED
    BY <1>2, <1>3, <1>10, <2>1 DEF Calls
<1>14. /\ Len(stack') = n + 1 /\ stack' # <<>>
       /\ \A i \in 1 .. n : stack'[i] = stack[i]
       /\ stack'[n + 1] = new
       /\ stack' \in Seq(Activation(op))
  BY <1>2, <1>3, <1>7, <1>11
<1>15. ASSUME NEW i \in 1 .. n + 1, NEW x, x = stack'[i]
       PROVE  FrameInv(x, op)'
  <2>1. FrameInv(x, op)
    <3>1. CASE i = n + 1
      BY <1>12, <1>14, <1>15, <3>1
    <3>2. CASE i \in 1 .. n
      BY <1>1, <1>2, <1>14, <1>15, <3>2 DEF StackInv
    <3>. QED
      BY <1>7, <3>1, <3>2
  <2>. QED
    BY <1>1, <1>4, <1>7, <2>1, FrameStable
<1>16. ASSUME NEW i \in 1 .. n, NEW x, x = stack'[i], NEW y, y = stack'[i + 1]
       PROVE  Calls(x, y)'
  <2>1. x = stack[i] /\ x \in Activation(op)
    BY <1>7, <1>14, <1>16
  <2>2. Calls(x, y)
    <3>1. CASE i = n
      BY <1>7, <1>13, <1>14, <1>16, <2>1, <3>1
    <3>2. CASE i # n
      <4>1. i \in 1 .. n - 1 /\ i + 1 \in 1 .. n
        BY <1>7, <3>2
      <4>2. y = stack[i + 1]
        BY <1>14, <1>16, <4>1
      <4>. QED
        BY <1>1, <1>2, <2>1, <4>1, <4>2 DEF StackInv
    <3>. QED
      BY <3>1, <3>2
  <2>. QED
    BY <1>4, <2>1, <2>2, CallsStable
<1>17. StackInv'
  <2>1. Len(stack') - 1 = n
    BY <1>7, <1>14
  <2>. QED
    BY <1>2, <1>3, <1>14, <1>15, <1>16, <2>1 DEF StackInv
<1>18. CallOK'
  <2>1. Activation(op)' = Activation(op)
    BY <1>3 DEF Activation, EvmddOf
  <2>. QED
    BY <1>1, <1>2, <1>3, <1>14, <2>1, StackTypes DEF CallOK
<1>. QED
  BY <1>4, <1>5, <1>6, <1>17, <1>18 DEF Invariant

(* What an activation has when all its recursive calls have returned. *)
LEMMA AllDone ==
  ASSUME HeapOK, NEW op \in Op, NEW fr, FrameInv(fr, op), fr.pc = "children",
         Len(fr.done) = Len(sub_evmdds(fr.l, fr.r)), NEW level, level = RootLevel(fr.l, fr.r)
  PROVE  /\ level \in Level
         /\ fr.done \in Offspring(OpResult(op), level)
         /\ \A s \in State : \A V : IsValue(V, s) => Correct(V, fr.done[s[level]], op, fr.l, fr.r)
<1>1. /\ fr.l \in EvmddOf(OpLeft(op)) /\ fr.r \in EvmddOf(OpRight(op))
      /\ OpLeft(op) \in Kind /\ OpRight(op) \in Kind
      /\ fr.done \in Seq(EvmddOf(OpResult(op)))
      /\ ~ (IsTerminal(fr.l.src) /\ IsTerminal(fr.r.src))
  BY FrameTypes, OpAssumption DEF FrameInv
<1>2. PICK d, subl, subr :
        d = DomainSize[level] /\ subl = sub_evmdds(fr.l, fr.r) /\ subr = sub_evmdds(fr.r, fr.l)
  OBVIOUS
<1>3. /\ level \in Level /\ d \in Nat \ {0}
      /\ Len(subl) = d
      /\ subl \in [1 .. d -> EvmddOf(OpLeft(op))]
      /\ \A i \in 1 .. d : LevelOf(subl[i]) < level
      /\ RootLevel(fr.r, fr.l) = level
  BY <1>1, <1>2, Subs
<1>4. /\ subr \in [1 .. d -> EvmddOf(OpRight(op))]
      /\ \A i \in 1 .. d : LevelOf(subr[i]) < level
  BY <1>1, <1>2, <1>3, Subs
<1>5. Len(fr.done) = d /\ fr.done \in [1 .. d -> EvmddOf(OpResult(op))]
  BY <1>1, <1>2, <1>3
<1>6. ASSUME NEW i \in 1 .. d
      PROVE  Answer(fr.done[i], op, subl[i], subr[i])
  BY <1>2, <1>5 DEF FrameInv
<1>7. ASSUME NEW i \in 1 .. d
      PROVE  LevelOf(fr.done[i]) < level
  <2>1. LevelOf(fr.done[i]) <= RootLevel(subl[i], subr[i])
    BY <1>6 DEF Answer
  <2>2. RootLevel(subl[i], subr[i]) < level
    BY <1>3, <1>4 DEF RootLevel
  <2>3. /\ LevelOf(subl[i]) \in 0 .. NumLevels
        /\ LevelOf(subr[i]) \in 0 .. NumLevels
        /\ LevelOf(fr.done[i]) \in 0 .. NumLevels
    BY <1>3, <1>4, <1>5, Levels DEF EvmddOf, LevelOf
  <2>. QED
    BY <2>1, <2>2, <2>3, <1>3, DomainSizes DEF RootLevel, Level
<1>8. fr.done \in Offspring(OpResult(op), level)
  BY <1>2, <1>5, <1>7 DEF Offspring
<1>9. ASSUME NEW s \in State, NEW V, IsValue(V, s)
      PROVE  Correct(V, fr.done[s[level]], op, fr.l, fr.r)
  <2>1. s[level] \in 1 .. d
    BY <1>2, <1>3, States
  <2>2. Correct(V, fr.done[s[level]], op, subl[s[level]], subr[s[level]])
    BY <1>6, <1>9, <2>1 DEF Answer
  <2>3. V[fr.l] = V[subl[s[level]]]
    BY <1>1, <1>2, <1>9, ValueOfSub
  <2>4. V[fr.r] = V[subr[s[level]]]
    BY <1>1, <1>2, <1>3, <1>9, ValueOfSub
  <2>. QED
    BY <2>2, <2>3, <2>4 DEF Correct
<1>. QED
  BY <1>3, <1>8, <1>9

(* Building the result, caching and returning it keeps it. *)
LEMMA CombineStep ==
  ASSUME Invariant, Combine, HashIsInjective
  PROVE  Invariant' /\ HeapGrows
<1>1. /\ HeapOK /\ StoreInv /\ ValueExists /\ CacheInv /\ CallOK /\ StackInv
      /\ ClientOK /\ OutcomeInv
  BY DEF Invariant
<1>2. PICK op, fr, fac, level, children, e, key :
        /\ op = call.op /\ fr = Top /\ fac = call.fac
        /\ level = RootLevel(fr.l, fr.r) /\ children = fr.done
        /\ e = Created(fac, level, children) /\ key = CacheKey
  OBVIOUS
<1>3. /\ ~ Idle /\ fr.pc = "children"
      /\ Len(children) = Len(sub_evmdds(fr.l, fr.r))
      /\ CreateEvmdd(fac, level, children)
      /\ evmdd_cache' = Put(evmdd_cache, key, e)
      /\ key = <<OpType(op), fr.l, fr.r>>
      /\ Return(e)
      /\ UNCHANGED <<factories, registry, calls>>
  BY <1>2 DEF Combine, CacheKey
<1>4. /\ op \in Op /\ fac \in DOMAIN factories /\ OpResult(op) = factories[fac]
      /\ fr \in Activation(op)
      /\ fr.l \in EvmddOf(OpLeft(op)) /\ fr.r \in EvmddOf(OpRight(op))
      /\ fr.l.src \in DOMAIN heap /\ fr.r.src \in DOMAIN heap
  BY <1>1, <1>2, <1>3, StackTypes, FrameTypes
<1>5. FrameInv(fr, op)
  BY <1>1, <1>2, <1>3, StackTypes DEF StackInv
<1>6. /\ level \in Level
      /\ children \in Offspring(OpResult(op), level)
      /\ \A s \in State : \A V : IsValue(V, s) => Correct(V, children[s[level]], op, fr.l, fr.r)
  BY <1>1, <1>2, <1>3, <1>4, <1>5, AllDone
<1>7. /\ HeapGrows /\ HeapOK' /\ StoreInv' /\ ValueExists'
      /\ e \in EvmddOf(OpResult(op))'
      /\ LevelOf(e)' <= level
      /\ \A s \in State : \A V : IsValue(V, s)' => V[e] = V[children[s[level]]]
  BY <1>1, <1>2, <1>3, <1>4, <1>6, Create
<1>8. Answer(e, op, fr.l, fr.r)'
  <2>1. RootLevel(fr.l, fr.r)' = level
    BY <1>2, <1>4, <1>7, StableSubs
  <2>2. ASSUME NEW s \in State, NEW V, IsValue(V, s)'
        PROVE  Correct(V, e, op, fr.l, fr.r)
    <3>1. IsValue(V, s)
      BY <1>7, <2>2, ValueOfOld
    <3>2. Correct(V, children[s[level]], op, fr.l, fr.r)
      BY <1>6, <3>1
    <3>. QED
      BY <1>7, <2>2, <3>2 DEF Correct
  <2>. QED
    BY <1>7, <2>1, <2>2 DEF Answer, Correct, State, Level, NumLevels
<1>9. CallOK' /\ StackInv' /\ ClientOK' /\ OutcomeInv'
  BY <1>1, <1>2, <1>3, <1>7, <1>8, Returns
<1>10. CacheInv'
  <2>1. /\ DOMAIN evmdd_cache' = DOMAIN evmdd_cache \cup {key}
        /\ evmdd_cache'[key] = e
        /\ \A entry \in DOMAIN evmdd_cache : entry # key => evmdd_cache'[entry] = evmdd_cache[entry]
    BY <1>3 DEF Put
  <2> SUFFICES ASSUME NEW entry \in DOMAIN evmdd_cache', NEW x, x = evmdd_cache'[entry]
               PROVE  \E o \in Op :
                        /\ entry \in ({OpType(o)} \X EvmddOf(OpLeft(o)) \X EvmddOf(OpRight(o)))'
                        /\ Answer(x, o, entry[2], entry[3])'
    BY DEF CacheInv
  <2>2. CASE entry = key
    <3>1. entry[2] = fr.l /\ entry[3] = fr.r /\ x = e
      BY <1>3, <2>1, <2>2
    <3>2. fr.l \in EvmddOf(OpLeft(op))' /\ fr.r \in EvmddOf(OpRight(op))'
      BY <1>4, <1>7, GrowthOfTypes
    <3>3. entry \in ({OpType(op)} \X EvmddOf(OpLeft(op)) \X EvmddOf(OpRight(op)))'
      BY <1>3, <2>2, <3>2
    <3>. QED
      BY <1>4, <1>8, <3>1, <3>3
  <2>3. CASE entry # key
    BY <1>1, <1>7, <2>1, <2>3, CacheStable
  <2>. QED
    BY <2>2, <2>3
<1>. QED
  BY <1>7, <1>9, <1>10 DEF Invariant

----------------------------------------------------------------------------
(* The steps of the client. *)

(* Without a call there is nothing to say of the stack. *)
LEMMA IdleStays ==
  ASSUME Idle, UNCHANGED stack
  PROVE  CallOK' /\ StackInv'
BY DEF Idle, CallOK, StackInv

(* A new factory, with an empty table but for its terminal node, keeps it. *)
LEMMA GetFactoryStep ==
  ASSUME Invariant, NEW kind \in Kind, NEW key \in Key, GetFactory(kind, key)
  PROVE  Invariant' /\ HeapGrows
<1>1. HeapOK /\ StoreInv /\ ValueExists /\ CacheInv /\ ClientOK
  BY DEF Invariant
<1>2. PICK f, terminal, table :
        /\ f = Len(factories) + 1 /\ terminal = [kind |-> kind, fac |-> f, id |-> 0]
        /\ table = [k \in {TerminalKey} |-> terminal]
  OBVIOUS
<1>3. /\ Idle
      /\ factories' = Append(factories, kind)
      /\ id_cache' = Put(id_cache, f, table)
      /\ heap' = Put(heap, terminal, TerminalNode)
      /\ registry' = Put(registry, <<kind, key>>, f)
      /\ outcome' = NoOutcome
      /\ UNCHANGED <<evmdd_cache, stack, call, held, calls>>
  BY <1>2 DEF GetFactory
<1>4. /\ factories \in Seq(Kind) /\ Len(factories) \in Nat
      /\ DOMAIN factories = 1 .. Len(factories)
      /\ DOMAIN id_cache = DOMAIN factories
      /\ f \in Nat \ {0} /\ f \notin DOMAIN factories
  BY <1>1, <1>2 DEF HeapOK
<1>5. /\ factories' \in Seq(Kind) /\ Len(factories') = f
      /\ DOMAIN factories' = DOMAIN factories \cup {f}
      /\ factories'[f] = kind
      /\ \A g \in DOMAIN factories : factories'[g] = factories[g]
  BY <1>2, <1>3, <1>4
<1>6. terminal \notin DOMAIN heap /\ IsTerminal(terminal) /\ terminal.kind = kind /\ terminal.fac = f
  <2>1. terminal.fac = f
    BY <1>2
  <2>2. \A p \in DOMAIN heap : p.fac \in DOMAIN factories
    BY <1>1, <1>4 DEF HeapOK, Pointer
  <2>. QED
    BY <1>2, <1>4, <2>1, <2>2 DEF IsTerminal
<1>7. /\ DOMAIN heap' = DOMAIN heap \cup {terminal}
      /\ heap'[terminal] = TerminalNode
      /\ \A p \in DOMAIN heap : heap'[p] = heap[p]
  BY <1>3, <1>6 DEF Put
<1>8. /\ DOMAIN id_cache' = DOMAIN id_cache \cup {f}
      /\ id_cache'[f] = table
      /\ \A g \in DOMAIN id_cache : id_cache'[g] = id_cache[g]
  BY <1>3, <1>4 DEF Put
<1>9. DOMAIN table = {TerminalKey} /\ table[TerminalKey] = terminal
  BY <1>2
<1>10. HeapGrows
  BY <1>7 DEF HeapGrows
<1>11. HeapOK'
  <2>1. \A g \in DOMAIN id_cache' : \A k \in DOMAIN id_cache'[g] :
          id_cache'[g][k] \in DOMAIN heap' /\ id_cache'[g][k].kind = factories'[g]
    <3> SUFFICES ASSUME NEW g \in DOMAIN id_cache', NEW k \in DOMAIN id_cache'[g]
                 PROVE  id_cache'[g][k] \in DOMAIN heap' /\ id_cache'[g][k].kind = factories'[g]
      OBVIOUS
    <3>1. CASE g = f
      BY <1>5, <1>6, <1>7, <1>8, <1>9, <3>1
    <3>2. CASE g # f
      BY <1>1, <1>4, <1>5, <1>7, <1>8, <3>2 DEF HeapOK
    <3>. QED
      BY <3>1, <3>2
  <2>2. DOMAIN heap' \subseteq Pointer'
    <3>1. Pointer \subseteq Pointer'
      BY <1>2, <1>4, <1>5 DEF Pointer
    <3>2. terminal \in Pointer'
      BY <1>2, <1>4, <1>5 DEF Pointer
    <3>. QED
      BY <1>1, <1>7, <3>1, <3>2 DEF HeapOK
  <2>3. ASSUME NEW p \in DOMAIN heap'
        PROVE  Node(p)'
    <3>1. CASE p = terminal
      BY <1>6, <1>7, <3>1 DEF Node, IsTerminal
    <3>2. CASE p # terminal
      <4>1. p \in DOMAIN heap /\ heap'[p] = heap[p]
        BY <1>7, <3>2
      <4>2. Node(p)
        BY <1>1, <4>1 DEF HeapOK
      <4>. QED
        BY <1>10, <4>1, <4>2, NodeStable
    <3>. QED
      BY <3>1, <3>2
  <2>. QED
    BY <1>4, <1>5, <1>8, <2>1, <2>2, <2>3 DEF HeapOK
<1>12. StoreInv'
  <2>1. ASSUME NEW g \in DOMAIN id_cache
        PROVE  /\ TerminalOf(g)' = TerminalOf(g)
               /\ \A k \in DOMAIN id_cache[g] : heap'[id_cache[g][k]] = heap[id_cache[g][k]]
               /\ id_cache'[g] = id_cache[g]
               /\ \A p \in DOMAIN heap' : p.fac = g => p \in DOMAIN heap
    <3>1. TerminalOf(g)' = TerminalOf(g)
      BY <1>4, <1>5 DEF TerminalOf
    <3>. QED
      BY <1>1, <1>4, <1>6, <1>7, <1>8, <3>1 DEF HeapOK
  <2>2. IsFiniteSet({TerminalKey}) /\ Cardinality({TerminalKey}) = 1
    BY FS_Singleton
  <2>3. \A p \in DOMAIN heap' : p.fac = f => p = terminal
    BY <1>1, <1>4, <1>7 DEF HeapOK, Pointer
  <2>4. terminal = TerminalOf(f)'
    BY <1>2, <1>5 DEF TerminalOf
  <2> SUFFICES ASSUME NEW g \in DOMAIN id_cache'
               PROVE  /\ TerminalKey \in DOMAIN id_cache'[g]
                      /\ id_cache'[g][TerminalKey] = TerminalOf(g)'
                      /\ \A k \in DOMAIN id_cache'[g] :
                           /\ id_cache'[g][k].fac = g
                           /\ k # TerminalKey =>
                                /\ ~ IsTerminal(id_cache'[g][k])
                                /\ k = Hash(heap'[id_cache'[g][k]].level,
                                            heap'[id_cache'[g][k]].children)
                      /\ IsFiniteSet(DOMAIN id_cache'[g])
                      /\ \A q \in DOMAIN heap' :
                           q.fac = g => q.id <= Cardinality(DOMAIN id_cache'[g])
    BY DEF StoreInv, IsTerminal
  <2>5. CASE g = f
    <3>1. terminal.id <= 1
      BY <1>2
    <3>. QED
      BY <1>6, <1>8, <1>9, <2>2, <2>3, <2>4, <2>5, <3>1
  <2>6. CASE g # f
    <3>1. g \in DOMAIN id_cache
      BY <1>8, <2>6
    <3>. QED
      BY <1>1, <2>1, <3>1 DEF StoreInv
  <2>. QED
    BY <2>5, <2>6
<1>13. ValueExists'
  BY <1>1, <1>6, <1>7, <1>10, <1>11, ValuesGrow
<1>14. CacheInv'
  BY <1>1, <1>3, <1>10, CacheKeeps
<1>15. CallOK' /\ StackInv'
  BY <1>3, IdleStays
<1>16. ClientOK' /\ OutcomeInv'
  <2>1. held' \subseteq Evmdd'
    BY <1>1, <1>3, <1>10, GrowthOfEvmdd DEF ClientOK
  <2>2. \A entry \in DOMAIN registry' :
          /\ entry \in Kind \X Key
          /\ registry'[entry] \in DOMAIN factories'
          /\ factories'[registry'[entry]] = entry[1]
    BY <1>1, <1>3, <1>5 DEF ClientOK, Put
  <2>. QED
    BY <1>1, <1>3, <2>1, <2>2 DEF ClientOK, OutcomeInv, NoOutcome
<1>. QED
  BY <1>10, <1>11, <1>12, <1>13, <1>14, <1>15, <1>16 DEF Invariant

(* Resetting the factories keeps it: the nodes stay on the heap. *)
LEMMA ResetStep ==
  ASSUME Invariant, NEW kind, Reset(kind)
  PROVE  Invariant' /\ HeapGrows
<1>1. HeapOK /\ StoreInv /\ ValueExists /\ CacheInv /\ ClientOK
  BY DEF Invariant
<1>2. /\ Idle
      /\ registry' = [entry \in {e \in DOMAIN registry : e[1] # kind} |-> registry[entry]]
      /\ outcome' = NoOutcome
      /\ UNCHANGED <<factories, id_cache, heap, evmdd_cache, stack, call, held, calls>>
  BY DEF Reset
<1>3. HeapGrows /\ HeapOK' /\ StoreInv' /\ ValueExists'
  BY <1>1, <1>2, SameStore
<1>4. CacheInv'
  BY <1>1, <1>2, <1>3, CacheKeeps
<1>5. CallOK' /\ StackInv'
  BY <1>2, IdleStays
<1>6. ClientOK' /\ OutcomeInv'
  <2>1. held' \subseteq Evmdd'
    BY <1>1, <1>2, <1>3, GrowthOfEvmdd DEF ClientOK
  <2>2. \A entry \in DOMAIN registry' :
          /\ entry \in Kind \X Key
          /\ registry'[entry] \in DOMAIN factories'
          /\ factories'[registry'[entry]] = entry[1]
    BY <1>1, <1>2 DEF ClientOK
  <2>. QED
    BY <1>1, <1>2, <2>1, <2>2 DEF ClientOK, OutcomeInv, NoOutcome
<1>. QED
  BY <1>3, <1>4, <1>5, <1>6 DEF Invariant

(* The client is given a diagram. *)
LEMMA Given ==
  ASSUME ClientOK, HeapGrows, NEW kind \in Kind, NEW e, e \in EvmddOf(kind)',
         held' = held \cup {e}, outcome' = NoOutcome, UNCHANGED <<factories, registry, calls>>
  PROVE  ClientOK' /\ OutcomeInv'
<1>1. e \in Evmdd'
  BY DEF Evmdd, EvmddOf
<1>2. held' \subseteq Evmdd'
  BY <1>1, GrowthOfEvmdd DEF ClientOK
<1>. QED
  BY <1>2 DEF ClientOK, OutcomeInv, NoOutcome

(* A factory that the registry has was constructed. *)
LEMMA LiveFactories ==
  ASSUME ClientOK, NEW f \in Live
  PROVE  f \in DOMAIN factories
BY DEF ClientOK, Live

(* Making the diagram of a constant keeps it. *)
LEMMA MakeConstStep ==
  ASSUME Invariant, NEW f \in Live, NEW w \in Carrier(factories[f]), MakeConst(f, w)
  PROVE  Invariant' /\ HeapGrows
<1>1. HeapOK /\ StoreInv /\ ValueExists /\ CacheInv /\ ClientOK
  BY DEF Invariant
<1>2. PICK e, kind : e = [src |-> TerminalOf(f), input |-> w] /\ kind = factories[f]
  OBVIOUS
<1>3. /\ Idle /\ held' = held \cup {e} /\ outcome' = NoOutcome
      /\ UNCHANGED <<factories, id_cache, registry, heap, evmdd_cache, stack, call, calls>>
  BY <1>2 DEF MakeConst
<1>4. f \in DOMAIN factories /\ kind \in Kind
  BY <1>1, <1>2, LiveFactories DEF HeapOK
<1>5. HeapGrows /\ HeapOK' /\ StoreInv' /\ ValueExists'
  BY <1>1, <1>3, SameStore
<1>6. e \in EvmddOf(kind)'
  <2>1. e \in EvmddOf(kind)
    BY <1>1, <1>2, <1>4, TerminalStored DEF EvmddOf
  <2>. QED
    BY <1>5, <2>1, GrowthOfTypes
<1>7. CacheInv'
  BY <1>1, <1>3, <1>5, CacheKeeps
<1>8. CallOK' /\ StackInv'
  BY <1>3, IdleStays
<1>9. ClientOK' /\ OutcomeInv'
  BY <1>1, <1>3, <1>4, <1>5, <1>6, Given
<1>. QED
  BY <1>5, <1>7, <1>8, <1>9 DEF Invariant

(* Making the diagram of a variable keeps it. *)
LEMMA MakeVarStep ==
  ASSUME Invariant, HashIsInjective, NEW f \in Live, NEW level \in Level,
         NEW values \in [1 .. DomainSize[level] -> Carrier(factories[f])],
         MakeVar(f, level, values)
  PROVE  Invariant' /\ HeapGrows
<1>1. HeapOK /\ StoreInv /\ ValueExists /\ CacheInv /\ ClientOK
  BY DEF Invariant
<1>2. PICK children, kind, t :
        /\ t = TerminalOf(f) /\ kind = factories[f]
        /\ children = [i \in DOMAIN values |-> [w |-> values[i], to |-> t]]
  OBVIOUS
<1>3. PICK e : e = [src |-> NodeAt(f, level, children), input |-> Neutral(kind)]
  OBVIOUS
<1>4. /\ Idle /\ held' = held \cup {e} /\ outcome' = NoOutcome
      /\ StoreNode(f, level, children)
      /\ UNCHANGED <<factories, registry, evmdd_cache, stack, call, calls>>
  BY <1>2, <1>3 DEF MakeVar
<1>5. f \in DOMAIN factories /\ kind \in Kind
  BY <1>1, <1>2, LiveFactories DEF HeapOK
<1>6. children \in EdgesFor(kind, level)
  <2>1. PICK nodes : nodes = {q \in DOMAIN heap : q.kind = kind}
    OBVIOUS
  <2>2. t \in nodes /\ heap[t].level = 0
    BY <1>1, <1>2, <1>5, <2>1, TerminalStored
  <2>3. children \in [1 .. DomainSize[level] -> [w : Carrier(kind), to : nodes]]
    BY <1>2, <2>2
  <2>4. \A i \in 1 .. DomainSize[level] : heap[children[i].to].level < level
    BY <1>2, <2>2, DomainSizes DEF Level
  <2>. QED
    BY <2>1, <2>3, <2>4 DEF EdgesFor
<1>7. /\ HeapGrows /\ HeapOK' /\ StoreInv' /\ ValueExists'
      /\ \E p \in DOMAIN heap' : p = NodeAt(f, level, children) /\ p.kind = kind
  <2>1. children \in EdgesFor(factories[f], level) /\ UNCHANGED factories
    BY <1>2, <1>4, <1>6
  <2>2. /\ HeapGrows /\ HeapOK' /\ StoreInv' /\ ValueExists'
        /\ \E p \in DOMAIN heap' :
             /\ p = NodeAt(f, level, children)
             /\ p.kind = factories[f]
             /\ ~ IsTerminal(p)
             /\ heap'[p].level = level
             /\ heap'[p].children = children
    BY <1>1, <1>4, <1>5, <2>1, MakeNode
  <2>. QED
    BY <1>2, <2>2
<1>8. e \in EvmddOf(kind)'
  BY <1>3, <1>5, <1>7, MonoidAssumption DEF EvmddOf
<1>9. CacheInv'
  BY <1>1, <1>4, <1>7, CacheKeeps
<1>10. CallOK' /\ StackInv'
  BY <1>4, IdleStays
<1>11. ClientOK' /\ OutcomeInv'
  BY <1>1, <1>4, <1>5, <1>7, <1>8, Given
<1>. QED
  BY <1>7, <1>9, <1>10, <1>11 DEF Invariant

(* Calling apply keeps it. *)
LEMMA ApplyStep ==
  ASSUME Invariant, NEW op \in Op, NEW f \in Live, NEW l \in held, NEW r \in held,
         Apply(op, f, l, r)
  PROVE  Invariant' /\ HeapGrows
<1>1. HeapOK /\ StoreInv /\ ValueExists /\ CacheInv /\ ClientOK
  BY DEF Invariant
<1>2. PICK fr : fr = Frame(l, r)
  OBVIOUS
<1>3. /\ calls < MaxCalls
      /\ factories[f] = OpResult(op) /\ l.src.kind = OpLeft(op) /\ r.src.kind = OpRight(op)
      /\ call' = [op |-> op, fac |-> f]
      /\ stack' = <<fr>>
      /\ calls' = calls + 1
      /\ outcome' = NoOutcome
      /\ UNCHANGED <<factories, id_cache, registry, heap, evmdd_cache, held>>
  BY <1>2 DEF Apply
<1>4. HeapGrows /\ HeapOK' /\ StoreInv' /\ ValueExists'
  BY <1>1, <1>3, SameStore
<1>5. CacheInv'
  BY <1>1, <1>3, <1>4, CacheKeeps
<1>6. l \in EvmddOf(OpLeft(op)) /\ r \in EvmddOf(OpRight(op))
  <2>1. l \in Evmdd /\ r \in Evmdd
    BY <1>1 DEF ClientOK
  <2>. QED
    BY <1>3, <2>1 DEF Evmdd, EvmddOf
<1>7. /\ fr.pc = "enter" /\ fr.done = <<>>
      /\ fr \in Activation(op)
  BY <1>2, <1>6 DEF Frame, Activation
<1>8. FrameInv(fr, op)'
  <2>1. FrameInv(fr, op)
    BY <1>7 DEF FrameInv
  <2>. QED
    BY <1>1, <1>4, <2>1, FrameStable
<1>9. Len(stack') = 1 /\ stack'[1] = fr /\ stack' \in Seq(Activation(op))
  BY <1>3, <1>7
<1>10. StackInv'
  BY <1>3, <1>8, <1>9 DEF StackInv
<1>11. CallOK'
  <2>1. Activation(op)' = Activation(op)
    BY <1>3 DEF Activation, EvmddOf
  <2>. QED
    BY <1>1, <1>3, <1>9, <2>1, LiveFactories DEF CallOK
<1>12. ClientOK' /\ OutcomeInv'
  <2>1. held' \subseteq Evmdd'
    BY <1>1, <1>3, <1>4, GrowthOfEvmdd DEF ClientOK
  <2>2. calls' \in 0 .. MaxCalls
    BY <1>1, <1>3, BoundAssumption DEF ClientOK
  <2>. QED
    BY <1>1, <1>3, <2>1, <2>2 DEF ClientOK, OutcomeInv, NoOutcome
<1>. QED
  BY <1>4, <1>5, <1>10, <1>11, <1>12 DEF Invariant

----------------------------------------------------------------------------
(* The theorems. *)

(* The invariant holds before any factory exists. *)
LEMMA InvariantHoldsInitially ==
  ASSUME Init
  PROVE  Invariant
<1>1. DOMAIN heap = {} /\ DOMAIN id_cache = {} /\ DOMAIN registry = {} /\ DOMAIN evmdd_cache = {}
      /\ DOMAIN factories = {} /\ factories \in Seq(Kind) /\ stack = <<>> /\ held = {}
      /\ outcome.status = "none" /\ calls = 0
  BY DEF Init, Empty, NoOutcome
<1>2. HeapOK /\ StoreInv
  BY <1>1 DEF HeapOK, StoreInv
<1>3. ValueExists
  <2>1. Evmdd = {}
    BY <1>1 DEF Evmdd, EvmddOf
  <2> SUFFICES ASSUME NEW s \in State
               PROVE  \E V : V = [e \in {} |-> StepValue(V, s, e)]
    BY <2>1 DEF ValueExists
  <2>2. PICK V : V = [e \in {} |-> e]
    OBVIOUS
  <2>3. V = [e \in {} |-> StepValue(V, s, e)]
    BY <2>2
  <2>. QED
    BY <2>3
<1>4. CacheInv
  BY <1>1 DEF CacheInv
<1>5. CallOK /\ StackInv
  BY <1>1 DEF CallOK, StackInv, Idle
<1>6. ClientOK /\ OutcomeInv
  BY <1>1, BoundAssumption DEF ClientOK, OutcomeInv
<1>. QED
  BY <1>2, <1>3, <1>4, <1>5, <1>6 DEF Invariant

(* Every step keeps the invariant, and nodes are only added to the heap. *)
LEMMA InvariantIsKept ==
  ASSUME HashIsInjective, OpTypesDistinct, Invariant, [Next]_vars
  PROVE  Invariant' /\ HeapGrows
<1>1. CASE UNCHANGED vars
  <2>1. /\ HeapOK /\ StoreInv /\ ValueExists /\ CacheInv /\ CallOK /\ StackInv
        /\ ClientOK /\ OutcomeInv
    BY DEF Invariant
  <2>2. UNCHANGED <<factories, id_cache, registry, heap, evmdd_cache, stack, call, held, outcome, calls>>
    BY <1>1 DEF vars
  <2>3. HeapGrows /\ HeapOK' /\ StoreInv' /\ ValueExists'
    BY <2>1, <2>2, SameStore
  <2>4. CacheInv' /\ ClientOK' /\ OutcomeInv'
    BY <2>1, <2>2, <2>3, CacheKeeps, ClientStable
  <2>5. CallOK' /\ StackInv'
    <3>1. CASE Idle
      BY <2>2, <3>1, IdleStays
    <3>2. CASE ~ Idle
      <4>1. PICK op \in Op : op = call.op /\ stack \in Seq(Activation(op)) /\ call.fac \in DOMAIN factories
                             /\ factories[call.fac] = OpResult(op)
        BY <2>1, <3>2, StackTypes
      <4>2. Activation(op)' = Activation(op)
        BY <2>2 DEF Activation, EvmddOf
      <4>3. CallOK'
        BY <2>2, <4>1, <4>2 DEF CallOK
      <4>4. ASSUME NEW i \in 1 .. Len(stack), NEW x, x = stack[i]
            PROVE  FrameInv(x, op)'
        BY <2>1, <2>3, <4>1, <4>4, FrameStable DEF StackInv
      <4>5. ASSUME NEW i \in 1 .. Len(stack) - 1, NEW x, x = stack[i], NEW y, y = stack[i + 1]
            PROVE  Calls(x, y)'
        <5>1. x \in Activation(op) /\ Calls(x, y)
          BY <2>1, <4>1, <4>5 DEF StackInv
        <5>. QED
          BY <2>3, <5>1, CallsStable
      <4>6. StackInv'
        BY <2>2, <4>1, <4>4, <4>5 DEF StackInv
      <4>. QED
        BY <4>3, <4>6
    <3>. QED
      BY <3>1, <3>2
  <2>. QED
    BY <2>3, <2>4, <2>5 DEF Invariant
<1>2. ASSUME NEW kind \in Kind, NEW key \in Key, GetFactory(kind, key)
      PROVE  Invariant' /\ HeapGrows
  BY <1>2, GetFactoryStep
<1>3. ASSUME NEW kind \in ResetKind, Reset(kind)
      PROVE  Invariant' /\ HeapGrows
  BY <1>3, ResetStep
<1>4. ASSUME NEW f \in Live, NEW c \in ConstInput, c.kind = factories[f], MakeConst(f, c.w)
      PROVE  Invariant' /\ HeapGrows
  BY <1>4, MakeConstStep, InputAssumption
<1>5. ASSUME NEW f \in Live, NEW v \in VarInput, v.kind = factories[f],
             MakeVar(f, v.level, v.values)
      PROVE  Invariant' /\ HeapGrows
  BY <1>5, MakeVarStep, InputAssumption
<1>6. ASSUME NEW op \in Op, NEW f \in Live, NEW l \in held, NEW r \in held, Apply(op, f, l, r)
      PROVE  Invariant' /\ HeapGrows
  BY <1>6, ApplyStep
<1>7. CASE Client
  BY <1>2, <1>3, <1>4, <1>5, <1>6, <1>7 DEF Client
<1>8. CASE Step
  BY <1>8, TerminalCaseStep, TerminalThrowStep, CacheHitStep, CacheMissStep, RecurseStep,
     CombineStep DEF Step
<1>. QED
  BY <1>1, <1>7, <1>8 DEF Next

(* The invariant contains the type invariant. *)
LEMMA InvariantImpliesTypeOK ==
  ASSUME Invariant
  PROVE  TypeOK
<1>1. HeapOK /\ CacheInv /\ CallOK /\ ClientOK
  BY DEF Invariant
<1>2. CacheOK
  BY <1>1 DEF CacheInv, CacheOK, Answer
<1>. QED
  BY <1>1, <1>2 DEF TypeOK

(* A right answer denotes the operation in every state. *)
LEMMA AnswersDenote ==
  ASSUME ValueExists, NEW e, NEW op, NEW l, NEW r, Answer(e, op, l, r)
  PROVE  Denotes(e, op, l, r)
<1> SUFFICES ASSUME NEW s \in State
             PROVE  /\ OpDefined(op, Value(s)[l], Value(s)[r])
                    /\ Value(s)[e] = OpFun(op, Value(s)[l], Value(s)[r])
  BY DEF Denotes
<1>1. PICK V : V = Value(s)
  OBVIOUS
<1>2. IsValue(V, s)
  BY <1>1, ValueIsValue
<1>. QED
  BY <1>1, <1>2 DEF Answer, Correct

(* The recursion of apply descends. *)
LEMMA StackDescends ==
  ASSUME HeapOK, CallOK, StackInv
  PROVE  RecursionDescends
<1> SUFFICES ASSUME NEW i \in 1 .. Len(stack) - 1
             PROVE  RootLevel(stack[i + 1].l, stack[i + 1].r) < RootLevel(stack[i].l, stack[i].r)
  BY DEF RecursionDescends
<1>1. ~ Idle
  BY DEF Idle
<1>2. PICK op, fr, next : op = call.op /\ fr = stack[i] /\ next = stack[i + 1]
  OBVIOUS
<1>3. /\ op \in Op /\ OpLeft(op) \in Kind /\ OpRight(op) \in Kind
      /\ FrameInv(fr, op) /\ Calls(fr, next)
  BY <1>1, <1>2, StackTypes, OpAssumption DEF StackInv
<1>4. /\ fr.l \in EvmddOf(OpLeft(op)) /\ fr.r \in EvmddOf(OpRight(op)) /\ Len(fr.done) \in Nat
      /\ ~ (IsTerminal(fr.l.src) /\ IsTerminal(fr.r.src))
  BY <1>3, FrameTypes DEF FrameInv, Calls
<1>5. PICK level, d : level = RootLevel(fr.l, fr.r) /\ d = DomainSize[level]
  OBVIOUS
<1>6. /\ d \in Nat /\ Len(sub_evmdds(fr.l, fr.r)) = d /\ RootLevel(fr.r, fr.l) = level
      /\ \A k \in 1 .. d : LevelOf(sub_evmdds(fr.l, fr.r)[k]) < level
  BY <1>1, <1>3, <1>4, <1>5, Subs
<1>7. \A k \in 1 .. d : LevelOf(sub_evmdds(fr.r, fr.l)[k]) < level
  BY <1>3, <1>4, <1>5, <1>6, Subs
<1>8. Len(fr.done) + 1 \in 1 .. d
  BY <1>3, <1>4, <1>6 DEF Calls
<1>9. LevelOf(next.l) < level /\ LevelOf(next.r) < level
  BY <1>3, <1>6, <1>7, <1>8 DEF Calls
<1>. QED
  BY <1>2, <1>5, <1>9 DEF RootLevel

(* The invariant holds throughout, provided that no two structures share a *)
(* key of the unique table and that operators have types of their own.     *)
THEOREM InvariantHolds ==
  ASSUME HashIsInjective, OpTypesDistinct
  PROVE  Spec => []Invariant
<1>1. Init => Invariant
  BY InvariantHoldsInitially
<1>2. Invariant /\ [Next]_vars => Invariant'
  BY InvariantIsKept
<1>. QED
  BY <1>1, <1>2, PTL DEF Spec

(* Type correctness: diagrams are well formed, ordered and acyclic, and    *)
(* every table, cache entry and activation refers to existing nodes of the *)
(* right kind.                                                             *)
THEOREM TypeCorrect ==
  ASSUME HashIsInjective, OpTypesDistinct
  PROVE  Spec => []TypeOK
<1>1. Invariant => TypeOK
  BY InvariantImpliesTypeOK
<1>. QED
  BY <1>1, InvariantHolds, PTL

(* Whatever the cache of computations holds is right, at every moment:     *)
(* between the steps of a call, after one that threw, and across resets.   *)
THEOREM CacheIsSound ==
  ASSUME HashIsInjective, OpTypesDistinct
  PROVE  Spec => []CacheSound
<1>1. ASSUME Invariant
      PROVE  CacheSound
  <2> SUFFICES ASSUME NEW op \in Op, NEW entry \in DOMAIN evmdd_cache, entry[1] = OpType(op)
               PROVE  Denotes(evmdd_cache[entry], op, entry[2], entry[3])
    BY DEF CacheSound
  <2>1. PICK o \in Op :
          /\ entry \in {OpType(o)} \X EvmddOf(OpLeft(o)) \X EvmddOf(OpRight(o))
          /\ Answer(evmdd_cache[entry], o, entry[2], entry[3])
    BY <1>1 DEF Invariant, CacheInv
  <2>2. o = op
    BY <2>1 DEF OpTypesDistinct
  <2>. QED
    BY <1>1, <2>1, <2>2, AnswersDenote DEF Invariant
<1>. QED
  BY <1>1, InvariantHolds, PTL

(* apply returns the diagram of `left op right'. *)
THEOREM ApplyIsPointwise ==
  ASSUME HashIsInjective, OpTypesDistinct
  PROVE  Spec => []ReturnsPointwise
<1>1. ASSUME Invariant
      PROVE  ReturnsPointwise
  BY <1>1, AnswersDenote DEF Invariant, OutcomeInv, ReturnsPointwise
<1>. QED
  BY <1>1, InvariantHolds, PTL

(* The recursion of apply descends from level to level. *)
THEOREM ApplyDescends ==
  ASSUME HashIsInjective, OpTypesDistinct
  PROVE  Spec => []RecursionDescends
<1>1. Invariant => RecursionDescends
  BY StackDescends DEF Invariant
<1>. QED
  BY <1>1, InvariantHolds, PTL
=============================================================================
