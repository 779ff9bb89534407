------------------------- MODULE QuasiReduce_proofs -------------------------
(***************************************************************************)
(* Proofs about quasi_reduce: the discipline of its recursion, that its    *)
(* result is quasi-reduced and denotes the function of its argument, and   *)
(* that reducing a diagram twice changes nothing more.                     *)
(*                                                                         *)
(* What the result is and what it denotes are statements about all nodes   *)
(* below a source node.  They are not proved by an induction over levels   *)
(* but kept as the nodes are made: a node stands for another one if they   *)
(* have the same value for every input, and a new node does so if its      *)
(* children do.                                                            *)
(***************************************************************************)
EXTENDS QuasiReduce, Refinement_proofs

----------------------------------------------------------------------------
(* Nodes below which all edges span one level. *)

(* One step of the definition of SpansOneLevel. *)
SpanStep(S, p) ==
  \A i \in DOMAIN heap[p].children :
    /\ heap[heap[p].children[i].to].level = heap[p].level - 1
    /\ S[heap[p].children[i].to]

AreSpans(S) == \A p \in DOMAIN heap : S[p] = SpanStep(S, p)

SpanExists == \E S : S = [p \in DOMAIN heap |-> SpanStep(S, p)]

QuasiNode(p) == \A S : AreSpans(S) => S[p]

LEMMA SpansAreSpans ==
  ASSUME SpanExists
  PROVE  AreSpans(SpansOneLevel)
<1> DEFINE P(S) == S = [p \in DOMAIN heap |->
                      \A i \in DOMAIN heap[p].children :
                        /\ heap[heap[p].children[i].to].level = heap[p].level - 1
                        /\ S[heap[p].children[i].to]]
<1>1. \E S : P(S)
  BY DEF SpanExists, SpanStep
<1>2. SpansOneLevel = CHOOSE S : P(S)
  BY DEF SpansOneLevel
<1>3. P(SpansOneLevel)
  BY <1>1, <1>2
<1>. QED
  BY <1>3 DEF AreSpans, SpanStep

(* The children of a node on the heap. *)
LEMMA NodeChildren ==
  ASSUME HeapOK, NEW p \in DOMAIN heap, ~ IsTerminal(p)
  PROVE  /\ heap[p].level \in Level /\ DomainSize[heap[p].level] \in Nat \ {0}
         /\ DOMAIN heap[p].children = 1 .. DomainSize[heap[p].level]
         /\ Len(heap[p].children) = DomainSize[heap[p].level]
         /\ p.kind \in Kind
         /\ \A i \in 1 .. DomainSize[heap[p].level] :
              /\ heap[p].children[i].w \in Carrier(p.kind)
              /\ heap[p].children[i].to \in DOMAIN heap
              /\ heap[p].children[i].to.kind = p.kind
              /\ heap[heap[p].children[i].to].level \in Int
              /\ heap[heap[p].children[i].to].level < heap[p].level
<1>1. Node(p) /\ p \in Pointer
  BY DEF HeapOK
<1>2. PICK n, c : n = DomainSize[heap[p].level] /\ c = heap[p].children
  OBVIOUS
<1>3. /\ heap[p].level \in Level
      /\ c \in [1 .. n -> [w : Carrier(p.kind), to : {q \in DOMAIN heap : q.kind = p.kind}]]
      /\ \A i \in DOMAIN c : heap[c[i].to].level < heap[p].level
  BY <1>1, <1>2 DEF Node
<1>4. n \in Nat \ {0}
  BY <1>2, <1>3, DomainSizes
<1>5. DOMAIN c = 1 .. n /\ Len(c) = n
  BY <1>3, <1>4
<1>6. p.kind \in Kind
  BY <1>1 DEF Pointer
<1>7. \A i \in 1 .. n : /\ c[i].w \in Carrier(p.kind) /\ c[i].to \in DOMAIN heap
                        /\ c[i].to.kind = p.kind
  BY <1>3
<1>8. \A i \in 1 .. n : heap[c[i].to].level \in Int
  BY <1>7, Levels, DomainSizes
<1>. QED
  BY <1>2, <1>3, <1>4, <1>5, <1>6, <1>7, <1>8

(* A terminal node has no edges. *)
LEMMA TerminalIsQuasi ==
  ASSUME HeapOK, NEW p \in DOMAIN heap, IsTerminal(p)
  PROVE  QuasiNode(p)
<1>1. heap[p].children = <<>>
  BY DEF HeapOK, Node, TerminalNode
<1>2. DOMAIN heap[p].children = {}
  BY <1>1
<1>. QED
  BY <1>2 DEF QuasiNode, AreSpans, SpanStep

(* The children of an old node are old. *)
LEMMA OldChildren ==
  ASSUME HeapOK, NEW p \in DOMAIN heap
  PROVE  \A i \in DOMAIN heap[p].children : heap[p].children[i].to \in DOMAIN heap
<1>1. CASE IsTerminal(p)
  BY <1>1 DEF HeapOK, Node, TerminalNode
<1>2. CASE ~ IsTerminal(p)
  BY <1>2, NodeChildren
<1>. QED
  BY <1>1, <1>2

LEMMA SpansOfOld ==
  ASSUME HeapOK, HeapGrows, NEW S, AreSpans(S)'
  PROVE  AreSpans(S)
<1> SUFFICES ASSUME NEW p \in DOMAIN heap
             PROVE  S[p] = SpanStep(S, p)
  BY DEF AreSpans
<1>1. S[p] = SpanStep(S, p)'
  BY DEF AreSpans, HeapGrows
<1>2. SpanStep(S, p)' = SpanStep(S, p)
  BY OldChildren DEF SpanStep, HeapGrows
<1>. QED
  BY <1>1, <1>2

LEMMA QuasiStable ==
  ASSUME HeapOK, HeapGrows, NEW p, QuasiNode(p)
  PROVE  QuasiNode(p)'
BY SpansOfOld DEF QuasiNode

(* A node is quasi-reduced if its children are and lie on the next level. *)
LEMMA QuasiParent ==
  ASSUME NEW p \in DOMAIN heap,
         \A i \in DOMAIN heap[p].children :
           /\ heap[heap[p].children[i].to].level = heap[p].level - 1
           /\ QuasiNode(heap[p].children[i].to)
  PROVE  QuasiNode(p)
BY DEF QuasiNode, AreSpans, SpanStep

(* SpansOneLevel stays well defined while nodes are added one by one. *)
LEMMA SpanStaysDefined ==
  ASSUME HeapOK, HeapOK', HeapGrows, SpanExists,
         NEW p, DOMAIN heap' \subseteq DOMAIN heap \cup {p}
  PROVE  SpanExists'
<1>1. PICK S : S = [q \in DOMAIN heap |-> SpanStep(S, q)]
  BY DEF SpanExists
<1>2. PICK W : W = [q \in DOMAIN heap' |-> IF q \in DOMAIN heap THEN S[q] ELSE SpanStep(S, q)']
  OBVIOUS
<1>3. \A q \in DOMAIN heap : q \in DOMAIN heap' /\ W[q] = S[q]
  BY <1>2 DEF HeapGrows
<1>4. ASSUME NEW q \in DOMAIN heap'
      PROVE  W[q] = SpanStep(W, q)'
  <2>1. \A i \in DOMAIN heap'[q].children : heap'[q].children[i].to \in DOMAIN heap
    <3>1. CASE q \in DOMAIN heap
      BY <3>1, OldChildren DEF HeapGrows
    <3>2. CASE q = p /\ IsTerminal(q)
      BY <3>2 DEF HeapOK, Node, IsTerminal, TerminalNode
    <3>3. CASE q = p /\ ~ IsTerminal(q)
      <4>1. Node(q)'
        BY DEF HeapOK
      <4>2. PICK l, c : l = heap'[q].level /\ c = heap'[q].children
        OBVIOUS
      <4>3. /\ l \in Level
            /\ c \in [1 .. DomainSize[l] -> [w : Carrier(q.kind), to : {x \in DOMAIN heap' : x.kind = q.kind}]]
            /\ \A i \in DOMAIN c : heap'[c[i].to].level < l
        BY <3>3, <4>1, <4>2 DEF Node, IsTerminal, Level, NumLevels
      <4>4. ~ (l < l)
        BY <4>3, DomainSizes DEF Level
      <4>5. ASSUME NEW i \in DOMAIN c
            PROVE  c[i].to \in DOMAIN heap
        <5>1. c[i].to \in DOMAIN heap' /\ heap'[c[i].to].level < l
          BY <4>3
        <5>2. c[i].to # q
          BY <4>2, <4>4, <5>1
        <5>. QED
          BY <3>3, <5>1, <5>2
      <4>. QED
        BY <4>2, <4>5
    <3>. QED
      BY <3>1, <3>2, <3>3
  <2>2. SpanStep(W, q)' = SpanStep(S, q)'
    BY <1>3, <2>1 DEF SpanStep
  <2>3. CASE q \in DOMAIN heap
    <3>1. SpanStep(S, q)' = SpanStep(S, q)
      BY <2>3, OldChildren DEF SpanStep, HeapGrows
    <3>. QED
      BY <1>1, <1>3, <2>2, <2>3, <3>1
  <2>4. CASE q \notin DOMAIN heap
    BY <1>2, <2>2, <2>4
  <2>. QED
    BY <2>3, <2>4
<1>5. W = [q \in DOMAIN heap' |-> SpanStep(W, q)']
  BY <1>2, <1>4
<1>. QED
  BY <1>5 DEF SpanExists

----------------------------------------------------------------------------
(* Nodes that stand for others. *)

(* With the same input, p and q are the same function. *)
SameNode(p, q) ==
  \A s \in State : \A V : IsValue(V, s) =>
    \A w \in Carrier(p.kind) : V[[src |-> p, input |-> w]] = V[[src |-> q, input |-> w]]

StandsFor(q, p) ==
  /\ p \in DOMAIN heap /\ q \in DOMAIN heap /\ q.kind = p.kind
  /\ SameNode(p, q) /\ QuasiNode(q)

LEMMA StandsForStable ==
  ASSUME HeapOK, HeapGrows, NEW p, NEW q, StandsFor(q, p)
  PROVE  StandsFor(q, p)'
<1>1. State' = State
  BY DEF State, Level, NumLevels
<1>2. SameNode(p, q)'
  BY <1>1, ValueOfOld DEF StandsFor, SameNode
<1>. QED
  BY <1>2, QuasiStable DEF StandsFor, HeapGrows

LEMMA TerminalStands ==
  ASSUME HeapOK, NEW p \in DOMAIN heap, IsTerminal(p)
  PROVE  StandsFor(p, p)
BY TerminalIsQuasi DEF StandsFor, SameNode

(* The value of a diagram is that of its sub-diagram. *)
LEMMA ValueOfEdge ==
  ASSUME HeapOK, NEW p \in DOMAIN heap, ~ IsTerminal(p), NEW w \in Carrier(p.kind),
         NEW s \in State, NEW V, IsValue(V, s)
  PROVE  LET edge == heap[p].children[s[heap[p].level]]
         IN  /\ s[heap[p].level] \in 1 .. DomainSize[heap[p].level]
             /\ Plus(p.kind, w, edge.w) \in Carrier(p.kind)
             /\ V[[src |-> p, input |-> w]] = V[[src |-> edge.to, input |-> Plus(p.kind, w, edge.w)]]
<1>1. PICK kind, e, i : /\ kind = p.kind /\ e = [src |-> p, input |-> w]
                        /\ i = s[heap[p].level]
  OBVIOUS
<1>2. kind \in Kind /\ heap[p].level \in Level
  BY <1>1, NodeChildren
<1>3. i \in 1 .. DomainSize[heap[p].level]
  BY <1>1, <1>2, States
<1>4. heap[p].children[i].w \in Carrier(kind)
  BY <1>1, <1>3, NodeChildren
<1>5. Plus(kind, w, heap[p].children[i].w) \in Carrier(kind)
  BY <1>1, <1>2, <1>4, MonoidAssumption
<1>6. e \in EvmddOf(kind)
  BY <1>1 DEF EvmddOf
<1>7. e \in Evmdd
  BY <1>2, <1>6, Fields
<1>8. V[e] = V[Child(e, i)]
  BY <1>1, <1>7 DEF IsValue, StepValue, LevelOf
<1>9. Child(e, i) = [src |-> heap[p].children[i].to, input |-> Plus(kind, w, heap[p].children[i].w)]
  BY <1>1 DEF Child, ChildrenOf
<1>. QED
  BY <1>1, <1>3, <1>5, <1>8, <1>9

(* A node stands for another one if its edges carry the same weights to    *)
(* nodes on the next level that stand for its children.                    *)
LEMMA ParentStands ==
  ASSUME HeapOK, NEW p \in DOMAIN heap, ~ IsTerminal(p), NEW q \in DOMAIN heap, ~ IsTerminal(q),
         q.kind = p.kind, heap[q].level = heap[p].level,
         \A i \in 1 .. DomainSize[heap[p].level] :
           /\ heap[q].children[i].w = heap[p].children[i].w
           /\ StandsFor(heap[q].children[i].to, heap[p].children[i].to)
           /\ heap[heap[q].children[i].to].level = heap[p].level - 1
  PROVE  StandsFor(q, p)
<1>1. PICK kind, l : kind = p.kind /\ l = heap[p].level
  OBVIOUS
<1>2. DOMAIN heap[q].children = 1 .. DomainSize[l]
  BY <1>1, NodeChildren
<1>3. QuasiNode(q)
  <2>1. \A i \in DOMAIN heap[q].children :
          /\ heap[heap[q].children[i].to].level = heap[q].level - 1
          /\ QuasiNode(heap[q].children[i].to)
    BY <1>1, <1>2 DEF StandsFor
  <2>. QED
    BY <2>1, QuasiParent
<1>4. ASSUME NEW s \in State, NEW V, IsValue(V, s), NEW w \in Carrier(kind)
      PROVE  V[[src |-> p, input |-> w]] = V[[src |-> q, input |-> w]]
  <2>1. PICK i, a, b : i = s[l] /\ a = heap[p].children[i] /\ b = heap[q].children[i]
    OBVIOUS
  <2>2. /\ i \in 1 .. DomainSize[l] /\ Plus(kind, w, a.w) \in Carrier(kind)
        /\ V[[src |-> p, input |-> w]] = V[[src |-> a.to, input |-> Plus(kind, w, a.w)]]
    BY <1>1, <1>4, <2>1, ValueOfEdge
  <2>3. V[[src |-> q, input |-> w]] = V[[src |-> b.to, input |-> Plus(kind, w, b.w)]]
    BY <1>1, <1>4, <2>1, ValueOfEdge
  <2>4. b.w = a.w /\ SameNode(a.to, b.to) /\ a.to.kind = kind
    BY <1>1, <2>1, <2>2, NodeChildren DEF StandsFor
  <2>5. V[[src |-> a.to, input |-> Plus(kind, w, a.w)]] = V[[src |-> b.to, input |-> Plus(kind, w, a.w)]]
    BY <1>4, <2>2, <2>4 DEF SameNode
  <2>. QED
    BY <2>2, <2>3, <2>4, <2>5
<1>5. SameNode(p, q)
  BY <1>1, <1>4 DEF SameNode
<1>. QED
  BY <1>3, <1>5 DEF StandsFor

(* What stands for a node still does with a filler node on top of it. *)
LEMMA FillerStands ==
  ASSUME HeapOK, NEW p, NEW q, StandsFor(q, p), NEW r \in DOMAIN heap, ~ IsTerminal(r),
         r.kind = q.kind, heap[r].level = heap[q].level + 1,
         \A i \in 1 .. DomainSize[heap[r].level] :
           heap[r].children[i] = [w |-> Neutral(q.kind), to |-> q]
  PROVE  StandsFor(r, p)
<1>1. PICK kind, l : kind = r.kind /\ l = heap[r].level
  OBVIOUS
<1>2. q \in DOMAIN heap /\ p \in DOMAIN heap /\ q.kind = kind /\ p.kind = kind /\ kind \in Kind
  BY <1>1, NodeChildren DEF StandsFor
<1>3. DOMAIN heap[r].children = 1 .. DomainSize[l]
  BY <1>1, NodeChildren
<1>4. QuasiNode(r)
  <2>1. heap[q].level \in Int
    BY <1>2, Levels, DomainSizes
  <2>2. heap[q].level = l - 1
    BY <1>1, <2>1
  <2>3. \A i \in DOMAIN heap[r].children : heap[r].children[i].to = q
    BY <1>1, <1>3
  <2>4. \A i \in DOMAIN heap[r].children :
          /\ heap[heap[r].children[i].to].level = heap[r].level - 1
          /\ QuasiNode(heap[r].children[i].to)
    BY <1>1, <2>2, <2>3 DEF StandsFor
  <2>. QED
    BY <2>4, QuasiParent
<1>5. ASSUME NEW s \in State, NEW V, IsValue(V, s), NEW w \in Carrier(kind)
      PROVE  V[[src |-> p, input |-> w]] = V[[src |-> r, input |-> w]]
  <2>1. PICK i, a : i = s[l] /\ a = heap[r].children[i]
    OBVIOUS
  <2>2. /\ i \in 1 .. DomainSize[l]
        /\ V[[src |-> r, input |-> w]] = V[[src |-> a.to, input |-> Plus(kind, w, a.w)]]
    BY <1>1, <1>5, <2>1, ValueOfEdge
  <2>3. a.to = q /\ a.w = Neutral(kind)
    BY <1>1, <1>2, <2>1, <2>2
  <2>4. Plus(kind, w, Neutral(kind)) = w
    BY <1>2, <1>5, RightNeutralAssumption
  <2>5. V[[src |-> p, input |-> w]] = V[[src |-> q, input |-> w]]
    BY <1>2, <1>5 DEF StandsFor, SameNode
  <2>. QED
    BY <2>2, <2>3, <2>4, <2>5
<1>6. SameNode(p, r)
  BY <1>2, <1>5 DEF SameNode
<1>. QED
  BY <1>2, <1>4, <1>6 DEF StandsFor

(* The same two as state predicates, to be used of the state after a step. *)
ParentStandsFact ==
  \A p, q :
    /\ HeapOK /\ p \in DOMAIN heap /\ ~ IsTerminal(p) /\ q \in DOMAIN heap /\ ~ IsTerminal(q)
    /\ q.kind = p.kind /\ heap[q].level = heap[p].level
    /\ \A i \in 1 .. DomainSize[heap[p].level] :
         /\ heap[q].children[i].w = heap[p].children[i].w
         /\ StandsFor(heap[q].children[i].to, heap[p].children[i].to)
         /\ heap[heap[q].children[i].to].level = heap[p].level - 1
    => StandsFor(q, p)

FillerStandsFact ==
  \A p, q, r :
    /\ HeapOK /\ StandsFor(q, p) /\ r \in DOMAIN heap /\ ~ IsTerminal(r)
    /\ r.kind = q.kind /\ heap[r].level = heap[q].level + 1
    /\ \A i \in 1 .. DomainSize[heap[r].level] :
         heap[r].children[i] = [w |-> Neutral(q.kind), to |-> q]
    => StandsFor(r, p)

LEMMA ParentStandsAlways == ParentStandsFact
BY ParentStands DEF ParentStandsFact

LEMMA FillerStandsAlways == FillerStandsFact
BY FillerStands DEF FillerStandsFact

----------------------------------------------------------------------------
(* The invariant. *)

AnyPointer == [kind : Kind, fac : Nat, id : Nat]
AnyEdge    == [w : UNION {Carrier(kind) : kind \in Kind}, to : AnyPointer]
AnyFrame   == [node : AnyPointer, pc : {"enter", "edges"}, reduced_edges : Seq(AnyEdge)]

(* The node that the recursive call of an activation is for. *)
Wanted(fr) == heap[fr.node].children[Len(fr.reduced_edges) + 1].to

Waits(fr) == fr.pc = "edges" /\ Len(fr.reduced_edges) < Len(heap[fr.node].children)

(* What is collected stands for the first children. *)
FrameOK(fr, kind) ==
  /\ fr.node \in DOMAIN heap /\ fr.node.kind = kind
  /\ fr.pc = "enter" => fr.reduced_edges = <<>>
  /\ fr.pc = "edges" => /\ ~ IsTerminal(fr.node)
                        /\ Len(fr.reduced_edges) <= Len(heap[fr.node].children)
  /\ \A j \in 1 .. Len(fr.reduced_edges) :
       /\ fr.reduced_edges[j].w = heap[fr.node].children[j].w
       /\ StandsFor(fr.reduced_edges[j].to, heap[fr.node].children[j].to)
       /\ heap[fr.reduced_edges[j].to].level = heap[fr.node].level - 1

ProcessedOK ==
  \A p \in DOMAIN processed :
    StandsFor(processed[p], p) /\ heap[processed[p]].level = heap[p].level

(* The activations, from the client's node down. *)
FramesOK ==
  /\ reduce_stack \in Seq(AnyFrame)
  /\ \A i \in 1 .. Len(reduce_stack) :
       /\ FrameOK(reduce_stack[i], reduce_call.e.src.kind)
       /\ reduce_stack[i].pc = "edges" => reduce_stack[i].node \notin DOMAIN processed
  /\ \A i \in 1 .. Len(reduce_stack) - 1 :
       /\ Waits(reduce_stack[i])
       /\ reduce_stack[i + 1].node = Wanted(reduce_stack[i])
  /\ \A i, j \in 1 .. Len(reduce_stack) :
       i < j => heap[reduce_stack[j].node].level < heap[reduce_stack[i].node].level
  /\ Len(reduce_stack) > 0 => reduce_stack[1].node = reduce_call.e.src

(* The node that rises stands for the one that was asked for. *)
RisingOK ==
  /\ rising = {} => Len(reduce_stack) > 0
  /\ \A q \in rising :
       \/ /\ Len(reduce_stack) > 0
          /\ Waits(ReduceTop)
          /\ StandsFor(q, Wanted(ReduceTop))
          /\ heap[q].level < heap[ReduceTop.node].level
       \/ /\ Len(reduce_stack) = 0
          /\ StandsFor(q, reduce_call.e.src)
          /\ heap[q].level <= NumLevels

Running ==
  /\ Idle
  /\ reduce_call.fac \in DOMAIN factories
  /\ reduce_call.e \in EvmddOf(factories[reduce_call.fac])
  /\ FramesOK
  /\ RisingOK

ReturnedOK ==
  reduce_call.status = "returned" =>
    /\ reduce_call.e \in Evmdd /\ reduce_call.result \in Evmdd
    /\ StandsFor(reduce_call.result.src, reduce_call.e.src)
    /\ reduce_call.result.input = reduce_call.e.input
    /\ LevelOf(reduce_call.result) = NumLevels

ReduceInv ==
  /\ Invariant /\ SpanExists
  /\ ProcessedOK
  /\ Reducing => Running
  /\ ~ Reducing => reduce_stack = <<>> /\ rising = {}
  /\ ReturnedOK

(* Pointers and edges have their general types. *)
LEMMA Pointers ==
  ASSUME HeapOK, NEW p \in DOMAIN heap
  PROVE  p \in AnyPointer /\ p.kind \in Kind
BY DEF HeapOK, Pointer, AnyPointer

(* The parts of the invariant are stable while the heap grows. *)
LEMMA FrameOKStable ==
  ASSUME HeapOK, HeapGrows, NEW kind, NEW fr \in AnyFrame, FrameOK(fr, kind)
  PROVE  /\ FrameOK(fr, kind)'
         /\ Waits(fr)' <=> Waits(fr)
         /\ Wanted(fr)' = Wanted(fr)
         /\ heap'[fr.node] = heap[fr.node]
<1>1. fr.node \in DOMAIN heap /\ fr.node \in DOMAIN heap' /\ heap'[fr.node] = heap[fr.node]
  BY DEF FrameOK, HeapGrows
<1>2. \A j \in 1 .. Len(fr.reduced_edges) :
        /\ fr.reduced_edges[j].w = heap'[fr.node].children[j].w
        /\ StandsFor(fr.reduced_edges[j].to, heap[fr.node].children[j].to)'
        /\ heap'[fr.reduced_edges[j].to].level = heap'[fr.node].level - 1
  <2> SUFFICES ASSUME NEW j \in 1 .. Len(fr.reduced_edges)
               PROVE  /\ fr.reduced_edges[j].w = heap'[fr.node].children[j].w
                      /\ StandsFor(fr.reduced_edges[j].to, heap[fr.node].children[j].to)'
                      /\ heap'[fr.reduced_edges[j].to].level = heap'[fr.node].level - 1
    OBVIOUS
  <2>1. PICK q, p : q = fr.reduced_edges[j].to /\ p = heap[fr.node].children[j].to
    OBVIOUS
  <2>2. StandsFor(q, p) /\ heap[q].level = heap[fr.node].level - 1 /\ fr.reduced_edges[j].w = heap[fr.node].children[j].w
    BY <2>1 DEF FrameOK
  <2>3. StandsFor(q, p)'
    BY <2>2, StandsForStable
  <2>4. heap'[q] = heap[q]
    BY <2>2 DEF StandsFor, HeapGrows
  <2>5. StandsFor(fr.reduced_edges[j].to, heap[fr.node].children[j].to)'
    BY <1>1, <2>1, <2>3 DEF StandsFor, SameNode, QuasiNode
  <2>. QED
    BY <1>1, <2>1, <2>2, <2>4, <2>5
<1>. QED
  BY <1>1, <1>2 DEF FrameOK, Waits, Wanted, IsTerminal

(* The node an activation waits for is the child of its node. *)
LEMMA WantedNode ==
  ASSUME HeapOK, NEW kind, NEW fr \in AnyFrame, FrameOK(fr, kind), Waits(fr)
  PROVE  /\ Len(fr.reduced_edges) + 1 \in 1 .. DomainSize[heap[fr.node].level]
         /\ heap[fr.node].children[Len(fr.reduced_edges) + 1].w \in Carrier(kind)
         /\ Wanted(fr) \in DOMAIN heap /\ Wanted(fr).kind = kind
         /\ heap[Wanted(fr)].level < heap[fr.node].level
<1>1. fr.node \in DOMAIN heap /\ fr.node.kind = kind /\ Len(fr.reduced_edges) \in Nat
  BY DEF FrameOK, AnyFrame
<1>2. ~ IsTerminal(fr.node)
  BY DEF FrameOK, Waits
<1>3. Len(fr.reduced_edges) + 1 \in 1 .. DomainSize[heap[fr.node].level]
  BY <1>1, <1>2, NodeChildren DEF Waits
<1>. QED
  BY <1>1, <1>2, <1>3, NodeChildren DEF Wanted

(* Activations that stay, and one on top of them. *)
LEMMA FramesBuilt ==
  ASSUME HeapOK, HeapGrows, FramesOK, UNCHANGED reduce_call,
         NEW m \in 0 .. Len(reduce_stack), NEW t \in AnyFrame,
         reduce_stack' \in Seq(AnyFrame), Len(reduce_stack') = m + 1, reduce_stack'[m + 1] = t,
         \A i \in 1 .. m : /\ reduce_stack'[i] = reduce_stack[i]
                           /\ reduce_stack[i].pc = "edges" => reduce_stack[i].node \notin DOMAIN processed',
         FrameOK(t, reduce_call.e.src.kind)', t.pc = "edges" => t.node \notin DOMAIN processed',
         m = 0 => t.node = reduce_call.e.src,
         m > 0 => /\ Waits(reduce_stack[m]) /\ t.node = Wanted(reduce_stack[m])
                  /\ heap'[t.node].level < heap[reduce_stack[m].node].level
  PROVE  FramesOK'
<1>1. PICK st, new, n, kind :
        /\ st = reduce_stack /\ new = reduce_stack' /\ n = Len(st) /\ kind = reduce_call.e.src.kind
  OBVIOUS
<1>2. n \in Nat /\ st \in Seq(AnyFrame) /\ m \in Nat /\ \A i \in 1 .. n : st[i] \in AnyFrame
  BY <1>1 DEF FramesOK
<1>3. \A i \in 1 .. m : i \in 1 .. n /\ new[i] = st[i] /\ st[i] \in AnyFrame
  BY <1>1, <1>2
<1>4. \A i \in 1 .. m : /\ FrameOK(st[i], kind)' /\ (Waits(st[i])' <=> Waits(st[i]))
                        /\ Wanted(st[i])' = Wanted(st[i])
                        /\ heap'[st[i].node] = heap[st[i].node]
  BY <1>1, <1>3, FrameOKStable DEF FramesOK
<1>5. \A i \in 1 .. m + 1 : i = m + 1 \/ i \in 1 .. m
  BY <1>2
<1>6. ASSUME NEW i \in 1 .. m + 1, NEW x, x = new[i]
      PROVE  /\ FrameOK(x, kind)'
             /\ x.pc = "edges" => x.node \notin DOMAIN processed'
  BY <1>1, <1>3, <1>4, <1>5, <1>6
<1>7. ASSUME NEW i \in 1 .. m, NEW x, x = new[i]
      PROVE  Waits(x)' /\ new[i + 1].node = Wanted(x)'
  <2>1. CASE i = m
    BY <1>1, <1>3, <1>4, <1>7, <2>1
  <2>2. CASE i # m
    <3>1. i \in 1 .. n - 1 /\ i + 1 \in 1 .. m
      BY <1>1, <1>2, <2>2
    <3>. QED
      BY <1>1, <1>3, <1>4, <1>7, <3>1 DEF FramesOK
  <2>. QED
    BY <2>1, <2>2
<1>8. ASSUME NEW i \in 1 .. m + 1, NEW j \in 1 .. m + 1, i < j
      PROVE  heap'[new[j].node].level < heap'[new[i].node].level
  <2>1. i \in 1 .. m /\ i \in 1 .. n
    BY <1>2, <1>3, <1>8
  <2>2. CASE j \in 1 .. m
    BY <1>1, <1>3, <1>4, <1>8, <2>1, <2>2 DEF FramesOK
  <2>3. CASE j = m + 1
    <3>1. m \in 1 .. m /\ m \in 1 .. n
      BY <1>3, <2>1
    <3>2. heap'[t.node].level < heap[st[m].node].level
      BY <1>1, <2>1
    <3>3. heap[st[m].node].level <= heap[st[i].node].level
      <4>1. CASE i = m
        <5>1. heap[st[m].node].level \in Int
          BY <1>1, <3>1, Levels, DomainSizes DEF FramesOK, FrameOK
        <5>. QED
          BY <4>1, <5>1
      <4>2. CASE i # m
        <5>1. heap[st[m].node].level < heap[st[i].node].level
          BY <1>1, <1>2, <2>1, <3>1, <4>2 DEF FramesOK
        <5>2. heap[st[m].node].level \in Int /\ heap[st[i].node].level \in Int
          BY <1>1, <2>1, <3>1, Levels, DomainSizes DEF FramesOK, FrameOK
        <5>. QED
          BY <5>1, <5>2
      <4>. QED
        BY <4>1, <4>2
    <3>4. heap[st[m].node].level \in Int /\ heap[st[i].node].level \in Int
      BY <1>1, <2>1, <3>1, Levels, DomainSizes DEF FramesOK, FrameOK
    <3>5. heap'[t.node].level \in Int
      <4>1. Waits(st[m]) /\ t.node = Wanted(st[m]) /\ FrameOK(st[m], kind)
        BY <1>1, <2>1, <3>1 DEF FramesOK
      <4>2. st[m] \in AnyFrame
        BY <1>2, <3>1
      <4>3. t.node \in DOMAIN heap
        BY <4>1, <4>2, WantedNode
      <4>. QED
        BY <4>3, Levels, DomainSizes DEF HeapGrows
    <3>6. heap'[st[i].node] = heap[st[i].node]
      BY <1>4, <2>1
    <3>. QED
      BY <1>1, <1>3, <2>1, <2>3, <3>2, <3>3, <3>4, <3>5, <3>6
  <2>. QED
    BY <1>5, <2>2, <2>3
<1>9. new[1].node = reduce_call.e.src
  <2>1. CASE m = 0
    BY <1>1, <2>1
  <2>2. CASE m # 0
    <3>1. 1 \in 1 .. m /\ n > 0
      BY <1>1, <1>2, <2>2
    <3>. QED
      BY <1>1, <1>3, <3>1 DEF FramesOK
  <2>. QED
    BY <2>1, <2>2
<1>10. ASSUME NEW i \in 1 .. Len(new)
       PROVE  /\ FrameOK(reduce_stack[i], reduce_call.e.src.kind)'
              /\ reduce_stack'[i].pc = "edges" => reduce_stack'[i].node \notin DOMAIN processed'
  <2>1. PICK x : x = new[i]
    OBVIOUS
  <2>2. FrameOK(x, kind)' /\ (x.pc = "edges" => x.node \notin DOMAIN processed')
    BY <1>1, <1>6, <2>1
  <2>. QED
    BY <1>1, <2>1, <2>2
<1>11. ASSUME NEW i \in 1 .. Len(new) - 1
       PROVE  Waits(reduce_stack[i])' /\ reduce_stack'[i + 1].node = Wanted(reduce_stack[i])'
  <2>1. PICK x : x = new[i]
    OBVIOUS
  <2>2. i \in 1 .. m
    BY <1>1, <1>2
  <2>3. Waits(x)' /\ new[i + 1].node = Wanted(x)'
    BY <1>7, <2>1, <2>2
  <2>. QED
    BY <1>1, <2>1, <2>3
<1>. QED
  BY <1>1, <1>8, <1>9, <1>10, <1>11 DEF FramesOK

(* The innermost activation, while quasi_reduce runs. *)
LEMMA TopFrame ==
  ASSUME ReduceInv, Reducing, reduce_stack # <<>>, NEW n, n = Len(reduce_stack), NEW fr, fr = ReduceTop
  PROVE  /\ n \in Nat \ {0} /\ reduce_stack \in Seq(AnyFrame)
         /\ fr = reduce_stack[n] /\ fr \in AnyFrame
         /\ fr = [node |-> fr.node, pc |-> fr.pc, reduced_edges |-> fr.reduced_edges]
         /\ Len(fr.reduced_edges) \in Nat
         /\ FrameOK(fr, reduce_call.e.src.kind)
         /\ fr.node \in DOMAIN heap /\ fr.node.kind = reduce_call.e.src.kind
         /\ fr.pc = "edges" => fr.node \notin DOMAIN processed
<1>1. n \in Nat \ {0} /\ reduce_stack \in Seq(AnyFrame)
  BY DEF ReduceInv, Running, FramesOK
<1>2. fr = reduce_stack[n] /\ fr \in AnyFrame /\ n \in 1 .. n
  BY <1>1 DEF ReduceTop
<1>3. FrameOK(fr, reduce_call.e.src.kind) /\ (fr.pc = "edges" => fr.node \notin DOMAIN processed)
  BY <1>2 DEF ReduceInv, Running, FramesOK
<1>4. fr.node \in DOMAIN heap /\ fr.node.kind = reduce_call.e.src.kind
  BY <1>3 DEF FrameOK
<1>5. /\ fr = [node |-> fr.node, pc |-> fr.pc, reduced_edges |-> fr.reduced_edges]
      /\ fr.reduced_edges \in Seq(AnyEdge)
  BY <1>2 DEF AnyFrame
<1>6. Len(fr.reduced_edges) \in Nat
  BY <1>5
<1>. QED
  BY <1>1, <1>2, <1>3, <1>4, <1>5, <1>6

(* The innermost activation returns a node of its level that stands for its own. *)
LEMMA NodeReturns ==
  ASSUME ReduceInv, Reducing, reduce_stack # <<>>, HeapOK', HeapGrows,
         NEW p, p = ReduceTop.node, NEW q, StandsFor(q, p)', heap'[q].level = heap[p].level,
         ReturnNode(q), UNCHANGED <<factories, stack, reduce_call>>,
         \A i \in 1 .. Len(reduce_stack) - 1 :
           reduce_stack[i].pc = "edges" => reduce_stack[i].node \notin DOMAIN processed'
  PROVE  Running'
<1>1. PICK n, fr, e, m : /\ n = Len(reduce_stack) /\ fr = ReduceTop /\ e = reduce_call.e
                         /\ m = n - 1
  OBVIOUS
<1>2. /\ n \in Nat \ {0} /\ reduce_stack \in Seq(AnyFrame) /\ fr = reduce_stack[n]
      /\ fr.node \in DOMAIN heap
  BY <1>1, TopFrame
<1>3. HeapOK /\ FramesOK /\ Idle /\ reduce_call.fac \in DOMAIN factories
      /\ e \in EvmddOf(factories[reduce_call.fac])
  BY <1>1 DEF ReduceInv, Running, Invariant
<1>4. StandsFor(q, p)' /\ heap'[q].level = heap[p].level /\ p = fr.node
  BY <1>1
<1>5. /\ reduce_stack' \in Seq(AnyFrame) /\ Len(reduce_stack') = m /\ m \in Nat
      /\ \A i \in 1 .. m : reduce_stack'[i] = reduce_stack[i]
      /\ rising' = {q}
  BY <1>1, <1>2 DEF ReturnNode
<1>6. CASE m = 0
  <2>1. FramesOK'
    BY <1>5, <1>6 DEF FramesOK
  <2>2. fr.node = e.src
    <3>1. n = 1
      BY <1>1, <1>2, <1>6
    <3>. QED
      BY <1>1, <1>2, <1>3, <3>1 DEF FramesOK
  <2>3. heap[fr.node].level <= NumLevels
    BY <1>2, <1>3, Levels, DomainSizes
  <2>4. RisingOK'
    <3>1. StandsFor(q, reduce_call.e.src)'
      BY <1>1, <1>4, <2>2 DEF StandsFor, SameNode
    <3>. QED
      BY <1>4, <1>5, <1>6, <2>3, <3>1 DEF RisingOK, NumLevels
  <2>. QED
    BY <1>1, <1>3, <2>1, <2>4, GrowthOfTypes DEF Running, Idle
<1>7. CASE m # 0
  <2>1. PICK t : t = reduce_stack[m]
    OBVIOUS
  <2>2. /\ m \in 1 .. m /\ m \in 1 .. n /\ m \in 1 .. n - 1 /\ m + 1 = n /\ n \in 1 .. n /\ m < n
        /\ m - 1 \in 0 .. n /\ (m - 1) + 1 = m /\ \A i \in 1 .. m - 1 : i \in 1 .. m
    BY <1>1, <1>2, <1>5, <1>7
  <2>3. /\ t \in AnyFrame /\ FrameOK(t, e.src.kind) /\ Waits(t) /\ fr.node = Wanted(t)
        /\ heap[fr.node].level < heap[t.node].level
        /\ m - 1 > 0 => /\ Waits(reduce_stack[m - 1]) /\ t.node = Wanted(reduce_stack[m - 1])
                        /\ heap[t.node].level < heap[reduce_stack[m - 1].node].level
        /\ m = 1 => t.node = e.src
    <3>1. t \in AnyFrame
      BY <1>2, <2>1, <2>2, <1>1
    <3>2. FrameOK(t, e.src.kind) /\ Waits(t) /\ fr.node = Wanted(t)
          /\ heap[fr.node].level < heap[t.node].level
      BY <1>1, <1>2, <1>3, <2>1, <2>2 DEF FramesOK
    <3>3. ASSUME m - 1 > 0
          PROVE  /\ Waits(reduce_stack[m - 1]) /\ t.node = Wanted(reduce_stack[m - 1])
                 /\ heap[t.node].level < heap[reduce_stack[m - 1].node].level
      <4>1. m - 1 \in 1 .. n - 1 /\ m - 1 \in 1 .. n /\ m - 1 < m
        BY <1>1, <1>2, <1>5, <3>3
      <4>. QED
        BY <1>1, <1>3, <2>1, <2>2, <4>1 DEF FramesOK
    <3>4. m = 1 => t.node = e.src
      BY <1>1, <1>3, <2>1, <2>2 DEF FramesOK
    <3>. QED
      BY <3>1, <3>2, <3>3, <3>4
  <2>4. /\ FrameOK(t, e.src.kind)' /\ Waits(t)' /\ Wanted(t)' = fr.node
        /\ heap'[t.node] = heap[t.node]
    BY <1>3, <2>3, FrameOKStable
  <2>5. FramesOK'
    <3>1. PICK k : k = m - 1
      OBVIOUS
    <3>2. /\ k \in 0 .. Len(reduce_stack) /\ Len(reduce_stack') = k + 1 /\ reduce_stack'[k + 1] = t
          /\ \A i \in 1 .. k : /\ reduce_stack'[i] = reduce_stack[i]
                               /\ reduce_stack[i].pc = "edges" => reduce_stack[i].node \notin DOMAIN processed'
      BY <1>1, <1>5, <2>1, <2>2, <3>1
    <3>3. /\ FrameOK(t, reduce_call.e.src.kind)'
          /\ t.pc = "edges" => t.node \notin DOMAIN processed'
      BY <1>1, <2>1, <2>2, <2>4
    <3>4. k = 0 => t.node = reduce_call.e.src
      <4>1. k = 0 => m = 1
        BY <1>5, <3>1
      <4>. QED
        BY <1>1, <2>3, <4>1
    <3>5. k > 0 => /\ Waits(reduce_stack[k]) /\ t.node = Wanted(reduce_stack[k])
                   /\ heap'[t.node].level < heap[reduce_stack[k].node].level
      BY <2>3, <2>4, <3>1
    <3>. QED
      BY <1>3, <1>5, <2>3, <3>2, <3>3, <3>4, <3>5, FramesBuilt
  <2>6. RisingOK'
    <3>1. t = ReduceTop'
      BY <1>5, <2>1, <2>2 DEF ReduceTop
    <3>2. Wanted(ReduceTop)' = fr.node /\ Waits(ReduceTop)'
      BY <2>4, <3>1 DEF Wanted, Waits
    <3>3. StandsFor(q, Wanted(ReduceTop))'
      BY <1>4, <3>2 DEF StandsFor, SameNode
    <3>4. heap'[q].level < heap'[ReduceTop'.node].level
      BY <1>4, <2>3, <2>4, <3>1
    <3>. QED
      BY <1>5, <1>7, <3>2, <3>3, <3>4 DEF RisingOK
  <2>. QED
    BY <1>1, <1>3, <2>5, <2>6, GrowthOfTypes DEF Running, Idle
<1>. QED
  BY <1>6, <1>7

(* The innermost activation changes, but not the node it is for. *)
LEMMA TopReplaced ==
  ASSUME ReduceInv, Reducing, reduce_stack # <<>>, HeapOK', HeapGrows,
         NEW t \in AnyFrame, t.node = ReduceTop.node,
         FrameOK(t, reduce_call.e.src.kind)', t.pc = "edges" => t.node \notin DOMAIN processed,
         reduce_stack' = [reduce_stack EXCEPT ![Len(reduce_stack)] = t],
         UNCHANGED <<reduce_call, processed>>
  PROVE  FramesOK' /\ Len(reduce_stack') = Len(reduce_stack) /\ ReduceTop' = t
<1>1. PICK n, fr, m : n = Len(reduce_stack) /\ fr = ReduceTop /\ m = n - 1
  OBVIOUS
<1>2. /\ n \in Nat \ {0} /\ reduce_stack \in Seq(AnyFrame) /\ fr = reduce_stack[n]
      /\ fr \in AnyFrame /\ FrameOK(fr, reduce_call.e.src.kind)
  BY <1>1, TopFrame
<1>3. HeapOK /\ FramesOK
  BY DEF ReduceInv, Running, Invariant
<1>4. /\ reduce_stack' \in Seq(AnyFrame) /\ Len(reduce_stack') = n /\ reduce_stack'[n] = t
      /\ \A i \in 1 .. m : reduce_stack'[i] = reduce_stack[i]
      /\ m \in 0 .. n /\ m + 1 = n
  BY <1>1, <1>2
<1>5. heap'[t.node] = heap[fr.node]
  BY <1>1, <1>2, <1>3, FrameOKStable
<1>6. m = 0 => t.node = reduce_call.e.src
  <2>1. m = 0 => n = 1
    BY <1>4
  <2>. QED
    BY <1>1, <1>2, <1>3, <2>1 DEF FramesOK
<1>7. ASSUME m > 0
      PROVE  /\ Waits(reduce_stack[m]) /\ t.node = Wanted(reduce_stack[m])
             /\ heap'[t.node].level < heap[reduce_stack[m].node].level
  <2>1. m \in 1 .. n - 1 /\ m \in 1 .. n /\ n \in 1 .. n /\ m < n
    BY <1>2, <1>4, <1>7
  <2>. QED
    BY <1>1, <1>2, <1>3, <1>4, <1>5, <2>1 DEF FramesOK
<1>8. \A i \in 1 .. m : reduce_stack[i].pc = "edges" => reduce_stack[i].node \notin DOMAIN processed'
  <2>1. \A i \in 1 .. m : i \in 1 .. n
    BY <1>2, <1>4
  <2>. QED
    BY <1>1, <1>3, <2>1 DEF FramesOK
<1>9. FramesOK'
  BY <1>1, <1>3, <1>4, <1>6, <1>7, <1>8, FramesBuilt
<1>. QED
  BY <1>1, <1>4, <1>9 DEF ReduceTop

(* A new activation. *)
LEMMA TopPushed ==
  ASSUME ReduceInv, Reducing, reduce_stack # <<>>, HeapOK', HeapGrows,
         NEW p, p = Wanted(ReduceTop), Waits(ReduceTop),
         reduce_stack' = Append(reduce_stack, ReduceFrame(p)), UNCHANGED <<reduce_call, processed>>
  PROVE  FramesOK'
<1>1. PICK n, fr, kind, t :
        /\ n = Len(reduce_stack) /\ fr = ReduceTop /\ kind = reduce_call.e.src.kind
        /\ t = [node |-> p, pc |-> "enter", reduced_edges |-> <<>>]
  OBVIOUS
<1>2. /\ n \in Nat \ {0} /\ reduce_stack \in Seq(AnyFrame) /\ fr = reduce_stack[n]
      /\ fr \in AnyFrame /\ FrameOK(fr, kind)
  BY <1>1, TopFrame
<1>3. HeapOK /\ FramesOK
  BY DEF ReduceInv, Running, Invariant
<1>4. p \in DOMAIN heap /\ p.kind = kind /\ heap[p].level < heap[fr.node].level
  BY <1>1, <1>2, <1>3, WantedNode
<1>5. t \in AnyFrame
  <2>1. p \in AnyPointer /\ <<>> \in Seq(AnyEdge)
    BY <1>3, <1>4, Pointers
  <2>. QED
    BY <1>1, <2>1 DEF AnyFrame
<1>6. /\ reduce_stack' \in Seq(AnyFrame) /\ Len(reduce_stack') = n + 1 /\ reduce_stack'[n + 1] = t
      /\ \A i \in 1 .. n : reduce_stack'[i] = reduce_stack[i]
  BY <1>1, <1>2, <1>5 DEF ReduceFrame
<1>7. FrameOK(t, kind)'
  BY <1>1, <1>4 DEF FrameOK, HeapGrows
<1>8. FrameOK(t, reduce_call.e.src.kind)'
  BY <1>1, <1>7 DEF FrameOK
<1>9. heap'[p].level < heap[fr.node].level
  BY <1>4 DEF HeapGrows
<1>10. \A i \in 1 .. n : reduce_stack[i].pc = "edges" => reduce_stack[i].node \notin DOMAIN processed'
  BY <1>1, <1>3 DEF FramesOK
<1>. QED
  BY <1>1, <1>2, <1>3, <1>5, <1>6, <1>8, <1>9, <1>10, FramesBuilt

LEMMA FramesStay ==
  ASSUME ReduceInv, Reducing, HeapOK', HeapGrows, UNCHANGED <<reduce_stack, reduce_call, processed>>
  PROVE  FramesOK' /\ (reduce_stack # <<>> => ReduceTop' = ReduceTop)
<1>1. HeapOK /\ FramesOK
  BY DEF ReduceInv, Running, Invariant
<1>2. CASE reduce_stack = <<>>
  BY <1>1, <1>2 DEF FramesOK
<1>3. CASE reduce_stack # <<>>
  <2>1. PICK fr, n : fr = ReduceTop /\ n = Len(reduce_stack)
    OBVIOUS
  <2>2. /\ n \in Nat \ {0} /\ reduce_stack \in Seq(AnyFrame) /\ fr = reduce_stack[n]
        /\ fr \in AnyFrame /\ FrameOK(fr, reduce_call.e.src.kind)
        /\ fr.pc = "edges" => fr.node \notin DOMAIN processed
    BY <1>3, <2>1, TopFrame
  <2>3. FrameOK(fr, reduce_call.e.src.kind)'
    <3>1. PICK kind : kind = reduce_call.e.src.kind
      OBVIOUS
    <3>2. FrameOK(fr, kind)'
      BY <1>1, <2>2, <3>1, FrameOKStable
    <3>. QED
      BY <3>1, <3>2
  <2>4. reduce_stack' = [reduce_stack EXCEPT ![Len(reduce_stack)] = fr]
    BY <2>1, <2>2
  <2>. QED
    BY <1>3, <2>1, <2>2, <2>3, <2>4, TopReplaced
<1>. QED
  BY <1>2, <1>3

(* The node that is to be stood for, and how high. *)
LEMMA Rising ==
  ASSUME ReduceInv, Reducing, NEW q \in rising,
         NEW p, p = IF reduce_stack = <<>> THEN reduce_call.e.src ELSE Wanted(ReduceTop),
         NEW l, l = TargetLevel
  PROVE  /\ StandsFor(q, p) /\ q \in DOMAIN heap /\ q.kind = p.kind
         /\ p.kind = factories[reduce_call.fac]
         /\ heap[q].level \in Nat /\ l \in Nat /\ heap[q].level < l /\ l <= NumLevels + 1
<1>1. HeapOK /\ RisingOK /\ FramesOK /\ reduce_call.fac \in DOMAIN factories
      /\ reduce_call.e.src.kind = factories[reduce_call.fac]
  BY DEF ReduceInv, Running, Invariant, EvmddOf
<1>2. CASE reduce_stack = <<>>
  <2>1. l = NumLevels + 1 /\ StandsFor(q, p) /\ heap[q].level <= NumLevels
    BY <1>1, <1>2 DEF RisingOK, TargetLevel
  <2>2. q \in DOMAIN heap /\ q.kind = p.kind
    BY <2>1 DEF StandsFor
  <2>3. heap[q].level \in 0 .. NumLevels
    BY <1>1, <2>2, Levels
  <2>. QED
    BY <1>1, <1>2, <2>1, <2>2, <2>3, DomainSizes
<1>3. CASE reduce_stack # <<>>
  <2>1. PICK fr : fr = ReduceTop
    OBVIOUS
  <2>2. /\ fr \in AnyFrame /\ FrameOK(fr, reduce_call.e.src.kind) /\ fr.node \in DOMAIN heap
        /\ Len(reduce_stack) > 0
    BY <1>3, <2>1, TopFrame
  <2>3. Waits(fr) /\ StandsFor(q, p) /\ heap[q].level < heap[fr.node].level /\ p = Wanted(fr)
    BY <1>1, <1>3, <2>1, <2>2 DEF RisingOK
  <2>4. q \in DOMAIN heap /\ q.kind = p.kind /\ p.kind = reduce_call.e.src.kind
    BY <1>1, <2>2, <2>3, WantedNode DEF StandsFor
  <2>5. heap[q].level \in 0 .. NumLevels /\ heap[fr.node].level \in 0 .. NumLevels
    BY <1>1, <2>2, <2>4, Levels
  <2>6. l = heap[fr.node].level
    BY <1>3, <2>1 DEF TargetLevel
  <2>. QED
    BY <1>1, <2>3, <2>4, <2>5, <2>6, DomainSizes
<1>. QED
  BY <1>2, <1>3

----------------------------------------------------------------------------
(* The steps of quasi_reduce. *)

(* make_node keeps the invariant of the diagrams. *)
LEMMA StoreKeepsInvariant ==
  ASSUME Invariant, SpanExists, HashIsInjective, Idle, NEW f \in DOMAIN factories, NEW level \in Level,
         NEW edges \in EdgesFor(factories[f], level), StoreNode(f, level, edges),
         UNCHANGED <<factories, registry, evmdd_cache, stack, call, held, outcome, calls>>
  PROVE  Invariant' /\ HeapGrows /\ SpanExists'
<1>1. HeapOK /\ StoreInv /\ ValueExists /\ CacheInv /\ ClientOK /\ OutcomeInv
  BY DEF Invariant
<1>2. HeapGrows /\ HeapOK' /\ StoreInv' /\ ValueExists'
  BY <1>1, MakeNode
<1>3. CacheInv'
  BY <1>1, <1>2, CacheKeeps
<1>4. CallOK' /\ StackInv'
  BY IdleStays
<1>5. ClientOK' /\ OutcomeInv'
  BY <1>1, <1>2, ClientStable
<1>6. SpanExists'
  <2>1. PICK p : DOMAIN heap' \subseteq DOMAIN heap \cup {p}
    BY StoreAddsOneNode
  <2>. QED
    BY <1>1, <1>2, <2>1, SpanStaysDefined
<1>. QED
  BY <1>2, <1>3, <1>4, <1>5, <1>6 DEF Invariant

(* The heap as it is. *)
LEMMA SameVars ==
  ASSUME HashIsInjective, OpTypesDistinct, ReduceInv, UNCHANGED vars
  PROVE  /\ Invariant' /\ HeapGrows /\ SpanExists'
         /\ UNCHANGED <<factories, heap, stack>>
<1>1. Invariant' /\ HeapGrows
  BY InvariantIsKept DEF ReduceInv
<1>2. UNCHANGED <<factories, heap, stack>>
  BY DEF vars
<1>3. SpanExists'
  BY <1>1, <1>2, SpanStaysDefined DEF ReduceInv, Invariant
<1>. QED
  BY <1>1, <1>2, <1>3

LEMMA ProcessedStable ==
  ASSUME HeapOK, HeapGrows, ProcessedOK
  PROVE  \A p \in DOMAIN processed : \A q : q = processed[p] =>
           StandsFor(q, p)' /\ heap'[q].level = heap'[p].level
<1> SUFFICES ASSUME NEW p \in DOMAIN processed, NEW q, q = processed[p]
             PROVE  StandsFor(q, p)' /\ heap'[q].level = heap'[p].level
  OBVIOUS
<1>1. StandsFor(q, p) /\ heap[q].level = heap[p].level
  BY DEF ProcessedOK
<1>. QED
  BY <1>1, StandsForStable DEF StandsFor, HeapGrows

LEMMA ProcessedStays ==
  ASSUME HeapOK, HeapGrows, ProcessedOK, UNCHANGED processed
  PROVE  ProcessedOK'
<1> SUFFICES ASSUME NEW p \in DOMAIN processed, NEW q, q = processed'[p]
             PROVE  StandsFor(q, p)' /\ heap'[q].level = heap'[p].level
  BY DEF ProcessedOK, StandsFor, SameNode
<1>. QED
  BY ProcessedStable

(* While quasi_reduce runs, the rest of the invariant follows. *)
LEMMA StillRunning ==
  ASSUME ReduceInv, Invariant', SpanExists', ProcessedOK', Running', Reducing, UNCHANGED reduce_call
  PROVE  ReduceInv'
BY DEF ReduceInv, Reducing, ReturnedOK

LEMMA KnownNodeStep ==
  ASSUME HashIsInjective, OpTypesDistinct, ReduceInv, KnownNode
  PROVE  ReduceInv'
<1>1. PICK fr, p : fr = ReduceTop /\ p = fr.node
  OBVIOUS
<1>2. /\ Reducing /\ rising = {} /\ fr.pc = "enter" /\ UNCHANGED vars /\ UNCHANGED <<reduce_call, processed>>
      /\ \/ IsTerminal(p) /\ ReturnNode(p)
         \/ p \in DOMAIN processed /\ ReturnNode(processed[p])
  BY <1>1 DEF KnownNode, AtEntry
<1>3. Invariant' /\ HeapGrows /\ SpanExists' /\ UNCHANGED <<factories, stack>>
  BY <1>2, SameVars
<1>4. HeapOK /\ HeapOK' /\ FramesOK /\ RisingOK /\ ProcessedOK
  BY <1>2, <1>3 DEF ReduceInv, Running, Invariant
<1>5. reduce_stack # <<>>
  BY <1>2, <1>4 DEF RisingOK
<1>6. p \in DOMAIN heap
  BY <1>1, <1>2, <1>5, TopFrame
<1>7. PICK q : ReturnNode(q) /\ StandsFor(q, p) /\ heap[q].level = heap[p].level
  <2>1. CASE IsTerminal(p) /\ ReturnNode(p)
    BY <1>4, <1>6, <2>1, TerminalStands
  <2>2. CASE p \in DOMAIN processed /\ ReturnNode(processed[p])
    BY <1>4, <2>2 DEF ProcessedOK
  <2>. QED
    BY <1>2, <2>1, <2>2
<1>8. StandsFor(q, p)' /\ heap'[q].level = heap[p].level
  BY <1>3, <1>4, <1>7, StandsForStable DEF StandsFor, HeapGrows
<1>9. \A i \in 1 .. Len(reduce_stack) - 1 :
        reduce_stack[i].pc = "edges" => reduce_stack[i].node \notin DOMAIN processed'
  <2>1. \A i \in 1 .. Len(reduce_stack) - 1 : i \in 1 .. Len(reduce_stack)
    BY <1>4 DEF FramesOK
  <2>. QED
    BY <1>2, <1>4, <2>1 DEF FramesOK
<1>10. Running'
  BY <1>1, <1>2, <1>3, <1>4, <1>5, <1>7, <1>8, <1>9, NodeReturns
<1>11. ProcessedOK'
  BY <1>2, <1>3, <1>4, ProcessedStays
<1>. QED
  BY <1>2, <1>3, <1>10, <1>11, StillRunning

(* Steps that only work on the stack. *)
LEMMA StackSteps ==
  ASSUME HashIsInjective, OpTypesDistinct, ReduceInv, Reducing, UNCHANGED vars,
         UNCHANGED <<reduce_call, processed>>, FramesOK', RisingOK'
  PROVE  ReduceInv'
<1>1. Invariant' /\ HeapGrows /\ SpanExists' /\ UNCHANGED <<factories, stack>>
  BY SameVars
<1>2. HeapOK /\ ProcessedOK
  BY DEF ReduceInv, Invariant
<1>3. Running'
  BY <1>1, GrowthOfTypes DEF ReduceInv, Running, Idle
<1>4. ProcessedOK'
  BY <1>1, <1>2, ProcessedStays
<1>. QED
  BY <1>1, <1>3, <1>4, StillRunning

LEMMA EnterNodeStep ==
  ASSUME HashIsInjective, OpTypesDistinct, ReduceInv, EnterNode
  PROVE  ReduceInv'
<1>1. PICK fr, n, t, kind : /\ fr = ReduceTop /\ n = Len(reduce_stack)
                            /\ t = [fr EXCEPT !.pc = "edges"] /\ kind = reduce_call.e.src.kind
  OBVIOUS
<1>2. /\ Reducing /\ rising = {} /\ fr.pc = "enter" /\ UNCHANGED vars
      /\ UNCHANGED <<reduce_call, processed, rising>>
      /\ ~ IsTerminal(fr.node) /\ fr.node \notin DOMAIN processed
      /\ reduce_stack' = [reduce_stack EXCEPT ![n].pc = "edges"]
  BY <1>1 DEF EnterNode, AtEntry
<1>3. Invariant' /\ HeapGrows
  BY <1>2, SameVars
<1>4. HeapOK /\ HeapOK' /\ RisingOK
  BY <1>2, <1>3 DEF ReduceInv, Running, Invariant
<1>5. Len(reduce_stack) > 0 /\ reduce_stack # <<>>
  BY <1>2, <1>4 DEF RisingOK
<1>6. /\ n \in Nat \ {0} /\ fr = reduce_stack[n] /\ fr \in AnyFrame /\ FrameOK(fr, kind)
      /\ fr = [node |-> fr.node, pc |-> fr.pc, reduced_edges |-> fr.reduced_edges]
      /\ fr.node \in DOMAIN heap /\ reduce_stack \in Seq(AnyFrame)
  BY <1>1, <1>2, <1>5, TopFrame
<1>7. /\ t = [node |-> fr.node, pc |-> "edges", reduced_edges |-> fr.reduced_edges] /\ t \in AnyFrame
      /\ fr.reduced_edges = <<>>
  BY <1>1, <1>2, <1>6 DEF AnyFrame, FrameOK
<1>8. FrameOK(t, kind)
  BY <1>2, <1>4, <1>6, <1>7, NodeChildren DEF FrameOK
<1>9. FrameOK(t, kind)'
  BY <1>3, <1>4, <1>7, <1>8, FrameOKStable
<1>10. FrameOK(t, reduce_call.e.src.kind)'
  BY <1>1, <1>2, <1>9
<1>11. reduce_stack' = [reduce_stack EXCEPT ![Len(reduce_stack)] = t]
  BY <1>1, <1>2, <1>6
<1>12. FramesOK' /\ Len(reduce_stack') = Len(reduce_stack)
  BY <1>1, <1>2, <1>3, <1>4, <1>5, <1>7, <1>10, <1>11, TopReplaced
<1>13. RisingOK'
  BY <1>2, <1>5, <1>12 DEF RisingOK
<1>. QED
  BY <1>2, <1>12, <1>13, StackSteps

LEMMA ReduceChildStep ==
  ASSUME HashIsInjective, OpTypesDistinct, ReduceInv, ReduceChild
  PROVE  ReduceInv'
<1>1. PICK fr, p : fr = ReduceTop /\ p = Wanted(fr)
  OBVIOUS
<1>2. /\ Reducing /\ rising = {} /\ fr.pc = "edges" /\ UNCHANGED vars
      /\ UNCHANGED <<reduce_call, processed, rising>>
      /\ Len(fr.reduced_edges) + 1 <= Len(heap[fr.node].children)
      /\ reduce_stack' = Append(reduce_stack, ReduceFrame(p))
  BY <1>1 DEF ReduceChild, Wanted
<1>3. Invariant' /\ HeapGrows
  BY <1>2, SameVars
<1>4. HeapOK /\ HeapOK' /\ RisingOK
  BY <1>2, <1>3 DEF ReduceInv, Running, Invariant
<1>5. Len(reduce_stack) > 0 /\ reduce_stack # <<>>
  BY <1>2, <1>4 DEF RisingOK
<1>6. /\ fr \in AnyFrame /\ fr.node \in DOMAIN heap /\ FrameOK(fr, reduce_call.e.src.kind)
      /\ Len(fr.reduced_edges) \in Nat /\ reduce_stack \in Seq(AnyFrame)
  BY <1>1, <1>2, <1>5, TopFrame
<1>7. Waits(fr)
  <2>1. Len(heap[fr.node].children) \in Nat
    BY <1>2, <1>4, <1>6, NodeChildren DEF FrameOK
  <2>. QED
    BY <1>2, <1>6, <2>1 DEF Waits
<1>8. FramesOK'
  BY <1>1, <1>2, <1>3, <1>4, <1>5, <1>7, TopPushed
<1>9. RisingOK'
  <2>1. Len(reduce_stack') > 0
    BY <1>2, <1>6
  <2>. QED
    BY <1>2, <2>1 DEF RisingOK
<1>. QED
  BY <1>2, <1>8, <1>9, StackSteps

(* The edges collected for a node are edges of its level. *)
LEMMA CollectedEdges ==
  ASSUME HeapOK, NEW kind, NEW fr \in AnyFrame, FrameOK(fr, kind), fr.pc = "edges",
         Len(fr.reduced_edges) = Len(heap[fr.node].children), NEW l, l = heap[fr.node].level
  PROVE  /\ l \in Level /\ fr.reduced_edges \in EdgesFor(kind, l)
         /\ \A i \in 1 .. DomainSize[l] :
              /\ fr.reduced_edges[i].w = heap[fr.node].children[i].w
              /\ StandsFor(fr.reduced_edges[i].to, heap[fr.node].children[i].to)
              /\ heap[fr.reduced_edges[i].to].level = l - 1
<1>1. PICK edges, p : edges = fr.reduced_edges /\ p = fr.node
  OBVIOUS
<1>2. p \in DOMAIN heap /\ p.kind = kind /\ ~ IsTerminal(p) /\ edges \in Seq(AnyEdge)
  BY <1>1 DEF FrameOK, AnyFrame
<1>3. /\ l \in Level /\ DomainSize[l] \in Nat \ {0} /\ Len(edges) = DomainSize[l]
      /\ \A i \in 1 .. DomainSize[l] : /\ heap[p].children[i].w \in Carrier(kind)
                                       /\ heap[p].children[i].to.kind = kind
  BY <1>1, <1>2, NodeChildren
<1>4. \A i \in 1 .. DomainSize[l] :
        /\ edges[i] \in AnyEdge
        /\ edges[i].w = heap[p].children[i].w
        /\ StandsFor(edges[i].to, heap[p].children[i].to)
        /\ heap[edges[i].to].level = l - 1
  BY <1>1, <1>2, <1>3 DEF FrameOK
<1>5. PICK nodes : nodes = {q \in DOMAIN heap : q.kind = kind}
  OBVIOUS
<1>6. \A i \in 1 .. DomainSize[l] : edges[i] \in [w : Carrier(kind), to : nodes]
  <2> SUFFICES ASSUME NEW i \in 1 .. DomainSize[l]
               PROVE  edges[i] \in [w : Carrier(kind), to : nodes]
    OBVIOUS
  <2>1. edges[i] = [w |-> edges[i].w, to |-> edges[i].to]
    BY <1>4 DEF AnyEdge
  <2>2. edges[i].w \in Carrier(kind) /\ edges[i].to \in nodes
    BY <1>3, <1>4, <1>5 DEF StandsFor
  <2>. QED
    BY <2>1, <2>2
<1>7. edges \in [1 .. DomainSize[l] -> [w : Carrier(kind), to : nodes]]
  BY <1>2, <1>3, <1>6
<1>8. \A i \in 1 .. DomainSize[l] : heap[edges[i].to].level < l
  BY <1>3, <1>4, DomainSizes DEF Level
<1>. QED
  BY <1>1, <1>3, <1>4, <1>5, <1>7, <1>8 DEF EdgesFor

(* All edges are there: the new node stands for the one they lead from. *)
LEMMA ReduceNodeStep ==
  ASSUME HashIsInjective, OpTypesDistinct, ReduceInv, ReduceNode
  PROVE  ReduceInv'
<1>1. PICK fr, p, l, f, edges, q, kind :
        /\ fr = ReduceTop /\ p = fr.node /\ l = heap[p].level /\ f = reduce_call.fac
        /\ edges = fr.reduced_edges /\ q = NodeAt(f, l, edges) /\ kind = reduce_call.e.src.kind
  OBVIOUS
<1>2. /\ Reducing /\ rising = {} /\ fr.pc = "edges" /\ Len(edges) = Len(heap[p].children)
      /\ StoreNode(f, l, edges) /\ processed' = Put(processed, p, q) /\ ReturnNode(q)
      /\ UNCHANGED <<factories, registry, evmdd_cache, stack, call, held, outcome, calls>>
      /\ UNCHANGED reduce_call
  BY <1>1 DEF ReduceNode
<1>3. HeapOK /\ StoreInv /\ ValueExists /\ FramesOK /\ RisingOK /\ ProcessedOK /\ Idle
      /\ Invariant /\ SpanExists
  BY <1>2 DEF ReduceInv, Running, Invariant
<1>4. f \in DOMAIN factories /\ kind = factories[f]
  BY <1>1, <1>2 DEF ReduceInv, Running, EvmddOf
<1>5. reduce_stack # <<>>
  BY <1>2, <1>3 DEF RisingOK
<1>6. /\ fr \in AnyFrame /\ FrameOK(fr, kind) /\ p \in DOMAIN heap /\ p.kind = kind
      /\ fr = reduce_stack[Len(reduce_stack)] /\ Len(reduce_stack) \in Nat \ {0}
  BY <1>1, <1>2, <1>5, TopFrame
<1>7. ~ IsTerminal(p)
  BY <1>1, <1>2, <1>6 DEF FrameOK
<1>8. /\ l \in Level /\ edges \in EdgesFor(kind, l)
      /\ \A i \in 1 .. DomainSize[l] :
           /\ edges[i].w = heap[p].children[i].w
           /\ StandsFor(edges[i].to, heap[p].children[i].to)
           /\ heap[edges[i].to].level = l - 1
  BY <1>1, <1>2, <1>3, <1>6, CollectedEdges
<1>9. Invariant' /\ HeapGrows /\ SpanExists' /\ HeapOK'
  <2>1. Invariant' /\ HeapGrows /\ SpanExists'
    BY <1>2, <1>3, <1>4, <1>8, StoreKeepsInvariant
  <2>. QED
    BY <2>1 DEF Invariant
<1>10. /\ q \in DOMAIN heap' /\ q.kind = kind /\ ~ IsTerminal(q)
       /\ heap'[q].level = l /\ heap'[q].children = edges
  BY <1>1, <1>2, <1>3, <1>4, <1>8, MakeNode
<1>11. p \in DOMAIN heap' /\ heap'[p] = heap[p]
  BY <1>6, <1>9 DEF HeapGrows
<1>12. StandsFor(q, p)'
  <2>1. ASSUME NEW i \in 1 .. DomainSize[l], NEW a, a = edges[i].to, NEW b, b = heap[p].children[i].to
        PROVE  StandsFor(a, b)' /\ heap'[a].level = l - 1
    <3>1. StandsFor(a, b) /\ heap[a].level = l - 1
      BY <1>8, <2>1
    <3>. QED
      BY <1>3, <1>9, <3>1, StandsForStable DEF StandsFor, HeapGrows
  <2>2. ASSUME NEW i \in 1 .. DomainSize[l]
        PROVE  StandsFor(heap[q].children[i].to, heap[p].children[i].to)'
    <3>1. PICK a, b : a = edges[i].to /\ b = heap[p].children[i].to
      OBVIOUS
    <3>2. StandsFor(a, b)'
      BY <2>1, <3>1
    <3>3. heap'[q].children[i].to = a /\ heap'[p].children[i].to = b
      BY <1>10, <1>11, <3>1
    <3>. QED
      BY <3>2, <3>3 DEF StandsFor, SameNode
  <2>3. \A i \in 1 .. DomainSize[l] :
          /\ heap'[q].children[i].w = heap'[p].children[i].w
          /\ heap'[heap'[q].children[i].to].level = heap'[p].level - 1
    <3> SUFFICES ASSUME NEW i \in 1 .. DomainSize[l]
                 PROVE  /\ heap'[q].children[i].w = heap'[p].children[i].w
                        /\ heap'[heap'[q].children[i].to].level = heap'[p].level - 1
      OBVIOUS
    <3>1. heap'[edges[i].to].level = l - 1
      BY <2>1
    <3>. QED
      BY <1>1, <1>8, <1>10, <1>11, <3>1
  <2>4. (HeapOK /\ p \in DOMAIN heap /\ ~ IsTerminal(p) /\ q \in DOMAIN heap /\ ~ IsTerminal(q)
         /\ q.kind = p.kind /\ heap[q].level = heap[p].level)'
    BY <1>1, <1>6, <1>7, <1>9, <1>10, <1>11 DEF IsTerminal
  <2>5. \A i \in 1 .. DomainSize[heap'[p].level] :
          /\ heap'[q].children[i].w = heap'[p].children[i].w
          /\ StandsFor(heap[q].children[i].to, heap[p].children[i].to)'
          /\ heap'[heap'[q].children[i].to].level = heap'[p].level - 1
    BY <1>1, <1>11, <2>2, <2>3
  <2>6. ParentStandsFact'
    BY ParentStandsAlways, PTL
  <2>. QED
    BY <2>4, <2>5, <2>6 DEF ParentStandsFact
<1>13. \A i \in 1 .. Len(reduce_stack) - 1 :
         reduce_stack[i].pc = "edges" => reduce_stack[i].node \notin DOMAIN processed'
  <2> SUFFICES ASSUME NEW i \in 1 .. Len(reduce_stack) - 1, reduce_stack[i].pc = "edges"
               PROVE  reduce_stack[i].node \notin DOMAIN processed'
    OBVIOUS
  <2>1. PICK n : n = Len(reduce_stack) /\ i \in 1 .. n /\ n \in 1 .. n /\ i < n
    BY <1>6
  <2>2. heap[fr.node].level < heap[reduce_stack[i].node].level /\ heap[fr.node].level \in Int
    BY <1>1, <1>3, <1>6, <2>1, Levels, DomainSizes DEF FramesOK
  <2>3. reduce_stack[i].node # p
    BY <1>1, <2>2
  <2>4. reduce_stack[i].node \notin DOMAIN processed
    BY <1>3, <2>1 DEF FramesOK
  <2>. QED
    BY <1>2, <2>3, <2>4 DEF Put
<1>14. Running'
  BY <1>1, <1>2, <1>5, <1>9, <1>10, <1>12, <1>13, NodeReturns
<1>15. ProcessedOK'
  <2> SUFFICES ASSUME NEW x \in DOMAIN processed', NEW y, y = processed'[x]
               PROVE  StandsFor(y, x)' /\ heap'[y].level = heap'[x].level
    BY DEF ProcessedOK, StandsFor, SameNode
  <2>1. CASE x = p
    BY <1>1, <1>2, <1>10, <1>11, <1>12, <2>1 DEF Put
  <2>2. CASE x # p
    <3>1. x \in DOMAIN processed /\ y = processed[x]
      BY <1>2, <2>2 DEF Put
    <3>. QED
      BY <1>3, <1>9, <3>1, ProcessedStable
  <2>. QED
    BY <2>1, <2>2
<1>. QED
  BY <1>2, <1>9, <1>14, <1>15, StillRunning

(* A filler node is one more level up, and stands for the same node. *)
LEMMA FillLayerStep ==
  ASSUME HashIsInjective, OpTypesDistinct, ReduceInv, NEW q \in rising, FillLayer(q), Reducing
  PROVE  ReduceInv'
<1>1. PICK l, f, edges, r, kind, i :
        /\ l = TargetLevel /\ f = reduce_call.fac /\ i = heap[q].level + 1
        /\ edges = [d \in 1 .. DomainSize[i] |-> [w |-> Neutral(q.kind), to |-> q]]
        /\ r = NodeAt(f, i, edges) /\ kind = q.kind
  OBVIOUS
<1>2. /\ i < l /\ StoreNode(f, i, edges) /\ rising' = {r}
      /\ UNCHANGED <<factories, registry, evmdd_cache, stack, call, held, outcome, calls>>
      /\ UNCHANGED <<reduce_call, reduce_stack, processed>>
  BY <1>1 DEF FillLayer
<1>3. HeapOK /\ StoreInv /\ ValueExists /\ FramesOK /\ RisingOK /\ ProcessedOK /\ Idle
      /\ Invariant /\ SpanExists /\ f \in DOMAIN factories
  BY <1>1 DEF ReduceInv, Running, Invariant
<1>4. PICK p : p = IF reduce_stack = <<>> THEN reduce_call.e.src ELSE Wanted(ReduceTop)
  OBVIOUS
<1>5. /\ StandsFor(q, p) /\ q \in DOMAIN heap /\ kind = factories[f] /\ kind \in Kind
      /\ heap[q].level \in Nat /\ l \in Nat /\ l <= NumLevels + 1
  BY <1>1, <1>3, <1>4, Rising, Pointers
<1>6. i \in Level /\ heap[q].level < i
  BY <1>1, <1>2, <1>5, DomainSizes DEF Level
<1>7. edges \in EdgesFor(kind, i)
  <2>1. PICK nodes : nodes = {x \in DOMAIN heap : x.kind = kind} /\ q \in nodes
    BY <1>1, <1>5
  <2>2. [w |-> Neutral(kind), to |-> q] \in [w : Carrier(kind), to : nodes]
    BY <1>5, <2>1, MonoidAssumption
  <2>3. /\ edges \in [1 .. DomainSize[i] -> [w : Carrier(kind), to : nodes]]
        /\ \A d \in 1 .. DomainSize[i] : edges[d].to = q
    BY <1>1, <2>2
  <2>. QED
    BY <1>6, <2>1, <2>3 DEF EdgesFor
<1>8. Invariant' /\ HeapGrows /\ SpanExists' /\ HeapOK'
  <2>1. Invariant' /\ HeapGrows /\ SpanExists'
    BY <1>2, <1>3, <1>5, <1>6, <1>7, StoreKeepsInvariant
  <2>. QED
    BY <2>1 DEF Invariant
<1>9. /\ r \in DOMAIN heap' /\ r.kind = kind /\ ~ IsTerminal(r)
      /\ heap'[r].level = i /\ heap'[r].children = edges
  BY <1>1, <1>2, <1>3, <1>5, <1>6, <1>7, MakeNode
<1>10. StandsFor(q, p)' /\ heap'[q] = heap[q]
  BY <1>3, <1>5, <1>8, StandsForStable DEF HeapGrows
<1>11. StandsFor(r, p)'
  <2>1. FillerStandsFact'
    BY FillerStandsAlways, PTL
  <2>2. \A d \in 1 .. DomainSize[heap'[r].level] :
          heap'[r].children[d] = [w |-> Neutral(q.kind), to |-> q]
    BY <1>1, <1>9
  <2>3. r.kind = q.kind /\ heap'[r].level = heap'[q].level + 1 /\ (~ IsTerminal(r))'
    BY <1>1, <1>9, <1>10 DEF IsTerminal
  <2>. QED
    BY <1>8, <1>9, <1>10, <2>1, <2>2, <2>3 DEF FillerStandsFact
<1>12. FramesOK' /\ (reduce_stack # <<>> => ReduceTop' = ReduceTop)
  BY <1>2, <1>8, FramesStay
<1>13. RisingOK'
  <2>1. CASE reduce_stack = <<>>
    <3>1. StandsFor(r, reduce_call.e.src)'
      BY <1>2, <1>4, <1>11, <2>1 DEF StandsFor, SameNode
    <3>2. heap'[r].level <= NumLevels' /\ Len(reduce_stack') = 0
      BY <1>2, <1>6, <1>9, <2>1 DEF Level, NumLevels
    <3>. QED
      BY <1>2, <3>1, <3>2 DEF RisingOK
  <2>2. CASE reduce_stack # <<>>
    <3>1. PICK fr : fr = ReduceTop
      OBVIOUS
    <3>2. fr \in AnyFrame /\ FrameOK(fr, reduce_call.e.src.kind) /\ Len(reduce_stack) > 0
      BY <2>2, <3>1, TopFrame
    <3>3. Waits(fr) /\ p = Wanted(fr)
      BY <1>3, <1>4, <2>2, <3>1, <3>2 DEF RisingOK
    <3>4. Waits(fr)' /\ Wanted(fr)' = p /\ heap'[fr.node] = heap[fr.node]
      BY <1>3, <1>8, <3>2, <3>3, FrameOKStable
    <3>5. fr = ReduceTop'
      BY <1>12, <2>2, <3>1
    <3>6. Wanted(ReduceTop)' = p /\ Waits(ReduceTop)'
      BY <3>4, <3>5 DEF Wanted, Waits
    <3>7. StandsFor(r, Wanted(ReduceTop))'
      BY <1>11, <3>6 DEF StandsFor, SameNode
    <3>8. heap'[r].level < heap'[ReduceTop'.node].level
      BY <1>1, <1>2, <1>9, <2>2, <3>1, <3>4, <3>5 DEF TargetLevel
    <3>. QED
      BY <1>2, <3>2, <3>6, <3>7, <3>8 DEF RisingOK
  <2>. QED
    BY <2>1, <2>2
<1>14. Running'
  BY <1>2, <1>8, <1>12, <1>13, GrowthOfTypes DEF ReduceInv, Running, Idle
<1>15. ProcessedOK'
  BY <1>2, <1>3, <1>8, ProcessedStays
<1>. QED
  BY <1>2, <1>8, <1>14, <1>15, StillRunning

(* The node is next to the one that waits for it, or the client's result. *)
LEMMA LayersFilledStep ==
  ASSUME HashIsInjective, OpTypesDistinct, ReduceInv, NEW q \in rising, LayersFilled(q), Reducing
  PROVE  ReduceInv'
<1>1. PICK l, p : /\ l = TargetLevel
                  /\ p = IF reduce_stack = <<>> THEN reduce_call.e.src ELSE Wanted(ReduceTop)
  OBVIOUS
<1>2. /\ StandsFor(q, p) /\ q \in DOMAIN heap /\ q.kind = p.kind
      /\ p.kind = factories[reduce_call.fac]
      /\ heap[q].level = l - 1 /\ l \in Nat /\ rising' = {}
  <2>1. /\ StandsFor(q, p) /\ q \in DOMAIN heap /\ q.kind = p.kind
        /\ p.kind = factories[reduce_call.fac]
        /\ heap[q].level \in Nat /\ l \in Nat /\ heap[q].level < l
    BY <1>1, Rising
  <2>2. heap[q].level + 1 >= l /\ rising' = {}
    BY <1>1 DEF LayersFilled
  <2>. QED
    BY <2>1, <2>2
<1>3. HeapOK /\ RisingOK /\ FramesOK /\ Idle /\ reduce_call.fac \in DOMAIN factories
      /\ reduce_call.e \in EvmddOf(factories[reduce_call.fac])
  BY DEF ReduceInv, Running, Invariant
<1>4. Len(reduce_stack) \in Nat /\ (Len(reduce_stack) > 0 <=> reduce_stack # <<>>)
  BY <1>3 DEF FramesOK
<1>5. PICK fr, n, i, edge, t :
        /\ fr = ReduceTop /\ n = Len(reduce_stack) /\ i = Len(fr.reduced_edges) + 1
        /\ edge = [w |-> heap[fr.node].children[i].w, to |-> q]
        /\ t = [fr EXCEPT !.reduced_edges = Append(@, edge)]
  OBVIOUS
<1>6. PICK result : result = [src |-> q, input |-> reduce_call.e.input]
  OBVIOUS
<1>7. CASE /\ n > 0
           /\ reduce_stack' = [reduce_stack EXCEPT ![n].reduced_edges = Append(@, edge)]
           /\ UNCHANGED <<vars, reduce_call, processed>>
  <2>1. reduce_stack # <<>> /\ UNCHANGED vars /\ UNCHANGED <<reduce_call, processed>>
    BY <1>4, <1>5, <1>7
  <2>2. /\ n \in Nat \ {0} /\ reduce_stack \in Seq(AnyFrame) /\ fr = reduce_stack[n] /\ fr \in AnyFrame
        /\ fr = [node |-> fr.node, pc |-> fr.pc, reduced_edges |-> fr.reduced_edges]
        /\ Len(fr.reduced_edges) \in Nat /\ FrameOK(fr, reduce_call.e.src.kind)
        /\ fr.node \in DOMAIN heap
        /\ fr.pc = "edges" => fr.node \notin DOMAIN processed
    BY <1>5, <2>1, TopFrame
  <2>3. Waits(fr) /\ p = Wanted(fr) /\ l = heap[fr.node].level
    BY <1>1, <1>3, <1>4, <1>5, <2>1 DEF RisingOK, TargetLevel
  <2>4. /\ i \in 1 .. DomainSize[heap[fr.node].level]
        /\ heap[fr.node].children[i].w \in Carrier(p.kind) /\ p.kind \in Kind
        /\ p.kind = reduce_call.e.src.kind
    <3>1. p.kind = reduce_call.e.src.kind
      BY <1>2, <1>3 DEF EvmddOf
    <3>2. p.kind \in Kind
      BY <1>2, <1>3, Pointers
    <3>. QED
      BY <1>3, <1>5, <2>2, <2>3, <3>1, <3>2, WantedNode
  <2>5. edge \in AnyEdge
    <3>1. q \in AnyPointer
      BY <1>2, <1>3, Pointers
    <3>2. edge.w \in UNION {Carrier(k) : k \in Kind}
      BY <1>5, <2>4
    <3>. QED
      BY <1>5, <3>1, <3>2 DEF AnyEdge
  <2>6. /\ t = [node |-> fr.node, pc |-> fr.pc, reduced_edges |-> Append(fr.reduced_edges, edge)]
        /\ fr.reduced_edges \in Seq(AnyEdge) /\ t \in AnyFrame
    <3>1. t = [node |-> fr.node, pc |-> fr.pc, reduced_edges |-> Append(fr.reduced_edges, edge)]
      BY <1>5, <2>2
    <3>2. fr.reduced_edges \in Seq(AnyEdge)
      BY <2>2 DEF AnyFrame
    <3>. QED
      BY <2>2, <2>5, <3>1, <3>2 DEF AnyFrame
  <2>7. /\ Len(t.reduced_edges) = i /\ t.reduced_edges[i] = edge
        /\ \A j \in 1 .. i : j = i \/ (j \in 1 .. Len(fr.reduced_edges)
                                       /\ t.reduced_edges[j] = fr.reduced_edges[j])
    BY <1>5, <2>2, <2>6
  <2>8. FrameOK(t, reduce_call.e.src.kind)
    <3>1. \A j \in 1 .. Len(t.reduced_edges) :
            /\ t.reduced_edges[j].w = heap[t.node].children[j].w
            /\ StandsFor(t.reduced_edges[j].to, heap[t.node].children[j].to)
            /\ heap[t.reduced_edges[j].to].level = heap[t.node].level - 1
      <4> SUFFICES ASSUME NEW j \in 1 .. i
                   PROVE  /\ t.reduced_edges[j].w = heap[t.node].children[j].w
                          /\ StandsFor(t.reduced_edges[j].to, heap[t.node].children[j].to)
                          /\ heap[t.reduced_edges[j].to].level = heap[t.node].level - 1
        BY <2>7
      <4>1. CASE j = i
        BY <1>2, <1>5, <2>3, <2>6, <2>7, <4>1 DEF Wanted
      <4>2. CASE j # i
        BY <2>2, <2>6, <2>7, <4>2 DEF FrameOK
      <4>. QED
        BY <4>1, <4>2
    <3>2. fr.pc = "edges" /\ ~ IsTerminal(fr.node) /\ i <= Len(heap[fr.node].children)
      <4>1. ~ IsTerminal(fr.node) /\ fr.pc = "edges" /\ Len(fr.reduced_edges) < Len(heap[fr.node].children)
        BY <2>2, <2>3 DEF FrameOK, Waits
      <4>2. Len(heap[fr.node].children) \in Nat
        BY <1>3, <2>2, <4>1, NodeChildren
      <4>. QED
        BY <1>5, <2>2, <4>1, <4>2
    <3>3. fr.node \in DOMAIN heap /\ fr.node.kind = reduce_call.e.src.kind
      BY <2>2 DEF FrameOK
    <3>. QED
      BY <2>6, <2>7, <3>1, <3>2, <3>3 DEF FrameOK
  <2>9. Invariant' /\ HeapGrows /\ HeapOK'
    <3>1. Invariant' /\ HeapGrows
      BY <2>1, SameVars
    <3>. QED
      BY <3>1 DEF Invariant
  <2>10. FrameOK(t, reduce_call.e.src.kind)'
    <3>1. PICK kind : kind = reduce_call.e.src.kind
      OBVIOUS
    <3>2. FrameOK(t, kind)'
      BY <1>3, <2>6, <2>8, <2>9, <3>1, FrameOKStable
    <3>. QED
      BY <2>1, <3>1, <3>2
  <2>11. reduce_stack' = [reduce_stack EXCEPT ![Len(reduce_stack)] = t]
    BY <1>5, <1>7, <2>2
  <2>12. t.node = ReduceTop.node /\ (t.pc = "edges" => t.node \notin DOMAIN processed)
    BY <1>5, <2>2, <2>6
  <2>13. FramesOK' /\ Len(reduce_stack') = Len(reduce_stack)
    BY <2>1, <2>6, <2>9, <2>10, <2>11, <2>12, TopReplaced
  <2>14. RisingOK'
    BY <1>2, <1>5, <1>7, <2>13 DEF RisingOK
  <2>. QED
    BY <2>1, <2>13, <2>14, StackSteps
<1>8. CASE /\ reduce_stack = <<>>
           /\ held' = held \cup {result}
           /\ reduce_call' = [status |-> "returned", fac |-> reduce_call.fac,
                              e |-> reduce_call.e, result |-> result]
           /\ processed' = Empty
           /\ UNCHANGED <<factories, id_cache, registry, heap, evmdd_cache, stack, call,
                          outcome, calls, reduce_stack>>
  <2>1. UNCHANGED <<factories, id_cache, registry, heap, evmdd_cache, stack, call, outcome, calls>>
    BY <1>8
  <2>2. /\ StoreInv /\ ValueExists /\ CacheInv /\ ClientOK /\ OutcomeInv /\ SpanExists
    BY DEF ReduceInv, Invariant
  <2>3. HeapGrows /\ HeapOK' /\ StoreInv' /\ ValueExists' /\ Evmdd' = Evmdd
    BY <1>3, <2>1, <2>2, SameStore, SameHeap
  <2>4. result \in EvmddOf(factories[reduce_call.fac]) /\ factories[reduce_call.fac] \in Kind
    BY <1>2, <1>3, <1>6, Pointers DEF EvmddOf
  <2>5. result \in Evmdd /\ reduce_call.e \in Evmdd
    BY <1>3, <2>4, Fields
  <2>6. CacheInv' /\ CallOK' /\ StackInv'
    BY <1>3, <2>1, <2>2, <2>3, CacheKeeps, IdleStays
  <2>7. ClientOK' /\ OutcomeInv'
    <3>1. held' \subseteq Evmdd'
      BY <1>8, <2>2, <2>3, <2>5 DEF ClientOK
    <3>2. \A kind : EvmddOf(kind)' = EvmddOf(kind)
      BY <2>1 DEF EvmddOf
    <3>3. ClientOK'
      BY <2>1, <2>2, <3>1, <3>2 DEF ClientOK
    <3>4. OutcomeInv'
      <4>1. CASE outcome.status = "returned"
        <5>1. PICK op, l0, r0, e : op = outcome.op /\ l0 = outcome.l /\ r0 = outcome.r /\ e = outcome.result
          OBVIOUS
        <5>2. Answer(e, op, l0, r0) /\ l0 \in EvmddOf(OpLeft(op)) /\ r0 \in EvmddOf(OpRight(op))
          BY <2>2, <4>1, <5>1 DEF OutcomeInv, ClientOK
        <5>3. Answer(e, op, l0, r0)'
          BY <2>3, <5>2, AnswerStable DEF EvmddOf
        <5>. QED
          BY <2>1, <5>1, <5>3 DEF OutcomeInv
      <4>2. CASE outcome.status # "returned"
        BY <2>1, <4>2 DEF OutcomeInv
      <4>. QED
        BY <4>1, <4>2
    <3>. QED
      BY <3>3, <3>4
  <2>8. Invariant'
    BY <2>2, <2>3, <2>6, <2>7 DEF Invariant
  <2>9. SpanExists'
    BY <1>3, <2>1, <2>2, <2>3, SpanStaysDefined
  <2>10. ProcessedOK'
    BY <1>8 DEF ProcessedOK, Empty
  <2>11. StandsFor(q, p)' /\ p = reduce_call.e.src /\ heap'[q].level = NumLevels
    <3>1. StandsFor(q, p)'
      BY <1>2, <1>3, <2>3, StandsForStable
    <3>2. l = NumLevels + 1
      BY <1>1, <1>8 DEF TargetLevel
    <3>. QED
      BY <1>1, <1>2, <1>8, <2>1, <3>1, <3>2, DomainSizes
  <2>12. ReturnedOK'
    <3>1. reduce_call'.result = result /\ reduce_call'.e = reduce_call.e
      BY <1>8
    <3>2. StandsFor(reduce_call.result.src, reduce_call.e.src)'
      BY <1>6, <2>11, <3>1 DEF StandsFor, SameNode
    <3>3. LevelOf(reduce_call.result)' = NumLevels'
      BY <1>6, <2>11, <3>1 DEF LevelOf, NumLevels
    <3>. QED
      BY <1>6, <2>3, <2>5, <3>1, <3>2, <3>3 DEF ReturnedOK
  <2>13. (~ Reducing)' /\ reduce_stack' = <<>>
    BY <1>8 DEF Reducing
  <2>. QED
    BY <1>2, <2>8, <2>9, <2>10, <2>12, <2>13 DEF ReduceInv
<1>. QED
  BY <1>5, <1>6, <1>7, <1>8 DEF LayersFilled

(* quasi_reduce is called: one activation, for the source node. *)
LEMMA StartReductionStep ==
  ASSUME HashIsInjective, OpTypesDistinct, ReduceInv,
         NEW f \in Live, NEW e \in held, StartReduction(f, e)
  PROVE  ReduceInv'
<1>1. /\ Idle /\ ~ Reducing /\ factories[f] = e.src.kind
      /\ reduce_call' = [status |-> "running", fac |-> f, e |-> e]
      /\ reduce_stack' = <<ReduceFrame(e.src)>> /\ UNCHANGED vars /\ UNCHANGED <<processed, rising>>
  BY DEF StartReduction
<1>2. /\ Invariant' /\ HeapGrows /\ SpanExists' /\ UNCHANGED <<factories, heap, stack>>
  BY <1>1, SameVars
<1>3. HeapOK /\ ClientOK /\ ProcessedOK /\ rising = {}
  BY <1>1 DEF ReduceInv, Invariant
<1>4. f \in DOMAIN factories /\ e \in EvmddOf(factories[f])
  <2>1. f \in DOMAIN factories
    BY <1>3 DEF Live, ClientOK
  <2>2. e \in Evmdd
    BY <1>3 DEF ClientOK
  <2>. QED
    BY <1>1, <2>1, <2>2 DEF Evmdd, EvmddOf
<1>5. PICK t : t = [node |-> e.src, pc |-> "enter", reduced_edges |-> <<>>]
  OBVIOUS
<1>6. e.src \in DOMAIN heap /\ e.src \in AnyPointer
  BY <1>3, <1>4, Pointers DEF EvmddOf
<1>7. t \in AnyFrame /\ FrameOK(t, e.src.kind)
  BY <1>5, <1>6 DEF AnyFrame, FrameOK
<1>8. FrameOK(t, e.src.kind)'
  <2>1. PICK kind : kind = e.src.kind
    OBVIOUS
  <2>2. FrameOK(t, kind)'
    BY <1>2, <1>3, <1>7, <2>1, FrameOKStable
  <2>. QED
    BY <2>1, <2>2
<1>9. reduce_stack' = <<t>> /\ Len(reduce_stack') = 1 /\ reduce_stack'[1] = t
  BY <1>1, <1>5 DEF ReduceFrame
<1>10. FramesOK'
  <2>1. reduce_stack' \in Seq(AnyFrame)
    BY <1>7, <1>9
  <2>2. \A i \in 1 .. Len(reduce_stack') : i = 1
    BY <1>9
  <2>3. ASSUME NEW i \in 1 .. Len(reduce_stack')
        PROVE  FrameOK(reduce_stack[i], reduce_call.e.src.kind)'
    BY <1>1, <1>8, <1>9, <2>2 DEF FrameOK, StandsFor, SameNode
  <2>4. \A i \in 1 .. Len(reduce_stack') :
          reduce_stack'[i].pc = "edges" => reduce_stack'[i].node \notin DOMAIN processed'
    BY <1>5, <1>9, <2>2
  <2>5. 1 .. Len(reduce_stack') - 1 = {}
    BY <1>9
  <2>6. \A i, j \in 1 .. Len(reduce_stack') : ~ (i < j)
    BY <1>9
  <2>7. reduce_stack'[1].node = reduce_call'.e.src
    BY <1>1, <1>5, <1>9
  <2>. QED
    BY <2>1, <2>3, <2>4, <2>5, <2>6, <2>7 DEF FramesOK
<1>11. RisingOK'
  BY <1>1, <1>3, <1>9 DEF RisingOK
<1>12. Running'
  <2>1. reduce_call'.fac = f /\ reduce_call'.e = e
    BY <1>1
  <2>2. e \in EvmddOf(factories[f])'
    BY <1>2, <1>4 DEF EvmddOf
  <2>. QED
    BY <1>1, <1>2, <1>4, <1>10, <1>11, <2>1, <2>2 DEF Running, Idle
<1>13. ProcessedOK'
  BY <1>1, <1>2, <1>3, ProcessedStays
<1>14. Reducing' /\ ReturnedOK'
  BY <1>1 DEF Reducing, ReturnedOK
<1>. QED
  BY <1>2, <1>12, <1>13, <1>14 DEF ReduceInv

(* The client does something else, or apply works. *)
LEMMA OtherStep ==
  ASSUME HashIsInjective, OpTypesDistinct, ReduceInv, ~ Reducing, Next, reduce_call' = NoReduction,
         UNCHANGED <<reduce_stack, processed, rising>>
  PROVE  ReduceInv'
<1>1. HeapOK /\ ProcessedOK /\ SpanExists /\ Invariant /\ reduce_stack = <<>> /\ rising = {}
  BY DEF ReduceInv, Invariant
<1>2. Invariant' /\ HeapGrows
  BY <1>1, InvariantIsKept
<1>3. SpanExists'
  <2>1. PICK p : DOMAIN heap' \subseteq DOMAIN heap \cup {p}
    BY OneNodeAdded
  <2>2. HeapOK'
    BY <1>2 DEF Invariant
  <2>. QED
    BY <1>1, <1>2, <2>1, <2>2, SpanStaysDefined
<1>4. ProcessedOK'
  BY <1>1, <1>2, ProcessedStays
<1>5. (~ Reducing)' /\ ReturnedOK'
  BY DEF Reducing, ReturnedOK, NoReduction
<1>. QED
  BY <1>1, <1>2, <1>3, <1>4, <1>5 DEF ReduceInv

(* Nothing happens. *)
LEMMA StutterStep ==
  ASSUME HashIsInjective, OpTypesDistinct, ReduceInv, UNCHANGED vars,
         UNCHANGED <<reduce_call, reduce_stack, processed, rising>>
  PROVE  ReduceInv'
<1>1. /\ Invariant' /\ HeapGrows /\ SpanExists' /\ UNCHANGED <<factories, heap, stack>>
  BY SameVars
<1>2. HeapOK /\ HeapOK' /\ ProcessedOK /\ ReturnedOK /\ UNCHANGED heap /\ HeapGrows
  BY <1>1 DEF ReduceInv, Invariant
<1>3. ASSUME NEW q, NEW p, StandsFor(q, p)
      PROVE  StandsFor(q, p)'
  BY <1>2, <1>3, StandsForStable
<1>4. CASE Reducing
  <2>1. FramesOK' /\ (reduce_stack # <<>> => ReduceTop' = ReduceTop) /\ RisingOK
    BY <1>2, <1>4, FramesStay DEF ReduceInv, Running
  <2>2. RisingOK'
    <3> SUFFICES ASSUME NEW q \in rising
                 PROVE  \/ /\ Len(reduce_stack') > 0
                           /\ Waits(ReduceTop)'
                           /\ StandsFor(q, Wanted(ReduceTop))'
                           /\ heap'[q].level < heap'[ReduceTop'.node].level
                        \/ /\ Len(reduce_stack') = 0
                           /\ StandsFor(q, reduce_call.e.src)'
                           /\ heap'[q].level <= NumLevels'
      BY <2>1 DEF RisingOK
    <3>1. PICK p, e : p = Wanted(ReduceTop) /\ e = reduce_call.e.src
      OBVIOUS
    <3>2. Wanted(ReduceTop)' = p /\ Waits(ReduceTop)' = Waits(ReduceTop) /\ ReduceTop' = ReduceTop
      BY <1>2, <3>1 DEF Wanted, Waits, ReduceTop
    <3>3. StandsFor(q, p) => StandsFor(q, Wanted(ReduceTop))'
      BY <1>3, <3>2 DEF StandsFor, SameNode
    <3>4. StandsFor(q, e) => StandsFor(q, reduce_call.e.src)'
      BY <1>3, <3>1 DEF StandsFor, SameNode
    <3>. QED
      BY <1>2, <2>1, <3>1, <3>2, <3>3, <3>4 DEF RisingOK, NumLevels
  <2>3. FramesOK' /\ RisingOK'
    BY <2>1, <2>2
  <2>. QED
    BY <1>4, <2>3, StackSteps
<1>5. CASE ~ Reducing
  <2>1. ProcessedOK'
    BY <1>2, ProcessedStays
  <2>2. ReturnedOK'
    <3>1. SUFFICES ASSUME reduce_call.status = "returned"
                   PROVE  ReturnedOK'
      BY DEF ReturnedOK
    <3>2. PICK e, r, p, q : /\ e = reduce_call.e /\ r = reduce_call.result
                            /\ p = e.src /\ q = r.src
      OBVIOUS
    <3>3. /\ e \in Evmdd /\ r \in Evmdd /\ StandsFor(q, p) /\ r.input = e.input
          /\ LevelOf(r) = NumLevels
      BY <1>2, <3>1, <3>2 DEF ReturnedOK
    <3>4. /\ e \in Evmdd' /\ r \in Evmdd' /\ StandsFor(q, p)' /\ LevelOf(r)' = NumLevels'
      BY <1>2, <1>3, <3>3, SameHeap DEF NumLevels
    <3>5. StandsFor(reduce_call.result.src, reduce_call.e.src)' /\ LevelOf(reduce_call.result)' = NumLevels'
      BY <3>2, <3>4 DEF StandsFor, SameNode, LevelOf
    <3>. QED
      BY <3>2, <3>3, <3>4, <3>5 DEF ReturnedOK
  <2>3. (~ Reducing)' /\ reduce_stack' = <<>> /\ rising' = {}
    BY <1>5 DEF ReduceInv, Reducing
  <2>. QED
    BY <1>1, <2>1, <2>2, <2>3 DEF ReduceInv
<1>. QED
  BY <1>4, <1>5

LEMMA ReduceInvIsKept ==
  ASSUME HashIsInjective, OpTypesDistinct, ReduceInv, [ReduceNext]_<<vars, reduceVars>>
  PROVE  ReduceInv'
<1>1. CASE UNCHANGED <<vars, reduceVars>>
  <2>1. UNCHANGED vars /\ UNCHANGED <<reduce_call, reduce_stack, processed, rising>>
    BY <1>1 DEF reduceVars
  <2>. QED
    BY <2>1, StutterStep
<1>2. CASE ~ Reducing /\ Next /\ reduce_call' = NoReduction
           /\ UNCHANGED <<reduce_stack, processed, rising>>
  BY <1>2, OtherStep
<1>3. CASE \E f \in Live, e \in held : StartReduction(f, e)
  BY <1>3, StartReductionStep
<1>4. CASE ReduceStep
  <2>1. CASE KnownNode
    BY <2>1, KnownNodeStep
  <2>2. CASE EnterNode
    BY <2>2, EnterNodeStep
  <2>3. CASE ReduceChild
    BY <2>3, ReduceChildStep
  <2>4. CASE ReduceNode
    BY <2>4, ReduceNodeStep
  <2>5. ASSUME NEW q \in rising, FillLayer(q) \/ LayersFilled(q)
        PROVE  ReduceInv'
    <3>1. Reducing
      BY <2>5 DEF ReduceInv
    <3>. QED
      BY <2>5, <3>1, FillLayerStep, LayersFilledStep
  <2>. QED
    BY <1>4, <2>1, <2>2, <2>3, <2>4, <2>5 DEF ReduceStep
<1>. QED
  BY <1>1, <1>2, <1>3, <1>4 DEF ReduceNext

LEMMA ReduceInvInitially ==
  ASSUME ReduceInit
  PROVE  ReduceInv
<1>1. Invariant
  BY InvariantHoldsInitially DEF ReduceInit
<1>2. SpanExists
  <2>1. DOMAIN heap = {}
    BY DEF ReduceInit, Init, Empty
  <2>2. PICK S : S = [p \in {} |-> TRUE]
    OBVIOUS
  <2>3. S = [p \in DOMAIN heap |-> SpanStep(S, p)]
    BY <2>1, <2>2
  <2>. QED
    BY <2>3 DEF SpanExists
<1>3. DOMAIN processed = {} /\ reduce_stack = <<>> /\ rising = {} /\ reduce_call.status = "none"
  BY DEF ReduceInit, Empty, NoReduction
<1>. QED
  BY <1>1, <1>2, <1>3 DEF ReduceInv, ProcessedOK, Reducing, ReturnedOK

----------------------------------------------------------------------------
(* The discipline of the recursion of quasi_reduce: each activation works  *)
(* on the child that its caller needs next, no node is reduced twice in a  *)
(* call although the diagram is a graph, what processed holds for a node   *)
(* is on its level, and fill_layers starts below the level it fills up to. *)
(* A node that waits for a child is not processed because its level is     *)
(* above that of every node the recursion is in.                           *)
THEOREM ReductionIsTypeCorrect ==
  ASSUME HashIsInjective, OpTypesDistinct
  PROVE  ReduceSpec => []ReduceTypeOK
<1>1. ReduceInit => ReduceInv
  BY ReduceInvInitially
<1>2. ReduceInv /\ [ReduceNext]_<<vars, reduceVars>> => ReduceInv'
  BY ReduceInvIsKept
<1>3. ReduceInv => ReduceTypeOK
  <2> SUFFICES ASSUME ReduceInv
               PROVE  ReduceTypeOK
    OBVIOUS
  <2>1. \A p \in DOMAIN processed : /\ p \in DOMAIN heap /\ processed[p] \in DOMAIN heap
                                    /\ heap[processed[p]].level = heap[p].level
    BY DEF ReduceInv, ProcessedOK, StandsFor
  <2>2. reduce_stack # <<>> => Reducing
    BY DEF ReduceInv
  <2>3. ASSUME Reducing, NEW q \in rising
        PROVE  q \in DOMAIN heap /\ heap[q].level < TargetLevel
    BY <2>3, Rising
  <2>4. CASE Reducing
    <3>1. FramesOK
      BY <2>4 DEF ReduceInv, Running
    <3>2. DOMAIN reduce_stack = 1 .. Len(reduce_stack)
      BY <3>1 DEF FramesOK
    <3>. QED
      BY <2>1, <2>2, <2>3, <3>1, <3>2 DEF FramesOK, Wanted, ReduceTypeOK
  <2>5. CASE ~ Reducing
    <3>1. DOMAIN reduce_stack = {} /\ 1 .. Len(reduce_stack) - 1 = {}
      BY <2>5 DEF ReduceInv
    <3>. QED
      BY <2>1, <2>2, <2>5, <3>1 DEF ReduceTypeOK
  <2>. QED
    BY <2>4, <2>5
<1>. QED
  BY <1>1, <1>2, <1>3, PTL DEF ReduceSpec

(* quasi_reduce returns what its comment promises, "all edges span exactly *)
(* one level", from the highest level down, and a diagram of the same      *)
(* function: for all diagrams, whichever factory owns their nodes, and all *)
(* monoids with a right neutral element.                                   *)
THEOREM QuasiReductionIsCorrect ==
  ASSUME HashIsInjective, OpTypesDistinct
  PROVE  ReduceSpec => []ReducesCorrectly
<1>1. ReduceInit => ReduceInv
  BY ReduceInvInitially
<1>2. ReduceInv /\ [ReduceNext]_<<vars, reduceVars>> => ReduceInv'
  BY ReduceInvIsKept
<1>3. ReduceInv => ReducesCorrectly
  <2> SUFFICES ASSUME ReduceInv, reduce_call.status = "returned"
               PROVE  /\ IsQuasiReduced(reduce_call.result)
                      /\ \A s \in State : Value(s)[reduce_call.result] = Value(s)[reduce_call.e]
    BY DEF ReducesCorrectly
  <2>1. PICK e, r : e = reduce_call.e /\ r = reduce_call.result
    OBVIOUS
  <2>2. /\ e \in Evmdd /\ r \in Evmdd /\ StandsFor(r.src, e.src) /\ r.input = e.input
        /\ LevelOf(r) = NumLevels /\ SpanExists /\ ValueExists
    BY <2>1 DEF ReduceInv, ReturnedOK, Invariant
  <2>3. SpansOneLevel[r.src]
    BY <2>2, SpansAreSpans DEF StandsFor, QuasiNode
  <2>4. PICK kind \in Kind : e \in EvmddOf(kind)
    BY <2>2, SomeKind
  <2>5. /\ e = [src |-> e.src, input |-> e.input] /\ e.input \in Carrier(e.src.kind)
        /\ r = [src |-> r.src, input |-> e.input]
    BY <2>2, <2>4, SomeKind DEF EvmddOf
  <2>6. ASSUME NEW s \in State
        PROVE  Value(s)[r] = Value(s)[e]
    <3>1. IsValue(Value(s), s)
      BY <2>2, ValueIsValue
    <3>2. PICK w : w = e.input
      OBVIOUS
    <3>3. Value(s)[[src |-> e.src, input |-> w]] = Value(s)[[src |-> r.src, input |-> w]]
      BY <2>2, <2>5, <3>1, <3>2 DEF StandsFor, SameNode
    <3>. QED
      BY <2>5, <3>2, <3>3
  <2>. QED
    BY <2>1, <2>2, <2>3, <2>6 DEF IsQuasiReduced
<1>. QED
  BY <1>1, <1>2, <1>3, PTL DEF ReduceSpec

----------------------------------------------------------------------------
(* Quasi-reducing a diagram that is quasi-reduced changes nothing, where   *)
(* every kind of weight has one factory.  Below a node that is             *)
(* quasi-reduced no layer is filled, every collected edge is the old edge, *)
(* and make_node, asked for the level and the edges of a node, finds the   *)
(* node.                                                                   *)

(* Below p, all edges span one level. *)
Spans(p) == \E S : AreSpans(S) /\ S[p]

LEMMA SpansOfChild ==
  ASSUME NEW p \in DOMAIN heap, Spans(p), NEW i \in DOMAIN heap[p].children
  PROVE  /\ heap[heap[p].children[i].to].level = heap[p].level - 1
         /\ Spans(heap[p].children[i].to)
BY DEF Spans, AreSpans, SpanStep

LEMMA SpansBefore ==
  ASSUME HeapOK, HeapGrows, NEW p, Spans(p)'
  PROVE  Spans(p)
BY SpansOfOld DEF Spans

----------------------------------------------------------------------------
(* The invariant: what stands for a quasi-reduced node is this node. *)

ProcessedKept == \A p \in DOMAIN processed : Spans(p) => processed[p] = p

FrameKept(fr) ==
  Spans(fr.node) =>
    \A j \in 1 .. Len(fr.reduced_edges) :
      fr.reduced_edges[j].to = heap[fr.node].children[j].to

FramesKept ==
  \A i \in 1 .. Len(reduce_stack) : \A fr : fr = reduce_stack[i] => FrameKept(fr)

SpansAll(e) == Spans(e.src) /\ heap[e.src].level = NumLevels

RisingKept ==
  \A q \in rising :
    /\ reduce_stack = <<>> => \A e : (e = reduce_call.e /\ SpansAll(e)) => q = e.src
    /\ reduce_stack # <<>> => \A fr : (fr = ReduceTop /\ Spans(fr.node)) => q = Wanted(fr)

ReturnedKept ==
  reduce_call.status = "returned" =>
    \A e : (e = reduce_call.e /\ SpansAll(e)) => reduce_call.result = e

Kept == ProcessedKept /\ FramesKept /\ RisingKept /\ ReturnedKept

IdempotenceInv == ReduceInv /\ OwnershipInv /\ Kept

----------------------------------------------------------------------------
(* The store. *)

LEMMA StoreGrows ==
  ASSUME HeapOK, StoreInv, NEW f \in DOMAIN factories, NEW level, NEW children,
         StoreNode(f, level, children)
  PROVE  HeapGrows
<1>1. CASE IsStored(id_cache[f], level, children)
  BY <1>1 DEF StoreNode, HeapGrows
<1>2. CASE ~ IsStored(id_cache[f], level, children)
  <2>1. PICK p : p = NodeAt(f, level, children)
    OBVIOUS
  <2>2. p \notin DOMAIN heap
    BY <1>2, <2>1, NewNode
  <2>3. heap' = Put(heap, p, [level |-> level, children |-> children])
    BY <1>2, <2>1 DEF StoreNode
  <2>. QED
    BY <2>2, <2>3 DEF Put, HeapGrows
<1>. QED
  BY <1>1, <1>2

(* make_node finds a node that is there. *)
LEMMA NodeFound ==
  ASSUME OneFactory, OwnershipInv, NEW p \in DOMAIN heap, ~ IsTerminal(p),
         NEW f \in DOMAIN factories, factories[f] = p.kind
  PROVE  NodeAt(f, heap[p].level, heap[p].children) = p
<1>1. p.fac \in DOMAIN factories /\ p.kind = factories[p.fac]
  BY DEF OwnershipInv, NodesStored
<1>2. p.fac = f
  BY <1>1, OneFactoryPerKind DEF OwnershipInv
<1>. QED
  BY <1>2 DEF OwnershipInv, NodesStored, NodeAt, IsStored

(* quasi_reduce works with the factories there are, and stores nodes only. *)
LEMMA StoreStep ==
  ASSUME OwnershipInv, Invariant', NEW f \in DOMAIN factories, NEW level, NEW children,
         StoreNode(f, level, children), UNCHANGED <<factories, registry, outcome>>
  PROVE  OwnershipInv' /\ HeapGrows
<1>1. HeapOK /\ StoreInv /\ NodesStored
  BY DEF OwnershipInv, Invariant
<1>2. NodesStored' /\ HeapGrows
  BY <1>1, StoreKeepsNodes, StoreGrows
<1>3. FactoriesRegistered' /\ FactoryOfOutcome'
  BY SameFactories DEF OwnershipInv, FactoryOfOutcome
<1>. QED
  BY <1>2, <1>3 DEF OwnershipInv

LEMMA OwnershipOfReduction ==
  ASSUME OneFactory, HashIsInjective, OpTypesDistinct, ReduceInv, ReduceInv', OwnershipInv,
         [ReduceNext]_<<vars, reduceVars>>
  PROVE  OwnershipInv' /\ HeapGrows
<1>1. Invariant /\ Invariant'
  BY DEF ReduceInv
<1>2. ASSUME [Next]_vars
      PROVE  OwnershipInv' /\ HeapGrows
  BY <1>1, <1>2, OwnershipIsKept, InvariantIsKept
<1>3. ASSUME Reducing
      PROVE  reduce_call.fac \in DOMAIN factories
  BY <1>3 DEF ReduceInv, Running
<1>4. CASE ReduceNode
  <2>1. PICK f, level, edges :
          f = reduce_call.fac /\ StoreNode(f, level, edges) /\ UNCHANGED <<factories, registry, outcome>>
    BY <1>4 DEF ReduceNode
  <2>2. Reducing
    BY <1>4 DEF ReduceNode
  <2>. QED
    BY <1>1, <1>3, <2>1, <2>2, StoreStep
<1>5. ASSUME NEW q \in rising, FillLayer(q)
      PROVE  OwnershipInv' /\ HeapGrows
  <2>1. PICK f, level, edges :
          f = reduce_call.fac /\ StoreNode(f, level, edges) /\ UNCHANGED <<factories, registry, outcome>>
    BY <1>5 DEF FillLayer
  <2>2. Reducing
    BY <1>5 DEF ReduceInv
  <2>. QED
    BY <1>1, <1>3, <2>1, <2>2, StoreStep
<1>6. ASSUME NEW q \in rising, LayersFilled(q)
      PROVE  OwnershipInv' /\ HeapGrows
  <2>1. UNCHANGED <<factories, id_cache, heap, registry, outcome>>
    BY <1>6 DEF LayersFilled, vars
  <2>. QED
    BY <1>1, <2>1, SameNodes, SameFactories DEF OwnershipInv, FactoryOfOutcome, HeapGrows
<1>7. CASE ReduceStep
  BY <1>2, <1>4, <1>5, <1>6, <1>7 DEF ReduceStep, KnownNode, EnterNode, ReduceChild
<1>8. CASE \E f \in Live, e \in held : StartReduction(f, e)
  BY <1>2, <1>8 DEF StartReduction
<1>9. CASE Next \/ UNCHANGED <<vars, reduceVars>>
  BY <1>2, <1>9
<1>. QED
  BY <1>7, <1>8, <1>9 DEF ReduceNext

----------------------------------------------------------------------------
(* The steps. *)

LEMMA FrameKeptStable ==
  ASSUME HeapOK, HeapGrows, NEW fr, fr.node \in DOMAIN heap, FrameKept(fr)
  PROVE  FrameKept(fr)'
<1>1. Spans(fr.node)' => Spans(fr.node)
  BY SpansBefore
<1>2. heap'[fr.node] = heap[fr.node]
  BY DEF HeapGrows
<1>. QED
  BY <1>1, <1>2 DEF FrameKept

LEMMA ProcessedKeptStays ==
  ASSUME HeapOK, HeapGrows, ProcessedKept, UNCHANGED processed
  PROVE  ProcessedKept'
<1>1. \A p : Spans(p)' => Spans(p)
  BY SpansBefore
<1>. QED
  BY <1>1 DEF ProcessedKept

(* Activations that stay as they are. *)
LEMMA FramesKeptStay ==
  ASSUME ReduceInv, Reducing, HeapGrows, FramesKept, NEW i \in 1 .. Len(reduce_stack),
         NEW fr, fr = reduce_stack[i]
  PROVE  FrameKept(fr)'
<1>1. fr.node \in DOMAIN heap /\ HeapOK
  BY DEF ReduceInv, Running, FramesOK, FrameOK, Invariant
<1>2. FrameKept(fr)
  BY DEF FramesKept
<1>. QED
  BY <1>1, <1>2, FrameKeptStable

LEMMA SpansAllBefore ==
  ASSUME HeapOK, HeapGrows, NEW e, e.src \in DOMAIN heap, SpansAll(e)'
  PROVE  SpansAll(e)
<1>1. Spans(e.src)' => Spans(e.src)
  BY SpansBefore
<1>. QED
  BY <1>1 DEF SpansAll, HeapGrows, NumLevels

(* What an activation waits for spans one level if its node does. *)
LEMMA SpansOfWanted ==
  ASSUME HeapOK, NEW kind, NEW fr \in AnyFrame, FrameOK(fr, kind), Waits(fr), Spans(fr.node)
  PROVE  Spans(Wanted(fr)) /\ heap[Wanted(fr)].level = heap[fr.node].level - 1
<1>1. fr.node \in DOMAIN heap /\ ~ IsTerminal(fr.node)
  BY DEF FrameOK, Waits
<1>2. Len(fr.reduced_edges) + 1 \in DOMAIN heap[fr.node].children
  BY <1>1, WantedNode, NodeChildren
<1>. QED
  BY <1>1, <1>2, SpansOfChild DEF Wanted

(* The innermost activation returns. *)
LEMMA KeptReturns ==
  ASSUME ReduceInv, Reducing, reduce_stack # <<>>, HeapGrows, FramesKept, UNCHANGED reduce_call,
         NEW p, p = ReduceTop.node, NEW q, ReturnNode(q), Spans(p) => q = p
  PROVE  FramesKept' /\ RisingKept' /\ ReturnedKept'
<1>1. PICK n, m, fr, e : n = Len(reduce_stack) /\ m = n - 1 /\ fr = ReduceTop /\ e = reduce_call.e
  OBVIOUS
<1>2. n \in Nat \ {0} /\ reduce_stack \in Seq(AnyFrame) /\ fr = reduce_stack[n]
  BY <1>1, TopFrame
<1>3. HeapOK /\ FramesOK
  BY DEF ReduceInv, Running, Invariant
<1>4. /\ Len(reduce_stack') = m /\ m \in Nat /\ \A i \in 1 .. m : reduce_stack'[i] = reduce_stack[i]
      /\ rising' = {q} /\ reduce_stack' \in Seq(AnyFrame) /\ \A i \in 1 .. m : i \in 1 .. n
  BY <1>1, <1>2 DEF ReturnNode
<1>5. FramesKept'
  <2> SUFFICES ASSUME NEW i \in 1 .. m, NEW x, x = reduce_stack[i]
               PROVE  FrameKept(x)'
    BY <1>4 DEF FramesKept
  <2>. QED
    BY <1>1, <1>4, FramesKeptStay
<1>6. CASE m = 0
  <2>1. p = e.src
    <3>1. n = 1
      <4>1. n \in Nat /\ m = n - 1
        BY <1>1, <1>2
      <4>. QED
        BY <1>6, <4>1
    <3>. QED
      BY <1>1, <1>2, <1>3, <3>1 DEF FramesOK
  <2>2. reduce_stack' = <<>>
    BY <1>4, <1>6
  <2>3. Spans(e.src)' => Spans(e.src)
    BY <1>3, SpansBefore
  <2>4. SpansAll(e)' => q = e.src
    BY <2>1, <2>3 DEF SpansAll
  <2>. QED
    BY <1>1, <1>4, <1>5, <2>2, <2>4 DEF RisingKept, ReturnedKept, Reducing
<1>7. CASE m # 0
  <2>1. PICK t : t = reduce_stack[m]
    OBVIOUS
  <2>2. m \in 1 .. n - 1 /\ m \in 1 .. n /\ m \in 1 .. m /\ m + 1 = n
    BY <1>1, <1>2, <1>4, <1>7
  <2>3. t \in AnyFrame /\ FrameOK(t, e.src.kind) /\ Waits(t) /\ Wanted(t) = p
    BY <1>1, <1>2, <1>3, <2>1, <2>2 DEF FramesOK
  <2>4. t = ReduceTop' /\ reduce_stack' # <<>>
    BY <1>4, <1>7, <2>1, <2>2 DEF ReduceTop
  <2>5. Spans(t.node)' => Spans(t.node)
    BY <1>3, SpansBefore
  <2>6. Spans(t.node)' => q = p
    BY <1>3, <2>3, <2>5, SpansOfWanted
  <2>7. Wanted(t)' = p
    BY <1>3, <2>3, FrameOKStable
  <2>. QED
    BY <1>4, <1>5, <2>4, <2>6, <2>7 DEF RisingKept, ReturnedKept, Reducing
<1>. QED
  BY <1>6, <1>7

LEMMA KnownNodeKeeps ==
  ASSUME IdempotenceInv, HeapGrows, KnownNode
  PROVE  Kept'
<1>1. PICK p : p = ReduceTop.node
  OBVIOUS
<1>2. /\ Reducing /\ rising = {} /\ UNCHANGED <<reduce_call, processed>>
      /\ \/ ReturnNode(p)
         \/ p \in DOMAIN processed /\ ReturnNode(processed[p])
  BY <1>1 DEF KnownNode, AtEntry
<1>3. HeapOK /\ RisingOK /\ ReduceInv /\ ProcessedKept /\ FramesKept
  BY <1>2 DEF IdempotenceInv, Kept, ReduceInv, Running, Invariant
<1>4. reduce_stack # <<>>
  BY <1>2, <1>3 DEF RisingOK
<1>5. PICK q : ReturnNode(q) /\ (Spans(p) => q = p)
  BY <1>2, <1>3 DEF ProcessedKept
<1>6. FramesKept' /\ RisingKept' /\ ReturnedKept'
  BY <1>1, <1>2, <1>3, <1>4, <1>5, KeptReturns
<1>. QED
  BY <1>2, <1>3, <1>6, ProcessedKeptStays DEF Kept

LEMMA ReduceNodeKeeps ==
  ASSUME OneFactory, IdempotenceInv, HeapGrows, ReduceNode
  PROVE  Kept'
<1>1. PICK fr, p, l, f, edges, q, kind, old :
        /\ fr = ReduceTop /\ p = fr.node /\ l = heap[p].level /\ f = reduce_call.fac
        /\ edges = fr.reduced_edges /\ q = NodeAt(f, l, edges) /\ kind = reduce_call.e.src.kind
        /\ old = heap[p].children
  OBVIOUS
<1>2. /\ Reducing /\ rising = {} /\ fr.pc = "edges" /\ Len(edges) = Len(old)
      /\ processed' = Put(processed, p, q) /\ ReturnNode(q) /\ UNCHANGED reduce_call
  BY <1>1 DEF ReduceNode
<1>3. HeapOK /\ RisingOK /\ ReduceInv /\ OwnershipInv /\ ProcessedKept /\ FramesKept
  BY <1>2 DEF IdempotenceInv, Kept, ReduceInv, Running, Invariant
<1>4. f \in DOMAIN factories /\ kind = factories[f]
  BY <1>1, <1>2, <1>3 DEF ReduceInv, Running, EvmddOf
<1>5. reduce_stack # <<>>
  BY <1>2, <1>3 DEF RisingOK
<1>6. /\ fr \in AnyFrame /\ FrameOK(fr, kind) /\ p \in DOMAIN heap /\ p.kind = kind
      /\ Len(reduce_stack) \in 1 .. Len(reduce_stack) /\ fr = reduce_stack[Len(reduce_stack)]
  BY <1>1, <1>2, <1>3, <1>5, TopFrame
<1>7. ~ IsTerminal(p)
  BY <1>1, <1>2, <1>6 DEF FrameOK
<1>8. ASSUME Spans(p)
      PROVE  q = p
  <2>1. /\ l \in Level /\ edges \in EdgesFor(kind, l)
        /\ \A i \in 1 .. DomainSize[l] : edges[i].w = old[i].w
    BY <1>1, <1>2, <1>3, <1>6, CollectedEdges
  <2>2. \A i \in 1 .. Len(edges) : edges[i].to = old[i].to
    BY <1>1, <1>3, <1>6, <1>8 DEF FramesKept, FrameKept
  <2>3. PICK nodes : nodes = {x \in DOMAIN heap : x.kind = kind}
    OBVIOUS
  <2>4. edges \in [1 .. DomainSize[l] -> [w : Carrier(kind), to : nodes]]
    BY <2>1, <2>3 DEF EdgesFor
  <2>5. old \in [1 .. DomainSize[l] -> [w : Carrier(kind), to : nodes]]
    <3>1. Node(p)
      BY <1>3, <1>6 DEF HeapOK
    <3>. QED
      BY <1>1, <1>6, <1>7, <2>3, <3>1 DEF Node
  <2>6. Len(edges) = DomainSize[l]
    BY <1>1, <1>2, <1>3, <1>6, <1>7, NodeChildren
  <2>7. \A i \in 1 .. DomainSize[l] : edges[i] = old[i]
    <3> SUFFICES ASSUME NEW i \in 1 .. DomainSize[l]
                 PROVE  edges[i] = old[i]
      OBVIOUS
    <3>1. edges[i].w = old[i].w /\ edges[i].to = old[i].to
      BY <2>1, <2>2, <2>6
    <3>2. edges[i] \in [w : Carrier(kind), to : nodes] /\ old[i] \in [w : Carrier(kind), to : nodes]
      BY <2>4, <2>5
    <3>. QED
      BY <3>1, <3>2
  <2>8. edges = old
    <3>1. edges = [i \in 1 .. DomainSize[l] |-> edges[i]] /\ old = [i \in 1 .. DomainSize[l] |-> old[i]]
      BY <2>4, <2>5
    <3>. QED
      BY <2>7, <3>1
  <2>. QED
    BY <1>1, <1>3, <1>4, <1>6, <1>7, <2>8, NodeFound
<1>9. FramesKept' /\ RisingKept' /\ ReturnedKept'
  BY <1>1, <1>2, <1>3, <1>5, <1>8, KeptReturns
<1>10. ProcessedKept'
  <2>1. \A x : Spans(x)' => Spans(x)
    BY <1>3, SpansBefore
  <2>. QED
    BY <1>2, <1>3, <1>8, <2>1 DEF ProcessedKept, Put
<1>. QED
  BY <1>9, <1>10 DEF Kept

(* No layer is filled below a node that spans one level. *)
LEMMA FillLayerKeeps ==
  ASSUME IdempotenceInv, HeapGrows, NEW q \in rising, FillLayer(q)
  PROVE  Kept'
<1>1. PICK e, fr : e = reduce_call.e /\ fr = ReduceTop
  OBVIOUS
<1>2. /\ UNCHANGED <<reduce_call, reduce_stack, processed>>
      /\ heap[q].level + 1 < TargetLevel
  BY DEF FillLayer
<1>3. Reducing /\ ReduceInv /\ Kept
  BY DEF IdempotenceInv, ReduceInv
<1>4. /\ HeapOK /\ FramesOK /\ RisingOK /\ e.src \in DOMAIN heap
  BY <1>1, <1>3 DEF ReduceInv, Running, Invariant, EvmddOf
<1>5. heap[q].level \in Nat
  BY <1>3, Rising
<1>6. FramesKept'
  <2> SUFFICES ASSUME NEW i \in 1 .. Len(reduce_stack), NEW x, x = reduce_stack[i]
               PROVE  FrameKept(x)'
    BY <1>2 DEF FramesKept
  <2>. QED
    BY <1>3, FramesKeptStay DEF Kept
<1>7. ProcessedKept'
  BY <1>2, <1>3, <1>4, ProcessedKeptStays DEF Kept
<1>8. reduce_stack = <<>> => ~ SpansAll(e)'
  <2> SUFFICES ASSUME reduce_stack = <<>>, SpansAll(e)'
               PROVE  FALSE
    OBVIOUS
  <2>1. SpansAll(e)
    BY <1>4, SpansAllBefore
  <2>2. q = e.src
    BY <1>1, <1>3, <2>1 DEF Kept, RisingKept
  <2>. QED
    BY <1>2, <1>5, <2>1, <2>2, DomainSizes DEF SpansAll, TargetLevel
<1>9. reduce_stack # <<>> => ~ Spans(fr.node)'
  <2> SUFFICES ASSUME reduce_stack # <<>>, Spans(fr.node)'
               PROVE  FALSE
    OBVIOUS
  <2>1. fr \in AnyFrame /\ FrameOK(fr, e.src.kind) /\ fr.node \in DOMAIN heap /\ Len(reduce_stack) > 0
    BY <1>1, <1>3, TopFrame
  <2>2. Spans(fr.node)
    BY <1>4, SpansBefore
  <2>3. Waits(fr)
    BY <1>1, <1>4, <2>1 DEF RisingOK
  <2>4. q = Wanted(fr)
    BY <1>1, <1>3, <2>2 DEF Kept, RisingKept
  <2>5. heap[q].level = heap[fr.node].level - 1
    BY <1>4, <2>1, <2>2, <2>3, <2>4, SpansOfWanted
  <2>6. heap[fr.node].level \in Int
    BY <1>4, <2>1, Levels, DomainSizes
  <2>. QED
    BY <1>1, <1>2, <1>5, <2>5, <2>6 DEF TargetLevel
<1>10. RisingKept'
  BY <1>1, <1>2, <1>8, <1>9 DEF RisingKept, ReduceTop
<1>11. ReturnedKept'
  BY <1>2, <1>3 DEF ReturnedKept, Reducing
<1>. QED
  BY <1>6, <1>7, <1>10, <1>11 DEF Kept

LEMMA LayersFilledKeeps ==
  ASSUME IdempotenceInv, ReduceInv', HeapGrows, NEW q \in rising, LayersFilled(q)
  PROVE  Kept'
<1>1. PICK e, fr, n, i, edge, t :
        /\ e = reduce_call.e /\ fr = ReduceTop /\ n = Len(reduce_stack)
        /\ i = Len(fr.reduced_edges) + 1 /\ edge = [w |-> heap[fr.node].children[i].w, to |-> q]
        /\ t = [fr EXCEPT !.reduced_edges = Append(@, edge)]
  OBVIOUS
<1>2. Reducing /\ ReduceInv /\ Kept
  BY DEF IdempotenceInv, ReduceInv
<1>3. /\ HeapOK /\ FramesOK /\ e \in EvmddOf(factories[reduce_call.fac]) /\ e.src \in DOMAIN heap
  BY <1>1, <1>2 DEF ReduceInv, Running, Invariant, EvmddOf
<1>4. rising' = {}
  BY DEF LayersFilled
<1>5. CASE /\ n > 0
           /\ reduce_stack' = [reduce_stack EXCEPT ![n].reduced_edges = Append(@, edge)]
           /\ UNCHANGED <<reduce_call, processed>>
  <2>1. reduce_stack # <<>>
    BY <1>1, <1>5
  <2>2. /\ n \in Nat \ {0} /\ reduce_stack \in Seq(AnyFrame) /\ fr = reduce_stack[n]
        /\ fr \in AnyFrame
        /\ fr = [node |-> fr.node, pc |-> fr.pc, reduced_edges |-> fr.reduced_edges]
        /\ fr.node \in DOMAIN heap /\ n \in 1 .. n
    BY <1>1, <1>2, <2>1, TopFrame
  <2>3. /\ t.node = fr.node /\ t.reduced_edges = Append(fr.reduced_edges, edge)
        /\ fr.reduced_edges \in Seq(AnyEdge)
    <3>1. fr.reduced_edges \in Seq(AnyEdge)
      BY <2>2 DEF AnyFrame
    <3>. QED
      BY <1>1, <2>2, <3>1
  <2>4. /\ Len(reduce_stack') = n /\ reduce_stack'[n] = t
        /\ \A k \in 1 .. n : k # n => reduce_stack'[k] = reduce_stack[k]
    <3>1. reduce_stack' = [reduce_stack EXCEPT ![n] = t]
      BY <1>1, <1>5, <2>2
    <3>2. (reduce_stack \in Seq(AnyFrame))'
      <4>1. Reducing'
        BY <1>2, <1>5 DEF Reducing
      <4>. QED
        BY <4>1 DEF ReduceInv, Running, FramesOK
    <3>3. DOMAIN reduce_stack = 1 .. n /\ DOMAIN reduce_stack' = DOMAIN reduce_stack
      BY <1>1, <2>2, <3>1
    <3>4. Len(reduce_stack') = n
      BY <2>2, <3>2, <3>3
    <3>. QED
      BY <2>2, <3>1, <3>3, <3>4
  <2>5. FrameKept(t)
    <3> SUFFICES ASSUME Spans(fr.node), NEW j \in 1 .. Len(t.reduced_edges)
                 PROVE  t.reduced_edges[j].to = heap[fr.node].children[j].to
      BY <2>3 DEF FrameKept
    <3>1. j = i \/ j \in 1 .. Len(fr.reduced_edges)
      BY <1>1, <2>3
    <3>2. CASE j = i
      <4>1. q = Wanted(fr)
        BY <1>1, <1>2, <2>1 DEF Kept, RisingKept
      <4>2. t.reduced_edges[j] = edge
        BY <1>1, <2>3, <3>2
      <4>. QED
        BY <1>1, <3>2, <4>1, <4>2 DEF Wanted
    <3>3. CASE j \in 1 .. Len(fr.reduced_edges)
      <4>1. FrameKept(fr)
        BY <1>1, <1>2, <2>2 DEF Kept, FramesKept
      <4>2. t.reduced_edges[j] = fr.reduced_edges[j]
        BY <2>3, <3>3
      <4>. QED
        BY <3>3, <4>1, <4>2 DEF FrameKept
    <3>. QED
      BY <3>1, <3>2, <3>3
  <2>6. FramesKept'
    <3> SUFFICES ASSUME NEW k \in 1 .. n, NEW x, x = reduce_stack'[k]
                 PROVE  FrameKept(x)'
      BY <2>4 DEF FramesKept
    <3>1. CASE k = n
      <4>1. x = t /\ t.node \in DOMAIN heap
        BY <2>2, <2>3, <2>4, <3>1
      <4>2. FrameKept(t)'
        BY <1>3, <2>5, <4>1, FrameKeptStable
      <4>. QED
        BY <4>1, <4>2
    <3>2. CASE k # n
      BY <1>1, <1>2, <2>4, <3>2, FramesKeptStay DEF Kept
    <3>. QED
      BY <3>1, <3>2
  <2>7. ProcessedKept'
    BY <1>2, <1>3, <1>5, ProcessedKeptStays DEF Kept
  <2>8. RisingKept' /\ ReturnedKept'
    BY <1>2, <1>4, <1>5 DEF RisingKept, ReturnedKept, Reducing
  <2>. QED
    BY <2>6, <2>7, <2>8 DEF Kept
<1>6. CASE /\ reduce_stack = <<>>
           /\ reduce_call' = [status |-> "returned", fac |-> reduce_call.fac, e |-> e,
                              result |-> [src |-> q, input |-> e.input]]
           /\ processed' = Empty
           /\ UNCHANGED reduce_stack
  <2>1. ProcessedKept'
    BY <1>6 DEF ProcessedKept, Empty
  <2>2. FramesKept' /\ RisingKept'
    BY <1>4, <1>6 DEF FramesKept, RisingKept
  <2>3. SpansAll(e)' => [src |-> q, input |-> e.input] = e
    <3> SUFFICES ASSUME SpansAll(e)'
                 PROVE  [src |-> q, input |-> e.input] = e
      OBVIOUS
    <3>1. SpansAll(e)
      BY <1>3, SpansAllBefore
    <3>2. q = e.src
      BY <1>1, <1>2, <1>6, <3>1 DEF Kept, RisingKept
    <3>3. e = [src |-> e.src, input |-> e.input]
      BY <1>3 DEF EvmddOf
    <3>. QED
      BY <3>2, <3>3
  <2>4. ReturnedKept'
    BY <1>6, <2>3 DEF ReturnedKept
  <2>. QED
    BY <2>1, <2>2, <2>4 DEF Kept
<1>. QED
  BY <1>1, <1>5, <1>6 DEF LayersFilled

(* An activation that is entered has collected nothing. *)
LEMMA EnterNodeKeeps ==
  ASSUME IdempotenceInv, HeapGrows, EnterNode
  PROVE  Kept'
<1>1. PICK n, fr : n = Len(reduce_stack) /\ fr = ReduceTop
  OBVIOUS
<1>2. /\ Reducing /\ rising = {} /\ UNCHANGED <<reduce_call, processed, rising>>
      /\ reduce_stack' = [reduce_stack EXCEPT ![n].pc = "edges"]
  BY <1>1 DEF EnterNode, AtEntry
<1>3. ReduceInv /\ Kept /\ HeapOK /\ RisingOK
  BY <1>2 DEF IdempotenceInv, ReduceInv, Running, Invariant
<1>4. reduce_stack # <<>>
  BY <1>2, <1>3 DEF RisingOK
<1>5. /\ n \in Nat \ {0} /\ reduce_stack \in Seq(AnyFrame) /\ fr = reduce_stack[n]
      /\ fr = [node |-> fr.node, pc |-> fr.pc, reduced_edges |-> fr.reduced_edges]
  BY <1>1, <1>2, <1>3, <1>4, TopFrame
<1>6. /\ Len(reduce_stack') = n
      /\ \A k \in 1 .. n : /\ reduce_stack'[k].node = reduce_stack[k].node
                           /\ reduce_stack'[k].reduced_edges = reduce_stack[k].reduced_edges
  BY <1>1, <1>2, <1>5
<1>7. FramesKept'
  <2> SUFFICES ASSUME NEW k \in 1 .. n, NEW x, x = reduce_stack'[k]
               PROVE  FrameKept(x)'
    BY <1>6 DEF FramesKept
  <2>1. PICK y : y = reduce_stack[k]
    OBVIOUS
  <2>2. FrameKept(y)'
    BY <1>1, <1>2, <1>3, <2>1, FramesKeptStay DEF Kept
  <2>3. x.node = y.node /\ x.reduced_edges = y.reduced_edges
    BY <1>6, <2>1
  <2>. QED
    BY <2>2, <2>3 DEF FrameKept
<1>8. ProcessedKept' /\ RisingKept' /\ ReturnedKept'
  BY <1>2, <1>3, ProcessedKeptStays DEF Kept, RisingKept, ReturnedKept, Reducing
<1>. QED
  BY <1>7, <1>8 DEF Kept

LEMMA ReduceChildKeeps ==
  ASSUME IdempotenceInv, HeapGrows, ReduceChild
  PROVE  Kept'
<1>1. PICK n, t : n = Len(reduce_stack) /\ t.reduced_edges = <<>> /\ reduce_stack' = Append(reduce_stack, t)
  BY DEF ReduceChild, ReduceFrame
<1>2. Reducing /\ rising = {} /\ UNCHANGED <<reduce_call, processed, rising>>
  BY DEF ReduceChild
<1>3. ReduceInv /\ Kept /\ HeapOK /\ reduce_stack \in Seq(AnyFrame)
  BY <1>2 DEF IdempotenceInv, ReduceInv, Running, FramesOK, Invariant
<1>4. /\ Len(reduce_stack') = n + 1 /\ reduce_stack'[n + 1] = t
      /\ \A k \in 1 .. n + 1 : k = n + 1 \/ (k \in 1 .. n /\ reduce_stack'[k] = reduce_stack[k])
  BY <1>1, <1>3
<1>5. FramesKept'
  <2> SUFFICES ASSUME NEW k \in 1 .. n + 1, NEW x, x = reduce_stack'[k]
               PROVE  FrameKept(x)'
    BY <1>4 DEF FramesKept
  <2>1. CASE k = n + 1
    BY <1>1, <1>4, <2>1 DEF FrameKept
  <2>2. CASE k \in 1 .. n /\ x = reduce_stack[k]
    BY <1>1, <1>2, <1>3, <2>2, FramesKeptStay DEF Kept
  <2>. QED
    BY <1>4, <2>1, <2>2
<1>6. ProcessedKept' /\ RisingKept' /\ ReturnedKept'
  BY <1>2, <1>3, ProcessedKeptStays DEF Kept, RisingKept, ReturnedKept, Reducing
<1>. QED
  BY <1>5, <1>6 DEF Kept

LEMMA StartReductionKeeps ==
  ASSUME IdempotenceInv, HeapGrows, NEW f, NEW e, StartReduction(f, e)
  PROVE  Kept'
<1>1. /\ ~ Reducing /\ reduce_call' = [status |-> "running", fac |-> f, e |-> e]
      /\ UNCHANGED <<processed, rising>>
  BY DEF StartReduction
<1>2. PICK t : t.reduced_edges = <<>> /\ reduce_stack' = <<t>>
  BY DEF StartReduction, ReduceFrame
<1>3. HeapOK /\ Kept /\ rising = {}
  BY <1>1 DEF IdempotenceInv, ReduceInv, Invariant
<1>4. FramesKept'
  <2>1. \A i \in 1 .. Len(reduce_stack') : reduce_stack'[i] = t
    BY <1>2
  <2> SUFFICES ASSUME NEW i \in 1 .. Len(reduce_stack'), NEW x, x = reduce_stack'[i]
               PROVE  FrameKept(x)'
    BY DEF FramesKept
  <2>. QED
    BY <1>2, <2>1 DEF FrameKept
<1>5. ProcessedKept'
  BY <1>1, <1>3, ProcessedKeptStays DEF Kept
<1>6. RisingKept' /\ ReturnedKept'
  BY <1>1, <1>3 DEF RisingKept, ReturnedKept
<1>. QED
  BY <1>4, <1>5, <1>6 DEF Kept

LEMMA OtherStepKeeps ==
  ASSUME IdempotenceInv, HeapGrows, ~ Reducing, reduce_call' = NoReduction,
         UNCHANGED <<reduce_stack, processed, rising>>
  PROVE  Kept'
<1>1. HeapOK /\ Kept /\ rising = {} /\ reduce_stack = <<>>
  BY DEF IdempotenceInv, ReduceInv, Invariant
<1>2. ProcessedKept'
  BY <1>1, ProcessedKeptStays DEF Kept
<1>3. FramesKept' /\ RisingKept' /\ ReturnedKept'
  BY <1>1 DEF FramesKept, RisingKept, ReturnedKept, NoReduction
<1>. QED
  BY <1>2, <1>3 DEF Kept

LEMMA StutterKeeps ==
  ASSUME IdempotenceInv, UNCHANGED <<vars, reduceVars>>
  PROVE  Kept'
<1>1. UNCHANGED <<heap, reduce_call, reduce_stack, processed, rising>> /\ Kept
  BY DEF vars, reduceVars, IdempotenceInv
<1>2. \A p : Spans(p)' <=> Spans(p)
  BY <1>1 DEF Spans, AreSpans, SpanStep
<1>3. ProcessedKept'
  BY <1>1, <1>2 DEF Kept, ProcessedKept
<1>4. FramesKept'
  BY <1>1, <1>2 DEF Kept, FramesKept, FrameKept
<1>5. RisingKept'
  BY <1>1, <1>2 DEF Kept, RisingKept, SpansAll, ReduceTop, Wanted, NumLevels
<1>6. ReturnedKept'
  BY <1>1, <1>2 DEF Kept, ReturnedKept, SpansAll, NumLevels
<1>. QED
  BY <1>3, <1>4, <1>5, <1>6 DEF Kept

LEMMA IdempotenceInvIsKept ==
  ASSUME OneFactory, HashIsInjective, OpTypesDistinct, IdempotenceInv,
         [ReduceNext]_<<vars, reduceVars>>
  PROVE  IdempotenceInv'
<1>1. ReduceInv'
  BY ReduceInvIsKept DEF IdempotenceInv
<1>2. OwnershipInv' /\ HeapGrows
  BY <1>1, OwnershipOfReduction DEF IdempotenceInv
<1>3. ASSUME ReduceStep
      PROVE  Kept'
  <2>1. ASSUME NEW q \in rising, FillLayer(q) \/ LayersFilled(q)
        PROVE  Kept'
    BY <1>1, <1>2, <2>1, FillLayerKeeps, LayersFilledKeeps
  <2>. QED
    BY <1>2, <1>3, <2>1, KnownNodeKeeps, EnterNodeKeeps, ReduceChildKeeps, ReduceNodeKeeps
       DEF ReduceStep
<1>4. Kept'
  <2>1. ASSUME NEW f \in Live, NEW e \in held, StartReduction(f, e)
        PROVE  Kept'
    BY <1>2, <2>1, StartReductionKeeps
  <2>2. ASSUME ~ Reducing, reduce_call' = NoReduction, UNCHANGED <<reduce_stack, processed, rising>>
        PROVE  Kept'
    BY <1>2, <2>2, OtherStepKeeps
  <2>3. ASSUME UNCHANGED <<vars, reduceVars>>
        PROVE  Kept'
    BY <2>3, StutterKeeps
  <2>. QED
    BY <1>3, <2>1, <2>2, <2>3 DEF ReduceNext
<1>. QED
  BY <1>1, <1>2, <1>4 DEF IdempotenceInv

----------------------------------------------------------------------------
(* Where every kind of weight has one factory, quasi_reduce returns a      *)
(* diagram that is quasi-reduced already as it is: make_node finds all of  *)
(* its nodes, and no layer has to be filled.                               *)
THEOREM QuasiReductionIsIdempotent ==
  ASSUME OneFactory, HashIsInjective, OpTypesDistinct
  PROVE  ReduceSpec => []ReductionIsIdempotent
<1>1. ReduceInit => IdempotenceInv
  <2> SUFFICES ASSUME ReduceInit
               PROVE  IdempotenceInv
    OBVIOUS
  <2>1. ReduceInv /\ OwnershipInv
    BY ReduceInvInitially, CanonicalInvInitially DEF ReduceInit, CanonicalInv
  <2>2. DOMAIN processed = {} /\ reduce_stack = <<>> /\ rising = {} /\ reduce_call.status = "none"
    BY DEF ReduceInit, Empty, NoReduction
  <2>. QED
    BY <2>1, <2>2 DEF IdempotenceInv, Kept, ProcessedKept, FramesKept, RisingKept, ReturnedKept
<1>2. IdempotenceInv /\ [ReduceNext]_<<vars, reduceVars>> => IdempotenceInv'
  BY IdempotenceInvIsKept
<1>3. IdempotenceInv => ReductionIsIdempotent
  <2> SUFFICES ASSUME IdempotenceInv, reduce_call.status = "returned", NEW e, e = reduce_call.e,
                      IsQuasiReduced(e)
               PROVE  reduce_call.result = e
    BY DEF ReductionIsIdempotent
  <2>1. SpanExists
    BY DEF IdempotenceInv, ReduceInv
  <2>2. SpansAll(e)
    BY <2>1, SpansAreSpans DEF IsQuasiReduced, SpansAll, Spans, LevelOf
  <2>. QED
    BY <2>2 DEF IdempotenceInv, Kept, ReturnedKept
<1>. QED
  BY <1>1, <1>2, <1>3, PTL DEF ReduceSpec
=============================================================================
