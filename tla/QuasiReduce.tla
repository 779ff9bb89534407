---------------------------- MODULE QuasiReduce ----------------------------
(***************************************************************************)
(* EvmddFactory::quasi_reduce (evmdd/evmdd.h) on the diagrams that         *)
(* EvmddApply builds: it returns a diagram of the same function in which   *)
(* every edge spans one level and the source node is at the top level.     *)
(*                                                                         *)
(* The recursion over the nodes is a stack of activation records.  A node  *)
(* that a recursive call returns is raised, one filler node at a time, to  *)
(* the level below the node it becomes a child of.  All nodes go to the    *)
(* store of the factory, where apply finds them too; the client may apply  *)
(* operators to quasi-reduced diagrams.                                    *)
(***************************************************************************)
EXTENDS EvmddApply

VARIABLES
  reduce_call,    \* the running call of quasi_reduce, or the last one and its result
  reduce_stack,   \* activation records, the outermost first
  processed,      \* node -> its quasi-reduced version
  rising          \* the nodes (at most one) that fill_layers is raising

reduceVars == <<reduce_call, reduce_stack, processed, rising>>

(* The law of monoid.h that fill_layers needs: what the edges of its nodes *)
(* carry changes no weight.                                                *)
ASSUME RightNeutralAssumption ==
  \A kind \in Kind : \A a \in Carrier(kind) : Plus(kind, a, Neutral(kind)) = a

NoReduction == [status |-> "none"]

ReduceInit ==
  /\ Init
  /\ reduce_call = NoReduction
  /\ reduce_stack = <<>>
  /\ processed = Empty
  /\ rising = {}

Reducing == reduce_call.status = "running"

ReduceTop == reduce_stack[Len(reduce_stack)]

ReduceFrame(p) == [node |-> p, pc |-> "enter", reduced_edges |-> <<>>]

(* The client calls quasi_reduce(e) on factory f. *)
StartReduction(f, e) ==
  /\ Idle /\ ~ Reducing
  /\ factories[f] = e.src.kind
  /\ Cardinality(held) < MaxHeld
  /\ reduce_call' = [status |-> "running", fac |-> f, e |-> e]
  /\ reduce_stack' = <<ReduceFrame(e.src)>>
  /\ UNCHANGED <<vars, processed, rising>>

(* The innermost activation returns p, which fill_layers will then raise. *)
ReturnNode(p) ==
  /\ reduce_stack' = SubSeq(reduce_stack, 1, Len(reduce_stack) - 1)
  /\ rising' = {p}

AtEntry == Reducing /\ rising = {} /\ ReduceTop.pc = "enter"

(* A mutated form of ReduceChild. *)
ReduceChildSkipsLast ==
  LET i == Len(ReduceTop.reduced_edges) + 1
  IN  /\ Reducing /\ rising = {} /\ ReduceTop.pc = "edges"
      /\ i < Len(heap[ReduceTop.node].children)
      /\ reduce_stack' = Append(reduce_stack,
                                ReduceFrame(heap[ReduceTop.node].children[i].to))
      /\ UNCHANGED <<vars, reduce_call, processed, rising>>

(* A terminal node, or one that was reduced before. *)
KnownNode ==
  /\ AtEntry
  /\ \/ IsTerminal(ReduceTop.node) /\ ReturnNode(ReduceTop.node)
     \/ /\ ReduceTop.node \in DOMAIN processed
        /\ ReturnNode(processed[ReduceTop.node])
  /\ UNCHANGED <<vars, reduce_call, processed>>

EnterNode ==
  /\ AtEntry
  /\ ~ IsTerminal(ReduceTop.node)
  /\ ReduceTop.node \notin DOMAIN processed
  /\ reduce_stack' = [reduce_stack EXCEPT ![Len(reduce_stack)].pc = "edges"]
  /\ UNCHANGED <<vars, reduce_call, processed, rising>>

(* The recursive call for the next edge. *)
ReduceChild ==
  LET i == Len(ReduceTop.reduced_edges) + 1
  IN  /\ Reducing /\ rising = {} /\ ReduceTop.pc = "edges"
      /\ i <= Len(heap[ReduceTop.node].children)
      /\ reduce_stack' = Append(reduce_stack,
                                ReduceFrame(heap[ReduceTop.node].children[i].to))
      /\ UNCHANGED <<vars, reduce_call, processed, rising>>

(* All edges are there: make_node, processed[node] = result and return. *)
ReduceNode ==
  LET level  == heap[ReduceTop.node].level
      result == NodeAt(reduce_call.fac, level, ReduceTop.reduced_edges)
  IN  /\ Reducing /\ rising = {} /\ ReduceTop.pc = "edges"
      /\ Len(ReduceTop.reduced_edges) = Len(heap[ReduceTop.node].children)
      /\ StoreNode(reduce_call.fac, level, ReduceTop.reduced_edges)
      /\ processed' = Put(processed, ReduceTop.node, result)
      /\ ReturnNode(result)
      /\ UNCHANGED <<factories, registry, evmdd_cache, stack, call, held, outcome,
                     calls, reduce_call>>

----------------------------------------------------------------------------
(* fill_layers(node, target_level), where node is in rising. *)

(* A mutated form of TargetLevel. *)
TargetLevelAtSize ==
  IF reduce_stack = <<>> THEN NumLevels ELSE heap[ReduceTop.node].level

TargetLevel ==
  IF reduce_stack = <<>> THEN NumLevels + 1 ELSE heap[ReduceTop.node].level

(* Mutated forms of the loop. *)
FillLayerOneMore(node) ==
  LET i     == heap[node].level + 1
      edges == [d \in 1 .. DomainSize[i] |-> [w |-> Neutral(node.kind), to |-> node]]
  IN  /\ i <= TargetLevel /\ i <= NumLevels
      /\ StoreNode(reduce_call.fac, i, edges)
      /\ rising' = {NodeAt(reduce_call.fac, i, edges)}
      /\ UNCHANGED <<factories, registry, evmdd_cache, stack, call, held, outcome, calls,
                     reduce_call, reduce_stack, processed>>

LayersFilledAtFront(node) ==
  /\ heap[node].level + 1 >= TargetLevel
  /\ rising' = {}
  /\ \/ LET n == Len(reduce_stack)
            i == Len(ReduceTop.reduced_edges) + 1
            w == heap[ReduceTop.node].children[i].w
        IN  /\ n > 0
            /\ reduce_stack' = [reduce_stack EXCEPT ![n].reduced_edges =
                                  <<[w |-> w, to |-> node]>> \o @]
            /\ UNCHANGED <<vars, reduce_call, processed>>
     \/ LET result == [src |-> node, input |-> reduce_call.e.input]
        IN  /\ reduce_stack = <<>>
            /\ held' = held \cup {result}
            /\ reduce_call' = [status |-> "returned", fac |-> reduce_call.fac,
                               e |-> reduce_call.e, result |-> result]
            /\ processed' = Empty
            /\ UNCHANGED <<factories, id_cache, registry, heap, evmdd_cache, stack, call,
                           outcome, calls, reduce_stack>>

(* One turn of the loop: a node whose edges all lead to the one below. *)
FillLayer(node) ==
  LET i     == heap[node].level + 1
      edges == [d \in 1 .. DomainSize[i] |-> [w |-> Neutral(node.kind), to |-> node]]
  IN  /\ i < TargetLevel
      /\ StoreNode(reduce_call.fac, i, edges)
      /\ rising' = {NodeAt(reduce_call.fac, i, edges)}
      /\ UNCHANGED <<factories, registry, evmdd_cache, stack, call, held, outcome, calls,
                     reduce_call, reduce_stack, processed>>

(* The loop is over: the node is the next child, or the new source node. *)
LayersFilled(node) ==
  /\ heap[node].level + 1 >= TargetLevel
  /\ rising' = {}
  /\ \/ LET n == Len(reduce_stack)
            i == Len(ReduceTop.reduced_edges) + 1
            w == heap[ReduceTop.node].children[i].w
        IN  /\ n > 0
            /\ reduce_stack' = [reduce_stack EXCEPT ![n].reduced_edges =
                                  Append(@, [w |-> w, to |-> node])]
            /\ UNCHANGED <<vars, reduce_call, processed>>
     \/ LET result == [src |-> node, input |-> reduce_call.e.input]
        IN  /\ reduce_stack = <<>>
            /\ held' = held \cup {result}
            /\ reduce_call' = [status |-> "returned", fac |-> reduce_call.fac,
                               e |-> reduce_call.e, result |-> result]
            /\ processed' = Empty
            /\ UNCHANGED <<factories, id_cache, registry, heap, evmdd_cache, stack, call,
                           outcome, calls, reduce_stack>>

ReduceStep ==
  \/ KnownNode \/ EnterNode \/ ReduceChild \/ ReduceNode
  \/ \E node \in rising : FillLayer(node) \/ LayersFilled(node)

ReduceNext ==
  \/ ~ Reducing /\ Next /\ reduce_call' = NoReduction
     /\ UNCHANGED <<reduce_stack, processed, rising>>
  \/ \E f \in Live, e \in held : StartReduction(f, e)
  \/ ReduceStep

ReduceSpec ==
  ReduceInit /\ [][ReduceNext]_<<vars, reduceVars>> /\ WF_<<vars, reduceVars>>(ReduceStep)

----------------------------------------------------------------------------
(* "for each node, the level of all children is exactly one less, i.e. all *)
(* edges span exactly one level" (evmdd.h), below p.                       *)
SpansOneLevel ==
  LET spans[p \in DOMAIN heap] ==
        \A i \in DOMAIN heap[p].children :
          /\ heap[heap[p].children[i].to].level = heap[p].level - 1
          /\ spans[heap[p].children[i].to]
  IN  spans

IsQuasiReduced(e) == SpansOneLevel[e.src] /\ LevelOf(e) = NumLevels

(* Types, and the discipline of the recursion: each activation works on    *)
(* the child its caller needs next, a node is reduced once in a call       *)
(* however many edges lead to it, and a node that rises has not risen      *)
(* above the node it is to become a child of.                              *)
ReduceTypeOK ==
  /\ \A p \in DOMAIN processed :
       /\ p \in DOMAIN heap /\ processed[p] \in DOMAIN heap
       /\ heap[processed[p]].level = heap[p].level
  /\ \A i \in DOMAIN reduce_stack :
       reduce_stack[i].pc = "edges" => reduce_stack[i].node \notin DOMAIN processed
  /\ \A i \in 1 .. Len(reduce_stack) - 1 :
       LET caller == reduce_stack[i]
       IN  reduce_stack[i + 1].node =
             heap[caller.node].children[Len(caller.reduced_edges) + 1].to
  /\ Reducing => \A node \in rising : node \in DOMAIN heap /\ heap[node].level < TargetLevel
  /\ reduce_stack # <<>> => Reducing

(* quasi_reduce returns a quasi-reduced diagram of the same function, also *)
(* of a diagram whose nodes another factory owns.                          *)
ReducesCorrectly ==
  reduce_call.status = "returned" =>
    /\ IsQuasiReduced(reduce_call.result)
    /\ \A s \in State : Value(s)[reduce_call.result] = Value(s)[reduce_call.e]

(* Quasi-reducing what is quasi-reduced changes nothing: make_node finds   *)
(* the nodes that are there.                                               *)
ReductionIsIdempotent ==
  (reduce_call.status = "returned" /\ IsQuasiReduced(reduce_call.e))
    => reduce_call.result = reduce_call.e

(* Every reduction ends. *)
ReductionEnds == Reducing ~> ~ Reducing
=============================================================================
