---------------------------- MODULE NodeFactory ----------------------------
(***************************************************************************)
(* One NodeFactory (evmdd/node_factory.h): the store that gives every node *)
(* structure one address.  Nodes of one factory are told apart by their    *)
(* id, which stands for the address of the node here.                      *)
(***************************************************************************)
EXTENDS NodeTable

CONSTANTS
  NumLevels,    \* levels 1 .. NumLevels are those of the variables
  Weight,       \* edge weights
  Arity,        \* number of children of a non-terminal node
  MaxNodes      \* bound on the number of stored nodes

ASSUME NodeFactoryAssumption ==
  /\ NumLevels \in Nat
  /\ Arity \in Nat \ {0}
  /\ MaxNodes \in Nat

VARIABLES
  id_cache,     \* key -> id of the node stored under it
  node,         \* id -> the node
  last          \* history: the last request to make_node and the id returned

vars == <<id_cache, node, last>>

Edge == [w : Weight, to : Nat]
Node == [level : 0 .. NumLevels, children : Seq(Edge)]

(* What the callers of make_node pass: edges to nodes of lower levels. *)
Children(level) ==
  [1 .. Arity -> [w : Weight, to : {p \in DOMAIN node : node[p].level < level}]]

Init ==
  /\ id_cache = [key \in {TerminalKey} |-> 0]
  /\ node = [id \in {0} |-> TerminalNode]
  /\ last = [node |-> TerminalNode, result |-> 0]

(* Mutated forms of make_node. *)
MakeNodeIdOffByOne(level, children) ==
  LET key == Hash(level, children)
      id  == Cardinality(DOMAIN id_cache) - 1
  IN  /\ ~ IsStored(id_cache, level, children)
      /\ Cardinality(DOMAIN node) < MaxNodes
      /\ id_cache' = Put(id_cache, key, id)
      /\ node' = Put(node, id, [level |-> level, children |-> children])
      /\ last' = [node |-> [level |-> level, children |-> children], result |-> id]

MakeNodeAlwaysNew(level, children) ==
  LET key == Hash(level, children)
      id  == Cardinality(DOMAIN node) + 1
  IN  /\ Cardinality(DOMAIN node) < MaxNodes
      /\ id_cache' = Put(id_cache, key, id)
      /\ node' = Put(node, id, [level |-> level, children |-> children])
      /\ last' = [node |-> [level |-> level, children |-> children], result |-> id]

MakeNodeKeyWithoutLevel(level, children) ==
  LET key == Hash(1, children)
      id  == NextId(id_cache)
  IN  /\ ~ IsStored(id_cache, 1, children)
      /\ Cardinality(DOMAIN node) < MaxNodes
      /\ id_cache' = Put(id_cache, key, id)
      /\ node' = Put(node, id, [level |-> level, children |-> children])
      /\ last' = [node |-> [level |-> level, children |-> children], result |-> id]

MakeNodeNotStored(level, children) ==
  LET key == Hash(level, children)
      id  == NextId(id_cache)
  IN  /\ ~ IsStored(id_cache, level, children)
      /\ id_cache' = Put(id_cache, key, id)
      /\ last' = [node |-> [level |-> level, children |-> children], result |-> id]
      /\ UNCHANGED node

(* make_node for a structure whose key is not in the table. *)
MakeNewNode(level, children) ==
  LET key == Hash(level, children)
      id  == NextId(id_cache)
  IN  /\ ~ IsStored(id_cache, level, children)
      /\ Cardinality(DOMAIN node) < MaxNodes
      /\ id_cache' = Put(id_cache, key, id)
      /\ node' = Put(node, id, [level |-> level, children |-> children])
      /\ last' = [node |-> [level |-> level, children |-> children], result |-> id]

(* make_node for a structure whose key is in the table. *)
FindNode(level, children) ==
  /\ IsStored(id_cache, level, children)
  /\ last' = [node   |-> [level |-> level, children |-> children],
              result |-> id_cache[Hash(level, children)]]
  /\ UNCHANGED <<id_cache, node>>

Next ==
  \E level \in 1 .. NumLevels : \E children \in Children(level) :
    MakeNewNode(level, children) \/ FindNode(level, children)

Spec == Init /\ [][Next]_vars

----------------------------------------------------------------------------
TypeOK ==
  /\ DOMAIN node \subseteq Nat
  /\ node \in [DOMAIN node -> Node]
  /\ id_cache \in [DOMAIN id_cache -> DOMAIN node]
  /\ last \in [node : Node, result : DOMAIN node]

(* No two stored nodes have the same level and edges: the diagrams built   *)
(* from them are reduced, and equality of diagrams is pointer comparison.  *)
NoDuplicates ==
  \A p, q \in DOMAIN node : node[p] = node[q] => p = q

(* make_node answers with the node that was asked for.  It compares only   *)
(* hash keys, so this needs the keys to be free of collisions.             *)
ReturnsRequested == node[last.result] = last.node

(* A stored node never changes and never disappears, and its key always    *)
(* leads to it: diagrams share nodes and hold on to their addresses.       *)
NodesPersist ==
  [][/\ \A p \in DOMAIN node : p \in DOMAIN node' /\ node'[p] = node[p]
     /\ \A key \in DOMAIN id_cache :
          key \in DOMAIN id_cache' /\ id_cache'[key] = id_cache[key]]_vars
=============================================================================
