------------------------ MODULE NodeFactory_proofs ------------------------
(***************************************************************************)
(* Proofs about NodeFactory: what its table guarantees for every set of    *)
(* weights, every number of levels and children, and every key function -  *)
(* and what it guarantees only when the key function has no collisions.    *)
(***************************************************************************)
EXTENDS NodeFactory, TLAPS, FiniteSetTheorems

(* No id was handed out above the number of table entries, so that the     *)
(* next id is new.                                                         *)
IdsBounded ==
  /\ IsFiniteSet(DOMAIN id_cache)
  /\ \A p \in DOMAIN node : p <= Cardinality(DOMAIN id_cache)

TypeInv == TypeOK /\ IdsBounded

(* What create_evmdd may ask for is the structure of a node. *)
LEMMA ChildrenAreEdges ==
  ASSUME TypeOK, NEW level \in 1 .. NumLevels, NEW children \in Children(level)
  PROVE  [level |-> level, children |-> children] \in Node
<1>1. DOMAIN node \subseteq Nat
  BY DEF TypeOK
<1>2. children \in [1 .. Arity -> Edge]
  BY <1>1 DEF Children, Edge
<1>3. children \in Seq(Edge)
  BY <1>2, NodeFactoryAssumption
<1>. QED
  BY <1>3, NodeFactoryAssumption DEF Node

(* What storing a new node changes. *)
LEMMA Stored ==
  ASSUME TypeInv, NEW level \in 1 .. NumLevels, NEW children \in Children(level),
         MakeNewNode(level, children)
  PROVE  \E id, key :
           /\ id \in Nat
           /\ key = Hash(level, children) /\ key \notin DOMAIN id_cache
           /\ id \notin DOMAIN node
           /\ id # 0
           /\ id = Cardinality(DOMAIN id_cache) + 1
           /\ DOMAIN id_cache' = DOMAIN id_cache \cup {key}
           /\ id_cache'[key] = id
           /\ \A k \in DOMAIN id_cache : id_cache'[k] = id_cache[k]
           /\ DOMAIN node' = DOMAIN node \cup {id}
           /\ node'[id] = [level |-> level, children |-> children]
           /\ \A p \in DOMAIN node : node'[p] = node[p]
           /\ last' = [node |-> [level |-> level, children |-> children], result |-> id]
           /\ node' = [p \in DOMAIN node' |-> node'[p]]
           /\ id_cache' = [k \in DOMAIN id_cache' |-> id_cache'[k]]
<1>1. PICK id, key : id = NextId(id_cache) /\ key = Hash(level, children)
  OBVIOUS
<1>2. /\ key \notin DOMAIN id_cache
      /\ id_cache' = Put(id_cache, key, id)
      /\ node' = Put(node, id, [level |-> level, children |-> children])
      /\ last' = [node |-> [level |-> level, children |-> children], result |-> id]
  BY <1>1 DEF MakeNewNode, IsStored
<1>3. Cardinality(DOMAIN id_cache) \in Nat
  BY FS_CardinalityType DEF TypeInv, IdsBounded
<1>4. id = Cardinality(DOMAIN id_cache) + 1 /\ id \in Nat /\ id # 0
  BY <1>1, <1>3 DEF NextId
<1>5. id \notin DOMAIN node
  BY <1>3, <1>4 DEF TypeInv, IdsBounded
<1>. QED
  BY <1>1, <1>2, <1>4, <1>5 DEF Put

(* Both outcomes of make_node keep the types and the bound on the ids. *)
LEMMA TypeInvIsKept ==
  ASSUME TypeInv, [Next]_vars
  PROVE  TypeInv'
<1>1. CASE UNCHANGED vars
  BY <1>1 DEF TypeInv, TypeOK, IdsBounded, vars
<1>2. ASSUME NEW level \in 1 .. NumLevels, NEW children \in Children(level),
             MakeNewNode(level, children)
      PROVE  TypeInv'
  <2>1. PICK id, key :
           /\ id \in Nat
           /\ key \notin DOMAIN id_cache
           /\ id = Cardinality(DOMAIN id_cache) + 1
           /\ DOMAIN id_cache' = DOMAIN id_cache \cup {key}
           /\ id_cache'[key] = id
           /\ \A k \in DOMAIN id_cache : id_cache'[k] = id_cache[k]
           /\ DOMAIN node' = DOMAIN node \cup {id}
           /\ node'[id] = [level |-> level, children |-> children]
           /\ \A p \in DOMAIN node : node'[p] = node[p]
           /\ last' = [node |-> [level |-> level, children |-> children], result |-> id]
           /\ node' = [p \in DOMAIN node' |-> node'[p]]
           /\ id_cache' = [k \in DOMAIN id_cache' |-> id_cache'[k]]
    BY <1>2, Stored
  <2>2. [level |-> level, children |-> children] \in Node
    BY ChildrenAreEdges DEF TypeInv
  <2>3. TypeOK'
    <3>1. DOMAIN node' \subseteq Nat
      BY <2>1 DEF TypeInv, TypeOK
    <3>2. \A p \in DOMAIN node' : node'[p] \in Node
      BY <2>1, <2>2 DEF TypeInv, TypeOK
    <3>3. \A k \in DOMAIN id_cache' : id_cache'[k] \in DOMAIN node'
      BY <2>1 DEF TypeInv, TypeOK
    <3>4. last' \in [node : Node, result : DOMAIN node']
      BY <2>1, <2>2
    <3>5. node' \in [DOMAIN node' -> Node] /\ id_cache' \in [DOMAIN id_cache' -> DOMAIN node']
      BY <2>1, <3>2, <3>3
    <3>. QED
      BY <3>1, <3>4, <3>5 DEF TypeOK, Node, Edge
  <2>4. IdsBounded'
    <3>1. IsFiniteSet(DOMAIN id_cache) /\ Cardinality(DOMAIN id_cache) \in Nat
      BY FS_CardinalityType DEF TypeInv, IdsBounded
    <3>2. /\ IsFiniteSet(DOMAIN id_cache')
          /\ Cardinality(DOMAIN id_cache') = Cardinality(DOMAIN id_cache) + 1
      BY <2>1, <3>1, FS_AddElement
    <3>3. ASSUME NEW p \in DOMAIN node'
          PROVE  p <= Cardinality(DOMAIN id_cache')
      <4>1. CASE p = id
        BY <2>1, <3>1, <3>2, <4>1
      <4>2. CASE p \in DOMAIN node
        <5>1. p \in Nat /\ p <= Cardinality(DOMAIN id_cache)
          BY <4>2 DEF TypeInv, TypeOK, IdsBounded
        <5>. QED
          BY <3>1, <3>2, <5>1
      <4>. QED
        BY <2>1, <4>1, <4>2
    <3>. QED
      BY <3>2, <3>3 DEF IdsBounded
  <2>. QED
    BY <2>3, <2>4 DEF TypeInv
<1>3. ASSUME NEW level \in 1 .. NumLevels, NEW children \in Children(level),
             FindNode(level, children)
      PROVE  TypeInv'
  <2>1. [level |-> level, children |-> children] \in Node
    BY ChildrenAreEdges DEF TypeInv
  <2>. QED
    BY <1>3, <2>1 DEF FindNode, IsStored, TypeInv, TypeOK, IdsBounded
<1>. QED
  BY <1>1, <1>2, <1>3 DEF Next

(* They hold in a table with only the terminal node. *)
LEMMA TypeInvHoldsInitially ==
  ASSUME Init
  PROVE  TypeInv
<1>1. TypeOK
  <2>1. <<>> \in Seq(Edge)
    OBVIOUS
  <2>2. TerminalNode \in Node
    BY <2>1, NodeFactoryAssumption DEF Node, TerminalNode
  <2>. QED
    BY <2>2 DEF Init, TypeOK
<1>2. IdsBounded
  <2>1. DOMAIN id_cache = {TerminalKey} /\ DOMAIN node = {0}
    BY DEF Init
  <2>2. IsFiniteSet({TerminalKey}) /\ Cardinality({TerminalKey}) = 1
    BY FS_Singleton
  <2>. QED
    BY <2>1, <2>2 DEF IdsBounded
<1>. QED
  BY <1>1, <1>2 DEF TypeInv

(* The table refers to stored nodes only, whatever the key function.       *)
THEOREM TypeCorrect == Spec => []TypeOK
<1>1. Init => TypeInv
  BY TypeInvHoldsInitially
<1>2. TypeInv /\ [Next]_vars => TypeInv'
  BY TypeInvIsKept
<1>3. TypeInv => TypeOK
  BY DEF TypeInv
<1>. QED
  BY <1>1, <1>2, <1>3, PTL DEF Spec

(* make_node never changes or drops a node it has made, even if keys       *)
(* collide: the id of a new node is one that no stored node has.           *)
THEOREM NodesStay == Spec => NodesPersist
<1> DEFINE Persist ==
      /\ \A p \in DOMAIN node : p \in DOMAIN node' /\ node'[p] = node[p]
      /\ \A key \in DOMAIN id_cache : key \in DOMAIN id_cache' /\ id_cache'[key] = id_cache[key]
<1>1. Init => TypeInv
  BY TypeInvHoldsInitially
<1>2. TypeInv /\ [Next]_vars => TypeInv'
  BY TypeInvIsKept
<1>3. TypeInv /\ [Next]_vars => [Persist]_vars
  <2> SUFFICES ASSUME TypeInv, Next
               PROVE  Persist
    OBVIOUS
  <2>1. ASSUME NEW level \in 1 .. NumLevels, NEW children \in Children(level),
               MakeNewNode(level, children)
        PROVE  Persist
    BY <2>1, Stored
  <2>2. ASSUME NEW level \in 1 .. NumLevels, NEW children \in Children(level),
               FindNode(level, children)
        PROVE  Persist
    BY <2>2 DEF FindNode
  <2>. QED
    BY <2>1, <2>2 DEF Next
<1>. QED
  BY <1>1, <1>2, <1>3, PTL DEF Spec, NodesPersist

----------------------------------------------------------------------------
(* The table finds every node under the key of its structure, and finds    *)
(* nothing else; the terminal node is the only one on level 0.             *)
KeysMatch ==
  /\ \A p \in DOMAIN node :
       p # 0 => /\ Hash(node[p].level, node[p].children) \in DOMAIN id_cache
                /\ id_cache[Hash(node[p].level, node[p].children)] = p
  /\ \A p \in DOMAIN node : p # 0 => node[p].level # 0
  /\ \A key \in DOMAIN id_cache :
       key # TerminalKey =>
         /\ id_cache[key] # 0
         /\ key = Hash(node[id_cache[key]].level, node[id_cache[key]].children)
  /\ 0 \in DOMAIN node /\ node[0] = TerminalNode

UniqueInv == TypeInv /\ KeysMatch /\ ReturnsRequested

(* Both outcomes of make_node keep every entry under the key of its node. *)
LEMMA UniqueInvIsKept ==
  ASSUME HashIsInjective, UniqueInv, [Next]_vars
  PROVE  UniqueInv'
<1>1. TypeInv /\ TypeInv'
  BY TypeInvIsKept DEF UniqueInv
<1>2. CASE UNCHANGED vars
  BY <1>1, <1>2 DEF UniqueInv, KeysMatch, ReturnsRequested, vars
<1>3. ASSUME NEW level \in 1 .. NumLevels, NEW children \in Children(level),
             MakeNewNode(level, children)
      PROVE  UniqueInv'
  <2>1. PICK id, key :
           /\ id \in Nat
           /\ key = Hash(level, children) /\ key \notin DOMAIN id_cache
           /\ id \notin DOMAIN node
           /\ id # 0
           /\ id = Cardinality(DOMAIN id_cache) + 1
           /\ DOMAIN id_cache' = DOMAIN id_cache \cup {key}
           /\ id_cache'[key] = id
           /\ \A k \in DOMAIN id_cache : id_cache'[k] = id_cache[k]
           /\ DOMAIN node' = DOMAIN node \cup {id}
           /\ node'[id] = [level |-> level, children |-> children]
           /\ \A p \in DOMAIN node : node'[p] = node[p]
           /\ last' = [node |-> [level |-> level, children |-> children], result |-> id]
           /\ node' = [p \in DOMAIN node' |-> node'[p]]
           /\ id_cache' = [k \in DOMAIN id_cache' |-> id_cache'[k]]
    BY <1>1, <1>3, Stored
  <2>2. ReturnsRequested'
    BY <2>1 DEF ReturnsRequested
  <2>3. \A k \in DOMAIN id_cache : id_cache[k] \in DOMAIN node
    BY <1>1 DEF TypeInv, TypeOK
  <2>4. KeysMatch'
    <3>1. ASSUME NEW p \in DOMAIN node', p # 0
          PROVE  /\ Hash(node'[p].level, node'[p].children) \in DOMAIN id_cache'
                 /\ id_cache'[Hash(node'[p].level, node'[p].children)] = p
      <4>1. CASE p = id
        <5>1. node'[p].level = level /\ node'[p].children = children
          BY <2>1, <4>1
        <5>. QED
          BY <2>1, <4>1, <5>1
      <4>2. CASE p \in DOMAIN node
        BY <2>1, <3>1, <4>2 DEF UniqueInv, KeysMatch
      <4>. QED
        BY <2>1, <4>1, <4>2
    <3>2. \A p \in DOMAIN node' : p # 0 => node'[p].level # 0
      BY <2>1 DEF UniqueInv, KeysMatch
    <3>3. \A k \in DOMAIN id_cache' :
            k # TerminalKey =>
              /\ id_cache'[k] # 0
              /\ k = Hash(node'[id_cache'[k]].level, node'[id_cache'[k]].children)
      BY <2>1, <2>3 DEF UniqueInv, KeysMatch
    <3>4. 0 \in DOMAIN node' /\ node'[0] = TerminalNode
      BY <2>1 DEF UniqueInv, KeysMatch
    <3>. QED
      BY <3>1, <3>2, <3>3, <3>4 DEF KeysMatch
  <2>. QED
    BY <1>1, <2>2, <2>4 DEF UniqueInv
<1>4. ASSUME NEW level \in 1 .. NumLevels, NEW children \in Children(level),
             FindNode(level, children)
      PROVE  UniqueInv'
  <2>1. KeysMatch'
    BY <1>4 DEF FindNode, UniqueInv, KeysMatch
  <2>2. PICK key : key = Hash(level, children)
    OBVIOUS
  <2>3. /\ key \in DOMAIN id_cache /\ key # TerminalKey
        /\ last' = [node |-> [level |-> level, children |-> children], result |-> id_cache[key]]
        /\ UNCHANGED <<id_cache, node>>
    BY <1>4, <2>2 DEF FindNode, IsStored, HashIsInjective
  <2>4. PICK p \in DOMAIN node : p = id_cache[key]
    BY <1>1, <2>3 DEF TypeInv, TypeOK
  <2>5. key = Hash(node[p].level, node[p].children)
    BY <2>3, <2>4 DEF UniqueInv, KeysMatch
  <2>6. node[p].level = level /\ node[p].children = children
    <3>1. Hash(level, children) = Hash(node[p].level, node[p].children)
      BY <2>2, <2>5
    <3>. QED
      BY <3>1 DEF HashIsInjective
  <2>7. node[p] = [level |-> level, children |-> children]
    <3>1. node[p] \in Node
      BY <1>1 DEF TypeInv, TypeOK
    <3>. QED
      BY <2>6, <3>1 DEF Node
  <2>8. ReturnsRequested'
    BY <2>3, <2>4, <2>7 DEF ReturnsRequested
  <2>. QED
    BY <1>1, <2>1, <2>8 DEF UniqueInv
<1>. QED
  BY <1>2, <1>3, <1>4 DEF Next

(* That holds in a table with only the terminal node. *)
LEMMA UniqueInvHoldsInitially ==
  ASSUME Init
  PROVE  UniqueInv
<1>1. TypeInv
  BY TypeInvHoldsInitially
<1>2. KeysMatch /\ ReturnsRequested
  BY DEF Init, KeysMatch, ReturnsRequested
<1>. QED
  BY <1>1, <1>2 DEF UniqueInv

(* Then no two nodes have one structure, for they would have one key. *)
LEMMA KeysTellNodesApart ==
  ASSUME KeysMatch
  PROVE  NoDuplicates
<1> SUFFICES ASSUME NEW p \in DOMAIN node, NEW q \in DOMAIN node, node[p] = node[q]
             PROVE  p = q
  BY DEF NoDuplicates
<1>1. CASE p = 0 \/ q = 0
  BY <1>1 DEF KeysMatch, TerminalNode
<1>2. CASE p # 0 /\ q # 0
  BY <1>2 DEF KeysMatch
<1>. QED
  BY <1>1, <1>2

(* No structure is stored twice. *)
THEOREM NodesAreUnique ==
  ASSUME HashIsInjective
  PROVE  Spec => []NoDuplicates
<1>1. Init => UniqueInv
  BY UniqueInvHoldsInitially
<1>2. UniqueInv /\ [Next]_vars => UniqueInv'
  BY UniqueInvIsKept
<1>3. UniqueInv => NoDuplicates
  BY KeysTellNodesApart DEF UniqueInv
<1>. QED
  BY <1>1, <1>2, <1>3, PTL DEF Spec

(* make_node answers with the node that was asked for. *)
THEOREM RequestsAreAnswered ==
  ASSUME HashIsInjective
  PROVE  Spec => []ReturnsRequested
<1>1. Init => UniqueInv
  BY UniqueInvHoldsInitially
<1>2. UniqueInv /\ [Next]_vars => UniqueInv'
  BY UniqueInvIsKept
<1>3. UniqueInv => ReturnsRequested
  BY DEF UniqueInv
<1>. QED
  BY <1>1, <1>2, <1>3, PTL DEF Spec
=============================================================================
