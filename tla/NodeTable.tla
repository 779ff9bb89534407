----------------------------- MODULE NodeTable -----------------------------
(***************************************************************************)
(* The unique table of evmdd/node_factory.h, as operators on its value.    *)
(*                                                                         *)
(* NodeFactory keeps id_cache, a map from hash keys to node pointers.  A   *)
(* node is the record [level, children]; children is a sequence of edges   *)
(* [w, to], one per domain value, so that the code's children[d] is        *)
(* children[d + 1] here.  The node's variable is not modelled: in a        *)
(* factory it is always ordering[level - 1], and neither the hash nor any  *)
(* comparison looks at it.                                                 *)
(***************************************************************************)
EXTENDS Naturals, Sequences, FiniteSets

CONSTANTS
  Hash(_, _),     \* hash_value(level, children)
  TerminalKey     \* the key of the terminal node, 0 in the code

TerminalNode == [level |-> 0, children |-> <<>>]

(* table[key] = value, for a key that may be new. *)
Put(table, key, value) ==
  [k \in DOMAIN table \cup {key} |-> IF k = key THEN value ELSE table[k]]

(* The lookup of make_node.  Only the keys are compared. *)
IsStored(id_cache, level, children) ==
  Hash(level, children) \in DOMAIN id_cache

(* The id of a node that is about to be stored.  The probe                 *)
(* `if (id_cache[key])' has already inserted a null entry under the key    *)
(* when make_node asks for size(), so the first node after the terminal    *)
(* has id 2 and no node ever has id 1.                                     *)
NextId(id_cache) == Cardinality(DOMAIN id_cache) + 1

(* No two structures share a key, and none has the terminal node's (the    *)
(* assert of make_node).  A 64 bit hash cannot guarantee this; it is the   *)
(* assumption under which the store is correct.                            *)
HashIsInjective ==
  \A level1, children1, level2, children2 :
    /\ Hash(level1, children1) # TerminalKey
    /\ Hash(level1, children1) = Hash(level2, children2)
         => level1 = level2 /\ children1 = children2
=============================================================================
