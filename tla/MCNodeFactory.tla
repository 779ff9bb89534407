--------------------------- MODULE MCNodeFactory ---------------------------
(* NodeFactory on a small instance. *)
EXTENDS NodeFactory

(* A key function without collisions. *)
StructureHash(level, children) == <<level, children>>
StructureTerminalKey == <<0, <<>>>>
=============================================================================
