---------------------------- MODULE MCEvmddApply ----------------------------
(* EvmddApply with the monoids and operators of the library, on small instances. *)
EXTENDS EvmddApply, Operations

(* A key function without collisions. *)
StructureHash(level, children) == <<level, children>>
StructureTerminalKey == <<0, <<>>>>

(* Two variables with two values each. *)
TwoBits == <<2, 2>>

(* Functors have a type each. *)
FunctorType(op) == op

(* x and y, numbered as CreateEvmdd numbers domain values, and constants. *)
BitVars     == {[kind |-> "int", level |-> v, values |-> <<0, 1>>] : v \in {1, 2}}
NumberVars  == BitVars
NumberConst == {[kind |-> "int", w |-> 2]}
=============================================================================
