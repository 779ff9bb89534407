------------------------ MODULE MCConditionalEffects ------------------------
(* ConditionalEffects on small instances. *)
EXTENDS MCEvmddApply, ConditionalEffects

(* x with the values 0 and 1, y with 0, 1 and 2. *)
BitAndTrit == <<2, 3>>

DomainVars ==
  {[kind |-> "int", level |-> v, values |-> DomainValues(v)] : v \in Level}

ProgramConst ==
  {[kind |-> "int", w |-> w] : w \in TermConst}
    \cup {[kind |-> "Facts", w |-> w] : w \in {{}} \cup {{f} : f \in Fact}}

(* Unary and binary operators, and one with up to three operands. *)
SomeOps ==
  ("minus" :> {2, 3}) @@ ("equal_to" :> {2}) @@ ("logic_and" :> {2}) @@ ("logic_not" :> {1})
=============================================================================
