------------------------ MODULE MCPartialEvaluation ------------------------
(* PartialEvaluation on small instances. *)
EXTENDS MCEvmddApply, PartialEvaluation

(* Effects and costs that depend on either variable. *)
EffectVars == {[kind |-> "Facts", level |-> 1, values |-> <<{}, {"u"}>>],
               [kind |-> "Facts", level |-> 2, values |-> <<{"u"}, {"v"}>>]}
CostVars   == {[kind |-> "int", level |-> 1, values |-> <<2, 1>>],
               [kind |-> "int", level |-> 2, values |-> <<0, 1>>]}
EffectCostVars == EffectVars \cup CostVars

(* x with values 0 and 1, y with values 1 and 2, and the constant 1. *)
FactorVars  == {[kind |-> "int", level |-> 1, values |-> <<0, 1>>],
                [kind |-> "int", level |-> 2, values |-> <<1, 2>>]}
FactorConst == {[kind |-> "int", w |-> 1]}

(* Nothing said; the lower variable in reverse order; the lower variable   *)
(* fixed and the upper one in reverse order.                               *)
SomePartialStates ==
  {Empty, 1 :> <<2, 1>>, (1 :> <<2>>) @@ (2 :> <<2, 1>>)}

(* The partial state of get_max. *)
NoRestriction == {Empty}
=============================================================================
