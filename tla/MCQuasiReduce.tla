--------------------------- MODULE MCQuasiReduce ---------------------------
(* QuasiReduce on small instances. *)
EXTENDS MCEvmddApply, QuasiReduce

(* Three variables, of which the client uses the outer two. *)
ThreeVars == <<2, 1, 2>>
OuterVars == {[kind |-> "int", level |-> v, values |-> <<0, 1>>] : v \in {1, 3}}
=============================================================================
