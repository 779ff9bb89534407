------------------------- MODULE MCVariableOrdering -------------------------
(* VariableOrdering and Expressions on small instances. *)
EXTENDS VariableOrdering

SmallNumbers == {Zero, One, Whole(2)}

(* The operators of each treatment, with the operand counts of both        *)
(* parsers: infix operators are binary, prefix ones take any number.       *)
EveryArity ==
  ("+" :> {1, 2, 3}) @@ ("*" :> {2, 3}) @@ ("/" :> {2, 3}) @@ ("-" :> {1, 2}) @@ (">" :> {2})
    @@ ("==" :> {2}) @@ ("&&" :> {2, 3}) @@ ("||" :> {2}) @@ ("!" :> {1}) @@ ("abs" :> {1})

(* Sums of variables may be larger than terms with other symbols. *)
SumsLarger ==
  [symbol \in DOMAIN EveryArity \cup {"var", "cst"} |->
     IF symbol \in {"+", "var"} THEN 7
     ELSE IF symbol \in {"*", "/", "-", "cst"} THEN 5 ELSE 4]

(* No variable, some of them, and all. *)
SomeEnvs ==
  {<<>>, "x" :> Whole(2), "y" :> Zero, ("x" :> One) @@ ("y" :> Whole(2)),
   ("x" :> One) @@ ("y" :> Zero) @@ ("z" :> Whole(2))}
=============================================================================
