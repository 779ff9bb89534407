-------------------------- MODULE VariableOrdering --------------------------
(***************************************************************************)
(* VariableOrdering (interpreters/variable_ordering.h, .cpp): the fan-in   *)
(* ordering of the variables of the terms that Expressions builds.         *)
(*                                                                         *)
(* The term is turned into a tree whose children are sorted by their       *)
(* topological order.  std::sort is not stable: children of one order may  *)
(* end up in any order among themselves.                                   *)
(***************************************************************************)
EXTENDS Expressions

VARIABLES
  Q,            \* the stack of trees, the top last
  var_order,    \* the ordering so far
  ordering      \* history: the term whose variables are ordered, and how far that is

orderVars == <<Q, var_order, ordering>>

ASTLeaf(e) ==
  [value |-> e.name, variable |-> e.op = "var", topo_order |-> 0, children |-> <<>>]

(* A mutated form of ASTNode. *)
ASTNodeUnsorted(e, children) ==
  {[value |-> "", variable |-> FALSE, topo_order |-> Last(children).topo_order + 1,
    children |-> children]}

(* The trees that the constructor of ASTNode may make of an operator and   *)
(* its children.                                                           *)
ASTNode(e, children) ==
  LET Sorted(p) == \A i \in 1 .. Len(children) - 1 :
                     children[p[i]].topo_order <= children[p[i + 1]].topo_order
      Permutation == {p \in [1 .. Len(children) -> 1 .. Len(children)] : IsInjective(p)}
  IN  {[value |-> "", variable |-> FALSE,
        topo_order |-> children[p[Len(children)]].topo_order + 1,
        children |-> [i \in 1 .. Len(children) |-> children[p[i]]]] :
         p \in {q \in Permutation : Sorted(q)}}

(* VariableOrdering::create_ast *)
RECURSIVE create_ast(_)
create_ast(e) ==
  IF e.rands = <<>> THEN {ASTLeaf(e)}
  ELSE LET trees == [i \in DOMAIN e.rands |-> create_ast(e.rands[i])]
       IN  UNION {ASTNode(e, children) :
                    children \in {c \in [DOMAIN e.rands -> UNION Range(trees)] :
                                    \A i \in DOMAIN c : c[i] \in trees[i]}}

----------------------------------------------------------------------------
NoOrdering == [status |-> "none"]

OrderInit ==
  /\ ExprInit
  /\ Q = <<>>
  /\ var_order = <<>>
  /\ ordering = NoOrdering

Ordering == ordering.status = "running"

(* The client calls get_fan_in_ordering. *)
get_fan_in_ordering ==
  /\ ~ Ordering /\ HasPolynomial
  /\ \E ast \in create_ast(Polynomial) : Q' = <<ast>>
  /\ var_order' = <<>>
  /\ ordering' = [status |-> "running", e |-> Polynomial]
  /\ answer' = NoAnswer
  /\ UNCHANGED <<terms, size, limit>>

Complete == Len(var_order) = Cardinality(dependencies(ordering.e))

(* A mutated form of Visit. *)
VisitAgain ==
  LET cur == Last(Q)
  IN  /\ Ordering /\ Q # <<>> /\ ~ Complete
      /\ Q' = Front(Q) \o cur.children
      /\ var_order' = IF cur.variable THEN Append(var_order, cur.value) ELSE var_order
      /\ UNCHANGED <<exprVars, ordering>>

(* A turn of the loop: the tree on top of the stack. *)
Visit ==
  LET cur == Last(Q)
  IN  /\ Ordering /\ Q # <<>> /\ ~ Complete
      /\ Q' = Front(Q) \o cur.children
      /\ var_order' = IF cur.variable /\ cur.value \notin Range(var_order)
                      THEN Append(var_order, cur.value) ELSE var_order
      /\ UNCHANGED <<exprVars, ordering>>

(* The function returns, early if all variables are ordered. *)
Ordered ==
  /\ Ordering
  /\ Q = <<>> \/ Complete
  /\ Q' = <<>>
  /\ ordering' = [ordering EXCEPT !.status = "returned"]
  /\ UNCHANGED <<exprVars, var_order>>

OrderNext ==
  \/ ~ Ordering /\ ExprNext /\ Q' = <<>> /\ var_order' = <<>> /\ ordering' = NoOrdering
  \/ get_fan_in_ordering \/ Visit \/ Ordered

OrderSpec == OrderInit /\ [][OrderNext]_<<exprVars, orderVars>>

----------------------------------------------------------------------------
RECURSIVE Depth(_)
Depth(e) ==
  IF e.rands = <<>> THEN 0
  ELSE 1 + Max({Depth(e.rands[i]) : i \in DOMAIN e.rands})

(* The number of times that v occurs in e. *)
RECURSIVE Occurrences(_, _)
Occurrences(v, e) ==
  IF e.op = "var" THEN (IF e.name = v THEN 1 ELSE 0)
  ELSE FoldLeft(LAMBDA n, sub : n + Occurrences(v, sub), 0, e.rands)

(* The variables of sub that occur nowhere else in e. *)
Own(sub, e) == {v \in dependencies(sub) : Occurrences(v, sub) = Occurrences(v, e)}

Position(v) == CHOOSE i \in DOMAIN var_order : var_order[i] = v

(* The ordering consists of the variables of the term, each once.  With a  *)
(* variable twice, or too early a return, levels of the diagram would      *)
(* belong to the wrong variable or to none.                                *)
OrdersAllVariables ==
  /\ ordering.status = "returned" => Range(var_order) = dependencies(ordering.e)
  /\ IsInjective(var_order)

(* Fan-in: the variables of an operand that shares none stay together, and *)
(* those of a deeper operand come before those of its siblings, in any     *)
(* nesting ("order[2] == c" for c*(a+b) in variable_ordering_tests.cpp).   *)
FollowsFanIn ==
  ordering.status = "returned" =>
    \A o \in Subterms(ordering.e) : \A i \in DOMAIN o.rands :
      LET own(k) == {Position(v) : v \in Own(o.rands[k], ordering.e)}
      IN  /\ (own(i) # {} /\ dependencies(o.rands[i]) = Own(o.rands[i], ordering.e))
               => own(i) = Min(own(i)) .. Max(own(i))
          /\ \A j \in DOMAIN o.rands : Depth(o.rands[i]) > Depth(o.rands[j]) =>
               \A p \in own(i), q \in own(j) : p < q
=============================================================================
