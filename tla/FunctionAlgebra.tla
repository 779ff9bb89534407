--------------------------- MODULE FunctionAlgebra ---------------------------
(***************************************************************************)
(* What the library promises, without diagrams: a client holds functions   *)
(* from states to monoid elements, starts from constants and from          *)
(* functions of one variable, and combines them pointwise.  An application *)
(* ends with the combined function, or with an exception if and only if    *)
(* the operator is undefined on the values of the operands in some state.  *)
(***************************************************************************)
EXTENDS Naturals, Sequences

CONSTANTS
  DomainSize, Op, OpLeft(_), OpRight(_), OpResult(_), OpDefined(_, _, _), OpFun(_, _, _),
  ConstInput, VarInput

VARIABLES
  known,      \* the functions held: records [kind, fn]
  pending,    \* the application under way
  ending      \* how the last one ended: "none", "returned" or "threw"

fvars == <<known, pending, ending>>

Level == 1 .. Len(DomainSize)
State == {s \in [Level -> UNION {1 .. DomainSize[v] : v \in Level}] :
            \A v \in Level : s[v] <= DomainSize[v]}

Constant(c) == [kind |-> c.kind, fn |-> [s \in State |-> c.w]]
Variable(v) == [kind |-> v.kind, fn |-> [s \in State |-> v.values[s[v.level]]]]

NothingPending == [op |-> "none"]

Applicable(op, f, g) == \A s \in State : OpDefined(op, f.fn[s], g.fn[s])

Pointwise(op, f, g) ==
  [kind |-> OpResult(op), fn |-> [s \in State |-> OpFun(op, f.fn[s], g.fn[s])]]

Init ==
  /\ known = {}
  /\ pending = NothingPending
  /\ ending = "none"

Learn ==
  /\ pending = NothingPending
  /\ \/ \E c \in ConstInput : known' = known \cup {Constant(c)}
     \/ \E v \in VarInput : known' = known \cup {Variable(v)}
     \/ UNCHANGED known
  /\ ending' = "none"
  /\ UNCHANGED pending

Begin(op, f, g) ==
  /\ pending = NothingPending
  /\ f.kind = OpLeft(op) /\ g.kind = OpRight(op)
  /\ pending' = [op |-> op, left |-> f, right |-> g]
  /\ ending' = "none"
  /\ UNCHANGED known

Finish ==
  /\ pending # NothingPending
  /\ Applicable(pending.op, pending.left, pending.right)
  /\ known' = known \cup {Pointwise(pending.op, pending.left, pending.right)}
  /\ pending' = NothingPending
  /\ ending' = "returned"

Fail ==
  /\ pending # NothingPending
  /\ ~ Applicable(pending.op, pending.left, pending.right)
  /\ pending' = NothingPending
  /\ ending' = "threw"
  /\ UNCHANGED known

Next ==
  \/ Learn
  \/ \E op \in Op, f, g \in known : Begin(op, f, g)
  \/ Finish
  \/ Fail

Spec == Init /\ [][Next]_fvars
=============================================================================
