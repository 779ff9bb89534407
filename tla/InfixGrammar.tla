---------------------------- MODULE InfixGrammar ----------------------------
(***************************************************************************)
(* The tokens of infix expressions, the grammar in the comment of class    *)
(* InfixParser (parser.h), and the term that an expression stands for when *)
(* its operators are applied in the order of the table op_precedence.      *)
(* The definitions are about whole sequences of tokens and know nothing of *)
(* how the parser works; InfixParser is compared with them.                *)
(***************************************************************************)
EXTENDS Integers, Sequences, FiniteSets, SequencesExt

BinaryOperator        == {"+", "-", "*", "/", ">", ">=", "<", "<="}
UnaryOperator         == {"-", "abs"}
LogicalBinaryOperator == {"&&", "||", "=="}
LogicalUnaryOperator  == {"!"}

(* op_precedence *)
Precedence ==
  [op \in {"sentinel"} \cup BinaryOperator \cup UnaryOperator
            \cup LogicalBinaryOperator \cup LogicalUnaryOperator |->
     CASE op = "sentinel" -> 0
       [] op = "=="  -> 1  [] op = ">"  -> 2  [] op = ">=" -> 3  [] op = "<" -> 4
       [] op = "<="  -> 5  [] op = "-"  -> 6  [] op = "+"  -> 7  [] op = "/" -> 8
       [] op = "*"   -> 9  [] op = "||" -> 10 [] op = "&&" -> 11 [] op = "!" -> 12
       [] op = "abs" -> 13]

(* Variables and constants are told apart by where they stand only. *)
Token(type)   == [type |-> type, value |-> "", binary |-> TRUE]
OpToken(name) == [type |-> "OP", value |-> name, binary |-> TRUE]

Operand == {"VAR", "CONST"}
Opening == {"LPAREN", "LSQRBRACK"}
Closing == {"RPAREN", "RSQRBRACK"}

ClosingOf(type) == IF type = "LPAREN" THEN "RPAREN" ELSE "RSQRBRACK"

(* Terms: an operand at a position of the input, and an operator with its  *)
(* operands.  The parser writes -t as 0 - t.                               *)
Leaf(type, position)  == [op |-> type, position |-> position]
Node(op, rands)       == [op |-> op, rands |-> rands]
Zero                  == Leaf("CONST", 0)
Negation(op, t)       == IF op = "-" THEN Node("-", <<Zero, t>>) ELSE Node(op, <<t>>)

----------------------------------------------------------------------------
(* Expression, P, LogicEXP and LP of the grammar; LPs is the part of       *)
(* LogicEXP between the brackets.                                          *)
Nonterminal == {"Expression", "P", "LogicEXP", "LPs", "LP"}

PartOf(x)   == IF x = "Expression" THEN "P" ELSE "LP"
BinaryOf(x) == IF x = "Expression" THEN BinaryOperator ELSE LogicalBinaryOperator
UnaryOf(x)  == IF x = "P" THEN UnaryOperator ELSE LogicalUnaryOperator

(* The right-hand sides of the rules, for the tokens from i to j.          *)
Parts(tokens, D, x, i, j) ==
  \/ D[<<PartOf(x), i, j>>]
  \/ \E k \in i + 1 .. j - 1 :
       tokens[k].value \in BinaryOf(x) /\ D[<<PartOf(x), i, k - 1>>] /\ D[<<x, k + 1, j>>]

Bracketed(tokens, D, x, opening, i, j) ==
  /\ i + 1 < j /\ tokens[i].type = opening /\ tokens[j].type = ClosingOf(opening)
  /\ D[<<x, i + 1, j - 1>>]

Part(tokens, D, x, i, j) ==
  \/ i = j /\ tokens[i].type \in Operand
  \/ Bracketed(tokens, D, "Expression", "LPAREN", i, j)
  \/ i < j /\ tokens[i].value \in UnaryOf(x) /\ D[<<x, i + 1, j>>]
  \/ D[<<"LogicEXP", i, j>>]

(* Derives(tokens)[<<x, i, j>>] says that the tokens from i to j are an x. *)
Derives(tokens) ==
  LET D[p \in Nonterminal \X (1 .. Len(tokens)) \X (0 .. Len(tokens))] ==
        /\ p[2] <= p[3]
        /\ \/ p[1] \in {"Expression", "LPs"} /\ Parts(tokens, D, p[1], p[2], p[3])
           \/ p[1] = "LogicEXP" /\ Bracketed(tokens, D, "LPs", "LSQRBRACK", p[2], p[3])
           \/ p[1] \in {"P", "LP"} /\ Part(tokens, D, p[1], p[2], p[3])
  IN  D

IsExpression(tokens) == tokens # <<>> /\ Derives(tokens)[<<"Expression", 1, Len(tokens)>>]

----------------------------------------------------------------------------
(* A sign stands in front of an operand unless it follows one. *)
IsUnaryAt(tokens, k) ==
  /\ tokens[k].type = "OP"
  /\ k = 1 \/ tokens[k - 1].type \notin Operand \cup Closing

(* The number of brackets that are open after the first k tokens. *)
Depth(tokens, k) ==
  Cardinality({l \in 1 .. k : tokens[l].type \in Opening})
    - Cardinality({l \in 1 .. k : tokens[l].type \in Closing})

(* The binary operators among the tokens from i to j, outside of brackets. *)
BinaryIn(tokens, i, j) ==
  {k \in i .. j : /\ tokens[k].type = "OP" /\ ~ IsUnaryAt(tokens, k)
                  /\ Depth(tokens, k) = Depth(tokens, i - 1)}

(* The one that is applied last: the one of the lowest precedence, and     *)
(* among several of these the leftmost.                                    *)
AppliedLast(tokens, i, j) ==
  CHOOSE k \in BinaryIn(tokens, i, j) :
    \A l \in BinaryIn(tokens, i, j) :
      LET p == Precedence[tokens[k].value]
          q == Precedence[tokens[l].value]
      IN  p < q \/ (p = q /\ k <= l)

(* The term of the tokens from i to j, from those of shorter parts: a      *)
(* sequence of operands and binary operators is cut at the operator that   *)
(* is applied last; unary operators bind stronger than binary ones.        *)
TermOf(tokens, M, i, j) ==
  LET k == AppliedLast(tokens, i, j)
  IN  IF i > j THEN Zero
      ELSE IF BinaryIn(tokens, i, j) # {}
      THEN Node(tokens[k].value, <<M[<<i, k - 1>>], M[<<k + 1, j>>]>>)
      ELSE IF tokens[i].type = "OP" THEN Negation(tokens[i].value, M[<<i + 1, j>>])
      ELSE IF tokens[i].type \in Opening THEN M[<<i + 1, j - 1>>]
      ELSE Leaf(tokens[i].type, i)

(* The term of an expression. *)
Meaning(tokens) ==
  LET M[p \in (1 .. Len(tokens) + 1) \X (0 .. Len(tokens))] == TermOf(tokens, M, p[1], p[2])
  IN  M[<<1, Len(tokens)>>]

(* A beginning of an expression, completed in the shortest way: by an      *)
(* operand where one is missing, and by the brackets that are still open.  *)
Completed(tokens) ==
  LET n == Len(tokens)
      operand ==
        IF n = 0 \/ tokens[n].type \in Opening \cup {"OP"}
        THEN IF n > 0 /\ tokens[n].value = "abs"
             THEN <<Token("LPAREN"), Token("VAR"), Token("RPAREN")>>
             ELSE <<Token("VAR")>>
        ELSE <<>>
      open[k \in 0 .. n] ==
        IF k = 0 THEN <<>>
        ELSE IF tokens[k].type \in Opening THEN <<ClosingOf(tokens[k].type)>> \o open[k - 1]
        ELSE IF tokens[k].type \in Closing /\ open[k - 1] # <<>> THEN Tail(open[k - 1])
        ELSE open[k - 1]
  IN  tokens \o operand \o [k \in DOMAIN open[n] |-> Token(open[n][k])]
=============================================================================
