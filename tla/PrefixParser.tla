---------------------------- MODULE PrefixParser ----------------------------
(***************************************************************************)
(* Class Parser (parser.h, parser.cpp), the parser of prefix expressions:  *)
(* parse puts the input into parentheses and calls parseExpression, which  *)
(* calls parseOpExpression for an operator and itself for brackets.  The   *)
(* lexer can take back the token it yielded last (revert).                 *)
(*                                                                         *)
(* As in InfixParser, activation records are explicit and the input is     *)
(* chosen token by token.                                                  *)
(***************************************************************************)
EXTENDS InfixGrammar

CONSTANTS
  Operators,    \* the operators that may occur in the input
  MaxTokens     \* bound on the length of the input

ASSUME PrefixAssumption ==
  /\ Operators \subseteq BinaryOperator \cup UnaryOperator
                           \cup LogicalBinaryOperator \cup LogicalUnaryOperator
  /\ MaxTokens \in Nat

VARIABLES
  input,      \* what the lexer reaches next: "(", the input, ")" or the end
  previous,   \* previousToken
  reverted,   \* returnPrevToken
  stack,      \* activation records, the innermost last
  status,     \* parsing, returned or threw
  read,       \* history: the tokens read
  result      \* history: what parse returned

vars == <<input, previous, reverted, stack, status, read, result>>

NoTerm == Token("END")

(* The operators parseOpExpression knows. *)
PrefixOperator ==
  {"+", "-", "*", ">", "<", ">=", "<=", "&&", "||", "==", "!"}

Activation(proc) == [proc |-> proc, pc |-> "enter", op |-> "", exprs |-> <<>>]

(* The client has called parse. *)
Init ==
  /\ input = "("
  /\ previous = Token("END")
  /\ reverted = FALSE
  /\ stack = <<Activation("parseExpression")>>
  /\ status = "parsing"
  /\ read = <<>>
  /\ result = NoTerm

----------------------------------------------------------------------------
InputTokens ==
  {Token(type) : type \in {"VAR", "CONST", "LPAREN", "RPAREN", "LSQRBRACK", "RSQRBRACK",
                           "INVALID"}}
    \cup {OpToken(name) : name \in Operators}

(* The tokens that may come next, each with what comes after it. *)
Following ==
  CASE input = "("     -> {<<Token("LPAREN"), "input">>}
    [] input = "input" ->
         IF previous.value = "abs" THEN {<<Token("LPAREN"), "input">>}
         ELSE {<<Token("RPAREN"), "end">>}
                \cup (IF Len(read) <= MaxTokens THEN InputTokens \X {"input"} ELSE {})
    [] input = "end"   -> {<<Token("END"), "end">>}

(* The lexer yields the token t: the one taken back, or the next one.  The *)
(* caller takes it back again if back.                                     *)
Lex(t, back) ==
  /\ reverted' = back
  /\ IF reverted
     THEN t = previous /\ UNCHANGED <<input, previous, read>>
     ELSE /\ \E after \in {"input", "end"} :
               <<t, after>> \in Following /\ input' = after
          /\ previous' = t
          /\ read' = IF t.type = "END" THEN read ELSE Append(read, t)

getNextToken(t) == Lex(t, FALSE)
lookAhead(t)    == Lex(t, TRUE)

Tokens == InputTokens \cup {Token("END")}

At(proc, pc) ==
  status = "parsing" /\ Last(stack).proc = proc /\ Last(stack).pc = pc

(* The innermost activation goes on at pc, once the one it calls returns. *)
Call(pc, proc) == Append([stack EXCEPT ![Len(stack)].pc = pc], Activation(proc))

(* The innermost activation returns e, which its caller adds to exprs. *)
Return(e) ==
  LET n == Len(stack) - 1
  IN  IF n = 0
      THEN stack' = <<>> /\ status' = "returned" /\ result' = e
      ELSE /\ stack' = [Front(stack) EXCEPT ![n].exprs = Append(@, e)]
           /\ UNCHANGED <<status, result>>

Throw == stack' = <<>> /\ status' = "threw" /\ UNCHANGED result

----------------------------------------------------------------------------
(* parseExpression *)

ReadOperand ==
  /\ At("parseExpression", "enter")
  /\ \E t \in Tokens : getNextToken(t) /\ t.type \in Operand
  /\ Return(Leaf(previous'.type, Len(read')))

(* A mutated form of ReadOperator. *)
ReadOperatorNotReverted ==
  /\ At("parseExpression", "enter")
  /\ \E t \in Tokens : getNextToken(t) /\ t.type = "OP"
  /\ stack' = Append(Front(stack), Activation("parseOpExpression"))
  /\ UNCHANGED <<status, result>>

(* An operator: the token is taken back. *)
ReadOperator ==
  /\ At("parseExpression", "enter")
  /\ \E t \in Tokens : lookAhead(t) /\ t.type = "OP"
  /\ stack' = Append(Front(stack), Activation("parseOpExpression"))
  /\ UNCHANGED <<status, result>>

OpenBracket ==
  /\ At("parseExpression", "enter")
  /\ \E t \in Tokens :
       /\ getNextToken(t) /\ t.type \in Opening
       /\ stack' = Call(ClosingOf(t.type), "parseExpression")
  /\ UNCHANGED <<status, result>>

NoExpression ==
  /\ At("parseExpression", "enter")
  /\ \E t \in Tokens : getNextToken(t) /\ t.type \notin Operand \cup Opening \cup {"OP"}
  /\ Throw

(* A mutated form of CloseBracket. *)
CloseBracketAny ==
  \E closing \in Closing :
    /\ At("parseExpression", closing)
    /\ \E t \in Tokens : getNextToken(t) /\ t.type \in Closing
    /\ Return(Last(stack).exprs[1])

CloseBracket ==
  \E closing \in Closing :
    /\ At("parseExpression", closing)
    /\ \E t \in Tokens : getNextToken(t) /\ t.type = closing
    /\ Return(Last(stack).exprs[1])

(* A mutated form of MissingBracket: it skips tokens. *)
MissingBracketSkips ==
  \E closing \in Closing :
    /\ At("parseExpression", closing)
    /\ \E t \in Tokens : getNextToken(t) /\ t.type # closing
    /\ UNCHANGED <<stack, status, result>>

MissingBracket ==
  \E closing \in Closing :
    /\ At("parseExpression", closing)
    /\ \E t \in Tokens : getNextToken(t) /\ t.type # closing
    /\ Throw

----------------------------------------------------------------------------
(* parseOpExpression *)

EnterOpExpression ==
  /\ At("parseOpExpression", "enter")
  /\ \E t \in Tokens :
       /\ getNextToken(t)
       /\ stack' = [stack EXCEPT ![Len(stack)].pc = "loop", ![Len(stack)].op = t.value]
  /\ UNCHANGED <<status, result>>

NextOperand ==
  /\ At("parseOpExpression", "loop")
  /\ \E t \in Tokens : lookAhead(t) /\ t.type \notin {"RPAREN", "END", "INVALID"}
  /\ stack' = Call("loop", "parseExpression")
  /\ UNCHANGED <<status, result>>

(* A mutated form of OpExpressionReturns: the parenthesis is not taken     *)
(* back.                                                                   *)
OpExpressionConsumesBracket ==
  /\ At("parseOpExpression", "loop")
  /\ \E t \in Tokens : getNextToken(t) /\ t.type = "RPAREN"
  /\ Last(stack).exprs # <<>>
  /\ Last(stack).op \in PrefixOperator
  /\ Return(Node(Last(stack).op, Last(stack).exprs))

OpExpressionReturns ==
  /\ At("parseOpExpression", "loop")
  /\ \E t \in Tokens : lookAhead(t) /\ t.type = "RPAREN"
  /\ Last(stack).exprs # <<>>
  /\ Last(stack).op \in PrefixOperator
  /\ Return(Node(Last(stack).op, Last(stack).exprs))

(* The end of the input, an operator without operands, or an unknown one. *)
OpExpressionThrows ==
  /\ At("parseOpExpression", "loop")
  /\ \E t \in Tokens :
       /\ lookAhead(t)
       /\ \/ t.type \in {"END", "INVALID"}
          \/ /\ t.type = "RPAREN"
             /\ Last(stack).exprs = <<>> \/ Last(stack).op \notin PrefixOperator
  /\ Throw

Next ==
  \/ ReadOperand \/ ReadOperator \/ OpenBracket \/ NoExpression
  \/ CloseBracket \/ MissingBracket
  \/ EnterOpExpression \/ NextOperand \/ OpExpressionReturns \/ OpExpressionThrows

Spec == Init /\ [][Next]_vars /\ WF_vars(Next)

----------------------------------------------------------------------------
(* The grammar in the comment of class Parser,                             *)
(*   expression = number | [sign] variable | "(" op {expression} ")"       *)
(* and "(" expression ")", where a number may begin with a sign, too, and  *)
(* {expression} is one or more.  What the parser reads beyond it is        *)
(* allowed here as well: comparisons, square brackets, and an operator     *)
(* without parentheses of its own if a ")" ends its operands.              *)
GrammarOperator ==
  {"+", "-", "*", "/", "&&", "||", "!", "=="} \cup {">", "<", ">=", "<="}

(* A sign in front of a number or variable belongs to it, unless it is the *)
(* op behind an opening bracket.                                           *)
SignAt(tokens, k) ==
  /\ k - 1 \in DOMAIN tokens /\ tokens[k - 1].type \notin Opening
  /\ tokens[k].value \in {"+", "-"}
  /\ k + 1 \in DOMAIN tokens /\ tokens[k + 1].type \in Operand

SignedFrom(tokens, i, j) ==
  IF j = i + 1 /\ SignAt(tokens, i)
  THEN {Node(tokens[i].value, <<Leaf(tokens[j].type, j)>>)}
  ELSE {}

(* The tokens from i to j as a term: an operand, an operator with all the  *)
(* terms up to the next parenthesis that closes, or a term in brackets.  R *)
(* has the readings of what lies between.                                  *)
UnsignedFrom(tokens, R, i, j) ==
  LET is(k, type) == k \in DOMAIN tokens /\ tokens[k].type = type
  IN  IF tokens[i].type \in Operand
      THEN IF i = j THEN {Leaf(tokens[i].type, i)} ELSE {}
      ELSE IF tokens[i].value \in GrammarOperator
      THEN IF is(j + 1, "RPAREN")
           THEN {Node(tokens[i].value, es) : es \in R[<<"terms", i + 1, j>>]}
           ELSE {}
      ELSE IF tokens[i].type \in Opening /\ is(j, ClosingOf(tokens[i].type))
      THEN R[<<"term", i + 1, j - 1>>]
      ELSE {}

TermFrom(tokens, R, i, j) == UnsignedFrom(tokens, R, i, j) \cup SignedFrom(tokens, i, j)

Prepended(E, Ess) == {Cons(e, es) : e \in E, es \in Ess}

TermsFrom(R, i, j) ==
  {<<e>> : e \in R[<<"term", i, j>>]}
    \cup UNION {Prepended(R[<<"term", i, k>>], R[<<"terms", k + 1, j>>]) : k \in i .. j - 1}

(* The terms that a sequence of tokens stands for. *)
Readings(tokens) ==
  LET R[p \in {"term", "terms"} \X (1 .. Len(tokens) + 1) \X (0 .. Len(tokens))] ==
        IF p[2] > p[3] THEN {}
        ELSE IF p[1] = "terms" THEN TermsFrom(R, p[2], p[3])
        ELSE TermFrom(tokens, R, p[2], p[3])
  IN  R[<<"term", 1, Len(tokens)>>]

(* Types; an activation waits for an operand exactly if it is not the      *)
(* innermost; at the call of parseOpExpression the token that was taken    *)
(* back is an operator.                                                    *)
PrefixTypeOK ==
  /\ status \in {"parsing", "returned", "threw"}
  /\ stack = <<>> <=> status # "parsing"
  /\ \A i \in DOMAIN stack :
       i < Len(stack) => stack[i].pc # "enter"
  /\ \A i \in DOMAIN stack :
       stack[i].proc = "parseExpression" =>
         Len(stack[i].exprs) = IF i < Len(stack) \/ stack[i].pc = "enter" THEN 0 ELSE 1
  /\ (status = "parsing" /\ Last(stack).proc = "parseOpExpression" /\ Last(stack).pc = "enter")
       => reverted /\ previous.type = "OP"

(* A sign in front of an operand that others follow.  The grammar derives  *)
(* (+ -5 x) from the operands -5 and x, but parse returns (+ (- 5 x)):     *)
(* every sign is an operator that takes all that follows.                  *)
SignBeforeMore(tokens) ==
  \E k \in DOMAIN tokens :
    /\ SignAt(tokens, k)
    /\ ~ (k + 2 \in DOMAIN tokens /\ tokens[k + 2].type = "RPAREN")

(* Division is an operator of the grammar, but unknown to parse. *)
HasDivision(tokens) == \E k \in DOMAIN tokens : tokens[k].value = "/"

(* What parse has read when it returns the grammar derives, and what it    *)
(* returns is the only term that the grammar gives, with every operand at  *)
(* its own operator, unless there is a sign in front of an operand that    *)
(* others follow.                                                          *)
ReadsPrefix ==
  status = "returned" => SignBeforeMore(read) \/ Readings(read) = {result}

(* parse throws only if no expression of the grammar begins with what it   *)
(* has read, or the input has ended and is none, unless there is a         *)
(* division.                                                               *)
ThrowsOnlyErrors ==
  status = "threw" =>
    LET tokens == IF input = "end" THEN read ELSE Completed(read)
    IN  HasDivision(tokens) \/ Readings(tokens) = {}

(* Every call ends. *)
PrefixParsingEnds == (status = "parsing") ~> (status # "parsing")
=============================================================================
