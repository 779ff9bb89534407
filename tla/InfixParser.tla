---------------------------- MODULE InfixParser ----------------------------
(***************************************************************************)
(* Class InfixParser (parser.h, parser.cpp): parse and the procedures E,   *)
(* P, LogicEXP and LP, which share a stack of operators and a stack of     *)
(* operands.                                                               *)
(*                                                                         *)
(* The procedures call each other recursively; their activation records    *)
(* are a stack with a program counter each.  The input is not fixed in     *)
(* advance: each time the parser consumes a token, any token may come, so  *)
(* that the behaviours are those on all inputs of at most MaxTokens        *)
(* tokens, and of several calls with at most MaxReuse tokens together.     *)
(* What the lexer yields for a substring that is no token, an exception,   *)
(* is the token INVALID here.                                              *)
(***************************************************************************)
EXTENDS InfixGrammar

CONSTANTS
  Operators,    \* the operators that may occur in the input
  MaxTokens,    \* bound on the length of the input of the first call
  MaxReuse,     \* bound on the tokens of all calls, if there are several
  MaxParses     \* bound on the number of calls of parse on one parser

ASSUME InfixAssumption ==
  /\ Operators \subseteq BinaryOperator \cup UnaryOperator
                           \cup LogicalBinaryOperator \cup LogicalUnaryOperator
  /\ MaxTokens \in Nat \ {0}
  /\ MaxReuse \in 0 .. MaxTokens
  /\ MaxParses \in Nat \ {0}

VARIABLES
  next,       \* the token that was read last
  operators,  \* stack of operator tokens, the top last
  operands,   \* stack of terms, the top last
  stack,      \* activation records of the procedures, the innermost last
  status,     \* of the running or last call: parsing, returned, threw, undefined
  read,       \* history: the tokens read by this call
  result,     \* history: what this call returned
  spent,      \* history: the number of tokens read by earlier calls
  parses      \* the number of calls

vars == <<next, operators, operands, stack, status, read, result, spent, parses>>

Sentinel == OpToken("sentinel")

InputTokens ==
  {Token(type) : type \in {"VAR", "LPAREN", "RPAREN", "LSQRBRACK", "RSQRBRACK", "INVALID"}}
    \cup {OpToken(name) : name \in Operators}

NoTerm == Token("END")

Init ==
  /\ next = Token("INVALID")
  /\ operators = <<>>
  /\ operands = <<>>
  /\ stack = <<>>
  /\ status = "idle"
  /\ read = <<>>
  /\ result = NoTerm
  /\ spent = 0
  /\ parses = 0

----------------------------------------------------------------------------
(* The tokens that the input of this call may have. *)
Limit == IF parses = 1 THEN MaxTokens ELSE MaxReuse - spent

(* What may follow the token t after n tokens.  The lexer takes letters    *)
(* for abs only if a parenthesis follows, and repeats END for ever.        *)
Following(t, n) ==
  IF t.type = "END" THEN {t}
  ELSE IF t.value = "abs" THEN {Token("LPAREN")}
  ELSE {Token("END")} \cup (IF n < Limit THEN InputTokens ELSE {})

(* next is set to t. *)
Lex(t, before) ==
  /\ next' = t
  /\ read' = IF t.type = "END" THEN before ELSE Append(before, t)

consume == \E t \in Following(next, Len(read)) : Lex(t, read)

Activation(proc) == [proc |-> proc, pc |-> "enter"]

(* The innermost activation is one of proc, at pc, and the last call of    *)
(* the lexer did not throw.                                                *)
At(procs, pc) ==
  /\ status = "parsing"
  /\ next.type # "INVALID"
  /\ Last(stack).proc \in procs
  /\ Last(stack).pc = pc

Goto(pc)       == stack' = [stack EXCEPT ![Len(stack)].pc = pc]
Call(pc, proc) == stack' = Append([stack EXCEPT ![Len(stack)].pc = pc], Activation(proc))
Return         == stack' = Front(stack)

(* The procedure ends with the call of another. *)
TailCall(proc) == stack' = Append(Front(stack), Activation(proc))

----------------------------------------------------------------------------
(* Operators. *)

hasHigherPrecedence(first, second) ==
  /\ second.binary \/ second.value # "-"
  /\ \/ ~ first.binary /\ first.value = "-"
     \/ Precedence[first.value] > Precedence[second.value]

IsBinary(op) == op.binary /\ op.value \in BinaryOperator \cup LogicalBinaryOperator

Arity(op) == IF IsBinary(op) THEN 2 ELSE 1

(* createExpression and createUnaryExpression. *)
CreateExpression(op, rands) ==
  IF IsBinary(op) THEN Node(op.value, rands) ELSE Negation(op.value, rands[1])

(* The operator that is about to be pushed: in the loops of E and LogicEXP *)
(* a binary one, at the start of P and LP a unary one.                     *)
Pushing ==
  \/ At({"E"}, "loop") /\ next.value \in BinaryOperator
  \/ At({"LogicEXP"}, "loop") /\ next.value \in LogicalBinaryOperator
  \/ At({"P"}, "enter") /\ next.value \in UnaryOperator
  \/ At({"LP"}, "enter") /\ next.value \in LogicalUnaryOperator

Pending ==
  IF Last(stack).proc \in {"P", "LP"} THEN [next EXCEPT !.binary = FALSE] ELSE next

(* The loops at the end of E and of LogicEXP. *)
Draining ==
  \/ At({"E"}, "loop") /\ next.value \notin BinaryOperator
  \/ At({"LogicEXP"}, "drain")

Popping ==
  \/ Pushing /\ hasHigherPrecedence(Last(operators), Pending)
  \/ Draining /\ Last(operators).value # "sentinel"

popOperator ==
  LET op   == Last(operators)
      rest == Len(operands) - Arity(op)
  IN  /\ Popping
      /\ rest >= 0
      /\ operators' = Front(operators)
      /\ operands' = Append(SubSeq(operands, 1, rest),
           CreateExpression(op, SubSeq(operands, rest + 1, Len(operands))))
      /\ UNCHANGED <<next, stack, status, read, result, spent, parses>>

(* top() of an empty stack of operands is undefined: nothing is known of   *)
(* the program from there on.                                              *)
popOperatorUndefined ==
  /\ Popping
  /\ Len(operands) < Arity(Last(operators))
  /\ status' = "undefined"
  /\ stack' = <<>>
  /\ UNCHANGED <<next, operators, operands, read, result, spent, parses>>

(* The operator is pushed once no operator of higher precedence is on top, *)
(* and an operand follows.                                                 *)
pushOperator ==
  /\ Pushing
  /\ ~ hasHigherPrecedence(Last(operators), Pending)
  /\ operators' = Append(operators, Pending)
  /\ consume
  /\ \/ Last(stack).proc = "E" /\ Call("loop", "P")
     \/ Last(stack).proc = "LogicEXP" /\ Call("loop", "LP")
     \/ Last(stack).proc \in {"P", "LP"} /\ UNCHANGED stack
  /\ UNCHANGED <<operands, status, result, spent, parses>>

----------------------------------------------------------------------------
(* The procedures. *)

(* The client calls parse. *)
parse ==
  /\ status # "parsing" /\ status # "undefined"
  /\ parses < MaxParses
  /\ parses > 0 => spent + Len(read) < MaxReuse
  /\ \E t \in InputTokens \cup {Token("END")} : Lex(t, <<>>)
  /\ stack' = <<Activation("parse")>>
  /\ status' = "parsing"
  /\ result' = NoTerm
  /\ parses' = parses + 1
  /\ spent' = spent + Len(read)
  /\ UNCHANGED <<operators, operands>>

(* A mutated form of ParseExpression: only a new parser needs a sentinel.  *)
ParseExpressionFirstOnly ==
  /\ At({"parse"}, "enter")
  /\ operators' = IF operators = <<>> THEN <<Sentinel>> ELSE operators
  /\ Call("end", "E")
  /\ UNCHANGED <<next, operands, status, read, result, spent, parses>>

ParseExpression ==
  /\ At({"parse"}, "enter")
  /\ operators' = Append(operators, Sentinel)
  /\ Call("end", "E")
  /\ UNCHANGED <<next, operands, status, read, result, spent, parses>>

ParseReturns ==
  /\ At({"parse"}, "end")
  /\ next.type = "END"
  /\ stack' = <<>>
  /\ status' = "returned"
  /\ result' = Last(operands)
  /\ UNCHANGED <<next, operators, operands, read, spent, parses>>

EnterE ==
  /\ At({"E"}, "enter")
  /\ Call("loop", IF next.type = "LSQRBRACK" THEN "LogicEXP" ELSE "P")
  /\ UNCHANGED <<next, operators, operands, status, read, result, spent, parses>>

(* A mutated form of LeaveE: its loop ends at a bracket or at the end. *)
LeaveEAtBracket ==
  /\ Draining /\ Last(stack).proc = "E"
  /\ next.type \in {"END", "RPAREN"}
  /\ Last(operators).value = "sentinel"
  /\ Return
  /\ UNCHANGED <<next, operators, operands, status, read, result, spent, parses>>

LeaveE ==
  /\ Draining /\ Last(stack).proc = "E"
  /\ Last(operators).value = "sentinel"
  /\ Return
  /\ UNCHANGED <<next, operators, operands, status, read, result, spent, parses>>

EnterLogicEXP ==
  /\ At({"LogicEXP"}, "enter")
  /\ operators' = Append(operators, Sentinel)
  /\ consume
  /\ Call("loop", "LP")
  /\ UNCHANGED <<operands, status, result, spent, parses>>

CloseLogicEXP ==
  /\ At({"LogicEXP"}, "loop")
  /\ next.type = "RSQRBRACK"
  /\ consume
  /\ Goto("drain")
  /\ UNCHANGED <<operators, operands, status, result, spent, parses>>

LeaveLogicEXP ==
  /\ Draining /\ Last(stack).proc = "LogicEXP"
  /\ Last(operators).value = "sentinel"
  /\ operators' = Front(operators)
  /\ Return
  /\ UNCHANGED <<next, operands, status, read, result, spent, parses>>

(* The alternatives of P and LP. *)
ReadOperand ==
  /\ At({"P", "LP"}, "enter")
  /\ next.type \in Operand
  /\ operands' = Append(operands, Leaf(next.type, Len(read)))
  /\ consume
  /\ Return
  /\ UNCHANGED <<operators, status, result, spent, parses>>

OpenParenthesis ==
  /\ At({"P", "LP"}, "enter")
  /\ next.type = "LPAREN"
  /\ consume
  /\ Goto("open")
  /\ UNCHANGED <<operators, operands, status, result, spent, parses>>

(* A mutated form of EnterParenthesis. *)
EnterParenthesisNoSentinel ==
  /\ At({"P", "LP"}, "open")
  /\ Call("close", "E")
  /\ UNCHANGED <<operators, next, operands, status, read, result, spent, parses>>

EnterParenthesis ==
  /\ At({"P", "LP"}, "open")
  /\ operators' = Append(operators, Sentinel)
  /\ Call("close", "E")
  /\ UNCHANGED <<next, operands, status, read, result, spent, parses>>

CloseParenthesis ==
  /\ At({"P", "LP"}, "close")
  /\ next.type = "RPAREN"
  /\ consume
  /\ Goto("closed")
  /\ UNCHANGED <<operators, operands, status, result, spent, parses>>

LeaveParenthesis ==
  /\ At({"P", "LP"}, "closed")
  /\ operators' = Front(operators)
  /\ Return
  /\ UNCHANGED <<next, operands, status, read, result, spent, parses>>

NestedLogicEXP ==
  /\ At({"P", "LP"}, "enter")
  /\ next.type = "LSQRBRACK"
  /\ TailCall("LogicEXP")
  /\ UNCHANGED <<next, operators, operands, status, read, result, spent, parses>>

----------------------------------------------------------------------------
(* Exceptions. *)

(* A mutated form of UnknownToken. *)
UnknownTokenBracket ==
  /\ At({"P", "LP"}, "enter")
  /\ next.type \notin Operand \cup {"LPAREN"}
  /\ ~ Pushing

(* No alternative of P or LP begins with the token. *)
UnknownToken ==
  /\ At({"P", "LP"}, "enter")
  /\ next.type \notin Operand \cup Opening
  /\ ~ Pushing

(* expect finds another token. *)
UnexpectedToken ==
  \/ /\ At({"LogicEXP"}, "loop")
     /\ next.value \notin LogicalBinaryOperator /\ next.type # "RSQRBRACK"
  \/ At({"P", "LP"}, "close") /\ next.type # "RPAREN"
  \/ At({"parse"}, "end") /\ next.type # "END"

IllegalToken == status = "parsing" /\ next.type = "INVALID"

Throw ==
  /\ UnknownToken \/ UnexpectedToken \/ IllegalToken
  /\ status' = "threw"
  /\ stack' = <<>>
  /\ UNCHANGED <<next, operators, operands, read, result, spent, parses>>

Step ==
  \/ popOperator \/ popOperatorUndefined \/ pushOperator
  \/ ParseExpression \/ ParseReturns
  \/ EnterE \/ LeaveE
  \/ EnterLogicEXP \/ CloseLogicEXP \/ LeaveLogicEXP
  \/ ReadOperand \/ OpenParenthesis \/ EnterParenthesis \/ CloseParenthesis
  \/ LeaveParenthesis \/ NestedLogicEXP
  \/ Throw

Next == parse \/ Step

Spec == Init /\ [][Next]_vars /\ WF_vars(Step)

----------------------------------------------------------------------------
(* The procedures that push a sentinel and have not removed it yet. *)
OpenSentinels ==
  {i \in DOMAIN stack :
     \/ stack[i].proc = "LogicEXP" /\ stack[i].pc # "enter"
     \/ stack[i].proc \in {"P", "LP"} /\ stack[i].pc \in {"close", "closed"}
     \/ stack[i].proc = "parse" /\ stack[i].pc = "end"}

(* A unary minus in front of abs is applied before its operand is read:    *)
(* in 1 + -abs(x) to the 1, and in -abs(x) to nothing (ParsesOrThrows).    *)
MinusBeforeAbs ==
  \E k \in 1 .. Len(read) - 1 :
    read[k].value = "-" /\ IsUnaryAt(read, k) /\ read[k + 1].value = "abs"

(* An operator that is popped finds its operands, whatever earlier calls   *)
(* have left on the stacks, but for a unary minus in front of abs.         *)
OperandsSuffice == status = "undefined" => MinusBeforeAbs

(* Types; every procedure that waits for its bracket to be closed has a    *)
(* sentinel of its own on the stack of operators; what is popped for a     *)
(* parenthesis is a sentinel, and there is an operand for parse to return. *)
(* The operands of operators are there, too (OperandsSuffice).             *)
ParserTypeOK ==
  /\ status \in {"idle", "parsing", "returned", "threw", "undefined"}
  /\ stack # <<>> <=> status = "parsing"
  /\ \A i \in DOMAIN operators : operators[i].type = "OP" /\ operators[i].value \in DOMAIN Precedence
  /\ Cardinality({i \in DOMAIN operators : operators[i].value = "sentinel"})
       >= Cardinality(OpenSentinels)
  /\ At({"P", "LP"}, "closed") \/ At({"parse"}, "end")
       => Last(operators).value = "sentinel" /\ operands # <<>>
  /\ OperandsSuffice

(* parse accepts nothing that the grammar in parser.h does not derive, and *)
(* returns the term that the input stands for, every operator with the     *)
(* operands that the precedences give it, also on a parser whose stacks    *)
(* hold what a former call, failed or not, left there.                     *)
ReadsAsWritten ==
  status = "returned" =>
    /\ IsExpression(read)
    /\ MinusBeforeAbs \/ result = Meaning(read)

(* parse throws only if no expression begins with what was read, or the    *)
(* input ends and is no expression.                                        *)
RejectsOnlyErrors ==
  status = "threw" =>
    ~ IsExpression(IF next.type = "END" THEN read ELSE Completed(read))

(* Every call of parse ends: each turn of each loop consumes a token or    *)
(* pops an operator.                                                       *)
ParsingEnds == (status = "parsing") ~> (status # "parsing")

(* "Parses the string and returns an expression or throws an error"        *)
(* (parser.h): it never takes an operand from an empty stack.              *)
ParsesOrThrows == status # "undefined"
=============================================================================
