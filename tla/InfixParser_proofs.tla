------------------------- MODULE InfixParser_proofs -------------------------
(***************************************************************************)
(* Proofs about class InfixParser: the discipline of its two stacks, on    *)
(* every input and whatever former calls have left.                        *)
(*                                                                         *)
(* Every activation that waits for its bracket or for the end holds a      *)
(* sentinel of its own; the outermost one does so while any other runs, so *)
(* the stack of operators is never empty where the code looks at its top.  *)
(* What an operator is compared with is in the table of precedences, where *)
(* nothing is below a sentinel, so that no loop of pops goes past one.     *)
(*                                                                         *)
(* There is an operand for every binary operator on the stack, and one     *)
(* more where an operand has just been read.  So operands can be missing   *)
(* only for an operator that is popped before an operand has been read,    *)
(* and there the top is something that the same procedure has pushed last: *)
(* only a minus gives way, and only to abs.                                *)
(*                                                                         *)
(* The second part compares the parser with the grammar.  The grammar is   *)
(* unambiguous: a part that begins at a token has one end, and of two      *)
(* sequences of parts that begin there the longer one goes on with an      *)
(* operator.  So what an activation has consumed so far is a phrase of the *)
(* grammar, for all of the input to be an expression it must go on as the  *)
(* procedure does, and where the procedure throws it cannot.               *)
(*                                                                         *)
(* The third part is about the term that is returned.  Every operator on   *)
(* the stack has a place in the input, and between two places that follow  *)
(* each other there is nothing, or one operand of which the operators are  *)
(* of a higher level than the one behind it.  An operator that is popped   *)
(* is the leftmost of the lowest level among those of the span it ends, so *)
(* the node that takes the place of its operands is the term of the span.  *)
(***************************************************************************)
EXTENDS InfixParser, ParserLemmas

----------------------------------------------------------------------------
(* The table of precedences. *)

LEMMA Precedences ==
  /\ \A op \in DOMAIN Precedence : Precedence[op] \in Nat
  /\ DOMAIN Precedence = {"sentinel"} \cup BinaryOperator \cup UnaryOperator
                            \cup LogicalBinaryOperator \cup LogicalUnaryOperator
  /\ Precedence["sentinel"] = 0
BY DEF Precedence, BinaryOperator, UnaryOperator, LogicalBinaryOperator, LogicalUnaryOperator

----------------------------------------------------------------------------
(* The invariant. *)

OperatorToken == [type : {"OP"}, value : DOMAIN Precedence, binary : BOOLEAN]

Procedure ==
  [proc : {"parse"}, pc : {"enter", "end"}]
    \cup [proc : {"E"}, pc : {"enter", "loop"}]
    \cup [proc : {"LogicEXP"}, pc : {"enter", "loop", "drain"}]
    \cup [proc : {"P", "LP"}, pc : {"enter", "open", "close", "closed"}]

(* What has pushed a sentinel that is still there. *)
Holding ==
  {fr \in Procedure :
     \/ fr.proc = "parse" /\ fr.pc = "end"
     \/ fr.proc = "LogicEXP" /\ fr.pc # "enter"
     \/ fr.proc \in {"P", "LP"} /\ fr.pc \in {"close", "closed"}}

Sentinels == {op \in OperatorToken : op.value = "sentinel"}

ParserTypes ==
  /\ status \in {"idle", "parsing", "returned", "threw", "undefined"}
  /\ next \in InputTokens \cup {NoTerm}
  /\ operators \in Seq(OperatorToken)
  /\ stack \in Seq(Procedure)

(* parse is the outermost activation, and waits while there is another. *)
ParseOutermost ==
  /\ stack # <<>> <=> status = "parsing"
  /\ \A i \in 1 .. Len(stack) : stack[i].proc = "parse" <=> i = 1
  /\ Len(stack) > 1 => stack[1].pc = "end"

SentinelsSuffice == Count(operators, Sentinels) >= Count(stack, Holding)

(* Where an operand has been read, the innermost activation knows it. *)
OperandRead ==
  /\ operands = [i \in 1 .. Len(operands) |-> operands[i]] /\ Len(operands) \in Nat
  /\ status = "parsing" /\ Last(stack).pc \notin {"enter", "open"} => Len(operands) > 0

ParserInv == ParserTypes /\ ParseOutermost /\ SentinelsSuffice /\ OperandRead

----------------------------------------------------------------------------
(* The stack of activations. *)

LEMMA InnermostProcedure ==
  ASSUME ParserTypes, ParseOutermost, status = "parsing"
  PROVE  /\ Len(stack) \in Nat \ {0}
         /\ Last(stack) = stack[Len(stack)] /\ Last(stack) \in Procedure
         /\ Front(stack) \in Seq(Procedure) /\ Len(Front(stack)) = Len(stack) - 1
         /\ \A i \in 1 .. Len(stack) - 1 : Front(stack)[i] = stack[i]
         /\ Last(stack).proc = "parse" <=> Len(stack) = 1
<1>1. PICK s : s = stack /\ s \in Seq(Procedure) /\ s # <<>>
  BY DEF ParserTypes, ParseOutermost
<1>2. /\ Len(s) \in Nat \ {0}
      /\ Last(s) = s[Len(s)] /\ Last(s) \in Procedure
      /\ Front(s) \in Seq(Procedure) /\ Len(Front(s)) = Len(s) - 1
      /\ \A i \in 1 .. Len(s) - 1 : Front(s)[i] = s[i]
  BY <1>1, TopOfStack
<1>3. Last(s).proc = "parse" <=> Len(s) = 1
  BY <1>1, <1>2 DEF ParseOutermost
<1>. QED
  BY <1>1, <1>2, <1>3

(* The innermost activation goes on at pc. *)
LEMMA GotoIs ==
  ASSUME ParserTypes, ParseOutermost, status = "parsing", NEW pc
  PROVE  [stack EXCEPT ![Len(stack)].pc = pc]
           = Append(Front(stack), [proc |-> Last(stack).proc, pc |-> pc])
<1>1. PICK n, f, fr : n = Len(stack) /\ f = Front(stack) /\ fr = Last(stack)
  OBVIOUS
<1>2. /\ n \in Nat \ {0} /\ fr = stack[n] /\ fr \in Procedure
      /\ f \in Seq(Procedure) /\ Len(f) = n - 1
      /\ \A i \in 1 .. n - 1 : f[i] = stack[i]
  BY <1>1, InnermostProcedure
<1>3. PICK new : new = [proc |-> fr.proc, pc |-> pc]
  OBVIOUS
<1>4. [fr EXCEPT !.pc = pc] = new
  BY <1>2, <1>3 DEF Procedure
<1>5. [stack EXCEPT ![n].pc = pc] = [stack EXCEPT ![n] = new]
  BY <1>2, <1>4 DEF ParserTypes
<1>6. stack = [i \in 1 .. n |-> stack[i]]
  BY <1>1 DEF ParserTypes
<1>7. [stack EXCEPT ![n] = new] = [i \in 1 .. n |-> IF i = n THEN new ELSE stack[i]]
  BY <1>6
<1>8. Append(f, new) = [i \in 1 .. n |-> IF i = n THEN new ELSE stack[i]]
  <2>1. PICK S : S = Procedure \cup {new}
    OBVIOUS
  <2>2. PICK s, t : s = Append(f, new) /\ t = [i \in 1 .. n |-> IF i = n THEN new ELSE stack[i]]
    OBVIOUS
  <2>3. f \in Seq(S) /\ new \in S /\ \A i \in 1 .. n : stack[i] \in S
    BY <1>1, <1>2, <2>1 DEF ParserTypes
  <2>4. s \in Seq(S) /\ Len(s) = n /\ s[n] = new /\ \A i \in 1 .. n - 1 : s[i] = f[i]
    BY <1>2, <2>2, <2>3
  <2>5. t \in Seq(S) /\ Len(t) = n
    BY <1>2, <2>2, <2>3
  <2>6. \A i \in 1 .. n : s[i] = t[i]
    BY <1>2, <2>2, <2>4
  <2>7. s = t
    BY <2>4, <2>5, <2>6, SeqEqual
  <2>. QED
    BY <2>2, <2>7
<1>. QED
  BY <1>1, <1>3, <1>5, <1>7, <1>8

(* A stack on which parse is outermost stays one if an activation is added *)
(* that is not parse, or the innermost goes on or is removed.              *)
Outermost(s) ==
  /\ s # <<>>
  /\ \A i \in 1 .. Len(s) : s[i].proc = "parse" <=> i = 1
  /\ Len(s) > 1 => s[1].pc = "end"

LEMMA OutermostAppend ==
  ASSUME NEW s \in Seq(Procedure), s # <<>> => Outermost(s) /\ s[1].pc = "end",
         NEW fr \in Procedure, fr.proc = "parse" <=> s = <<>>
  PROVE  Append(s, fr) \in Seq(Procedure) /\ Outermost(Append(s, fr))
<1>1. PICK t : t = Append(s, fr)
  OBVIOUS
<1>2. /\ t \in Seq(Procedure) /\ Len(s) \in Nat /\ Len(t) = Len(s) + 1 /\ t[Len(s) + 1] = fr
      /\ \A i \in 1 .. Len(s) : t[i] = s[i]
  BY <1>1
<1>3. CASE s = <<>>
  BY <1>1, <1>2, <1>3 DEF Outermost
<1>4. CASE s # <<>>
  <2>1. Len(s) > 0
    BY <1>4, EmptySeq
  <2>. QED
    BY <1>1, <1>2, <1>4, <2>1 DEF Outermost
<1>. QED
  BY <1>3, <1>4

LEMMA OutermostFront ==
  ASSUME ParserTypes, ParseOutermost, status = "parsing"
  PROVE  /\ Front(stack) = <<>> <=> Last(stack).proc = "parse"
         /\ Front(stack) # <<>> => Outermost(Front(stack)) /\ Front(stack)[1].pc = "end"
<1>1. PICK f : f = Front(stack)
  OBVIOUS
<1>2. /\ Len(stack) \in Nat \ {0}
      /\ f \in Seq(Procedure) /\ Len(f) = Len(stack) - 1
      /\ \A i \in 1 .. Len(stack) - 1 : f[i] = stack[i]
      /\ Last(stack).proc = "parse" <=> Len(stack) = 1
  BY <1>1, InnermostProcedure
<1>3. f = <<>> <=> Len(f) = 0
  BY <1>2, EmptySeq
<1>4. ASSUME Len(f) > 0
      PROVE  Outermost(f) /\ f[1].pc = "end"
  BY <1>2, <1>3, <1>4 DEF Outermost, ParseOutermost
<1>. QED
  BY <1>1, <1>2, <1>3, <1>4

(* The innermost activation becomes fr. *)
LEMMA Replaced ==
  ASSUME ParserTypes, ParseOutermost, status = "parsing",
         NEW fr \in Procedure, fr.proc = "parse" <=> Last(stack).proc = "parse",
         NEW s, s = Append(Front(stack), fr)
  PROVE  /\ s \in Seq(Procedure) /\ Outermost(s) /\ Last(s) = fr
         /\ Count(s, Holding) = Count(stack, Holding) + One(fr, Holding) - One(Last(stack), Holding)
<1>1. PICK f : f = Front(stack)
  OBVIOUS
<1>2. f \in Seq(Procedure) /\ stack \in Seq(Procedure) /\ stack # <<>>
  BY <1>1, InnermostProcedure DEF ParserTypes, ParseOutermost
<1>3. s \in Seq(Procedure) /\ Outermost(s)
  BY <1>1, <1>2, OutermostFront, OutermostAppend
<1>4. Last(s) = fr
  BY <1>1, <1>2 DEF Last
<1>5. Count(s, Holding) = Count(f, Holding) + One(fr, Holding)
  BY <1>1, <1>2, CountAppend
<1>6. Count(stack, Holding) = Count(f, Holding) + One(Last(stack), Holding)
  BY <1>1, <1>2, CountFront
<1>7. Count(f, Holding) \in Nat /\ One(fr, Holding) \in Nat /\ One(Last(stack), Holding) \in Nat
  BY <1>2, CountType DEF One
<1>. QED
  BY <1>3, <1>4, <1>5, <1>6, <1>7

(* The innermost activation goes on as fr, once the one it calls returns. *)
LEMMA Called ==
  ASSUME ParserTypes, ParseOutermost, status = "parsing",
         NEW fr \in Procedure, fr.proc = Last(stack).proc, fr.proc = "parse" => fr.pc = "end",
         NEW callee \in Procedure, callee.proc # "parse",
         NEW s, s = Append(Append(Front(stack), fr), callee)
  PROVE  /\ s \in Seq(Procedure) /\ Outermost(s) /\ Last(s) = callee
         /\ Count(s, Holding) = Count(stack, Holding) + One(fr, Holding) + One(callee, Holding)
                                  - One(Last(stack), Holding)
<1>1. PICK r : r = Append(Front(stack), fr)
  OBVIOUS
<1>2. /\ r \in Seq(Procedure) /\ Outermost(r) /\ Last(r) = fr /\ r # <<>>
      /\ Count(r, Holding) = Count(stack, Holding) + One(fr, Holding) - One(Last(stack), Holding)
  BY <1>1, Replaced DEF Outermost
<1>3. r[1].pc = "end"
  <2>1. CASE Len(r) > 1
    BY <1>2, <2>1 DEF Outermost
  <2>2. CASE Len(r) <= 1
    <3>1. PICK n : n = Len(r) /\ n \in Nat \ {0}
      BY <1>2, TopOfStack
    <3>2. n <= 1
      BY <2>2, <3>1
    <3>3. n = 1
      BY <3>1, <3>2
    <3>4. r[1] = fr /\ r[1].proc = "parse"
      BY <1>2, <3>1, <3>3 DEF Last, Outermost
    <3>. QED
      BY <3>4
  <2>3. Len(r) > 1 \/ Len(r) <= 1
    <3>1. Len(r) \in Nat
      BY <1>2
    <3>. QED
      BY <3>1
  <2>. QED
    BY <1>2, <2>1, <2>2, <2>3
<1>4. s \in Seq(Procedure) /\ Outermost(s)
  BY <1>1, <1>2, <1>3, OutermostAppend
<1>5. Last(s) = callee
  BY <1>1, <1>2 DEF Last
<1>6. Count(s, Holding) = Count(r, Holding) + One(callee, Holding)
  BY <1>1, <1>2, CountAppend
<1>7. /\ Count(stack, Holding) \in Nat /\ One(fr, Holding) \in Nat
      /\ One(callee, Holding) \in Nat /\ One(Last(stack), Holding) \in Nat
  BY CountType DEF One, ParserTypes
<1>. QED
  BY <1>2, <1>4, <1>5, <1>6, <1>7

(* An activation other than parse returns. *)
LEMMA Returned ==
  ASSUME ParserTypes, ParseOutermost, status = "parsing", Last(stack).proc # "parse",
         NEW s, s = Front(stack)
  PROVE  /\ s \in Seq(Procedure) /\ Outermost(s)
         /\ Count(s, Holding) = Count(stack, Holding) - One(Last(stack), Holding)
<1>1. s \in Seq(Procedure) /\ stack \in Seq(Procedure) /\ stack # <<>>
  BY InnermostProcedure DEF ParserTypes, ParseOutermost
<1>2. Outermost(s)
  BY OutermostFront
<1>3. Count(stack, Holding) = Count(s, Holding) + One(Last(stack), Holding)
  BY <1>1, CountFront
<1>4. Count(s, Holding) \in Nat /\ One(Last(stack), Holding) \in Nat
  BY <1>1, CountType DEF One
<1>. QED
  BY <1>1, <1>2, <1>3, <1>4

(* Where an activation other than parse is the innermost, the stack of     *)
(* operators is not empty.                                                 *)
LEMMA SomeSentinel ==
  ASSUME ParserInv, status = "parsing", Last(stack).proc # "parse"
  PROVE  operators # <<>>
<1>1. stack \in Seq(Procedure) /\ Len(stack) > 1 /\ Len(stack) \in Nat
  <2>1. ParserTypes /\ ParseOutermost
    BY DEF ParserInv
  <2>2. PICK n : n = Len(stack) /\ n \in Nat \ {0} /\ n # 1
    BY <2>1, InnermostProcedure
  <2>3. n > 1
    BY <2>2
  <2>. QED
    BY <2>1, <2>2, <2>3 DEF ParserTypes
<1>2. stack[1] \in Holding
  BY <1>1 DEF ParserInv, ParseOutermost, Holding
<1>3. Count(stack, Holding) > 0 /\ Count(stack, Holding) \in Nat
  BY <1>1, <1>2, CountFound, CountType
<1>4. Count(operators, Sentinels) > 0
  BY <1>3, CountType DEF ParserInv, SentinelsSuffice, ParserTypes
<1>. QED
  BY <1>4, CountEmpty

(* What At says of the innermost activation. *)
LEMMA InnermostAt ==
  ASSUME ParserTypes, ParseOutermost, NEW procs, NEW pc, At(procs, pc)
  PROVE  /\ status = "parsing" /\ next.type # "INVALID"
         /\ Last(stack) \in Procedure /\ Last(stack).proc \in procs /\ Last(stack).pc = pc
BY InnermostProcedure DEF At

(* The activation that goes on at pc. *)
LEMMA Continued ==
  ASSUME ParserTypes, ParseOutermost, NEW procs, NEW old, At(procs, old), NEW pc,
         NEW fr, fr = [proc |-> Last(stack).proc, pc |-> pc]
  PROVE  /\ Goto(pc) => stack' = Append(Front(stack), fr)
         /\ \A proc : Call(pc, proc) => stack' = Append(Append(Front(stack), fr), Activation(proc))
<1>1. status = "parsing"
  BY DEF At
<1>. QED
  BY <1>1, GotoIs DEF Goto, Call

(* The next token. *)
LEMMA Lexed ==
  ASSUME ParserTypes, consume
  PROVE  next' \in InputTokens \cup {NoTerm}
BY DEF ParserTypes, consume, Following, Lex, InputTokens, NoTerm

(* The invariant after a step within a call of parse. *)
LEMMA StepKeeps ==
  ASSUME ParserInv, status = "parsing", status' = "parsing", next' \in InputTokens \cup {NoTerm},
         operators' \in Seq(OperatorToken), stack' \in Seq(Procedure), Outermost(stack'),
         Count(operators', Sentinels) >= Count(stack', Holding), OperandRead'
  PROVE  ParserInv'
<1>1. ParserTypes'
  BY DEF ParserTypes
<1>2. ParseOutermost'
  BY DEF ParseOutermost, Outermost
<1>3. SentinelsSuffice'
  BY DEF SentinelsSuffice
<1>. QED
  BY <1>1, <1>2, <1>3 DEF ParserInv

----------------------------------------------------------------------------
(* Steps, by what they do to the stack of activations. *)

LEMMA OperandsStay ==
  ASSUME OperandRead, UNCHANGED operands,
         Last(stack').pc \in {"enter", "open"} \/ Len(operands) > 0
  PROVE  OperandRead'
BY DEF OperandRead

LEMMA CountsTyped ==
  ASSUME ParserTypes, NEW e
  PROVE  /\ Count(operators, Sentinels) \in Nat /\ Count(stack, Holding) \in Nat
         /\ One(e, Holding) \in Nat
BY CountType DEF ParserTypes, One

LEMMA CallKeeps ==
  ASSUME ParserInv, NEW procs, NEW old, At(procs, old), NEW pc, NEW proc, Call(pc, proc),
         NEW fr \in Procedure, fr = [proc |-> Last(stack).proc, pc |-> pc],
         fr.proc = "parse" => pc = "end",
         proc \in {"E", "LogicEXP", "P", "LP"},
         UNCHANGED <<operands, status>>, next' \in InputTokens \cup {NoTerm},
         operators' \in Seq(OperatorToken),
         Count(operators', Sentinels)
           = Count(operators, Sentinels) + One(fr, Holding) - One(Last(stack), Holding)
  PROVE  ParserInv'
<1>1. ParserTypes /\ ParseOutermost /\ SentinelsSuffice /\ OperandRead
  BY DEF ParserInv
<1>2. status = "parsing" /\ status' = "parsing"
  BY <1>1, InnermostAt
<1>3. PICK callee : callee = Activation(proc)
  OBVIOUS
<1>4. callee \in Procedure /\ callee.proc # "parse" /\ callee.pc = "enter" /\ callee \notin Holding
  BY <1>3 DEF Activation, Procedure, Holding
<1>5. stack' = Append(Append(Front(stack), fr), callee)
  BY <1>1, <1>3, Continued
<1>6. fr.proc = Last(stack).proc /\ (fr.proc = "parse" => fr.pc = "end")
  OBVIOUS
<1>7. /\ stack' \in Seq(Procedure) /\ Outermost(stack') /\ Last(stack') = callee
      /\ Count(stack', Holding) = Count(stack, Holding) + One(fr, Holding) + One(callee, Holding)
                                    - One(Last(stack), Holding)
  BY <1>1, <1>2, <1>4, <1>5, <1>6, Called
<1>8. OperandRead'
  BY <1>1, <1>4, <1>7, OperandsStay
<1>9. Count(operators', Sentinels) >= Count(stack', Holding)
  <2>1. One(callee, Holding) = 0
    BY <1>4 DEF One
  <2>2. Count(operators, Sentinels) >= Count(stack, Holding)
    BY <1>1 DEF SentinelsSuffice
  <2>. QED
    BY <1>1, <1>7, <2>1, <2>2, CountsTyped
<1>. QED
  BY <1>2, <1>7, <1>8, <1>9, StepKeeps

LEMMA GotoKeeps ==
  ASSUME ParserInv, NEW procs, NEW old, At(procs, old), NEW fr \in Procedure,
         fr.proc = "parse" <=> Last(stack).proc = "parse",
         stack' = Append(Front(stack), fr),
         fr.pc \in {"enter", "open"} \/ Len(operands) > 0,
         UNCHANGED <<operands, status>>, next' \in InputTokens \cup {NoTerm},
         operators' \in Seq(OperatorToken),
         Count(operators', Sentinels)
           = Count(operators, Sentinels) + One(fr, Holding) - One(Last(stack), Holding)
  PROVE  ParserInv'
<1>1. ParserTypes /\ ParseOutermost /\ SentinelsSuffice /\ OperandRead
  BY DEF ParserInv
<1>2. status = "parsing" /\ status' = "parsing"
  BY <1>1, InnermostAt
<1>3. /\ stack' \in Seq(Procedure) /\ Outermost(stack') /\ Last(stack') = fr
      /\ Count(stack', Holding) = Count(stack, Holding) + One(fr, Holding) - One(Last(stack), Holding)
  BY <1>1, <1>2, Replaced
<1>4. OperandRead'
  BY <1>1, <1>3, OperandsStay
<1>5. Count(operators', Sentinels) >= Count(stack', Holding)
  <2>1. Count(operators, Sentinels) >= Count(stack, Holding)
    BY <1>1 DEF SentinelsSuffice
  <2>. QED
    BY <1>1, <1>3, <2>1, CountsTyped
<1>. QED
  BY <1>2, <1>3, <1>4, <1>5, StepKeeps

LEMMA ReturnKeeps ==
  ASSUME ParserInv, NEW procs, NEW old, At(procs, old), Last(stack).proc # "parse", Return,
         OperandRead', UNCHANGED status, next' \in InputTokens \cup {NoTerm},
         operators' \in Seq(OperatorToken),
         Count(operators', Sentinels) >= Count(operators, Sentinels) - One(Last(stack), Holding)
  PROVE  ParserInv'
<1>1. ParserTypes /\ ParseOutermost /\ SentinelsSuffice
  BY DEF ParserInv
<1>2. status = "parsing" /\ status' = "parsing"
  BY <1>1, InnermostAt
<1>3. /\ stack' \in Seq(Procedure) /\ Outermost(stack')
      /\ Count(stack', Holding) = Count(stack, Holding) - One(Last(stack), Holding)
  BY <1>1, <1>2, Returned DEF Return
<1>4. Count(operators', Sentinels) >= Count(stack', Holding)
  <2>1. Count(operators, Sentinels) >= Count(stack, Holding)
    BY <1>1 DEF SentinelsSuffice
  <2>2. Count(operators', Sentinels) \in Nat
    BY CountType
  <2>. QED
    BY <1>1, <1>3, <2>1, <2>2, CountsTyped
<1>. QED
  BY <1>2, <1>3, <1>4, StepKeeps

(* Steps that leave the stack of activations alone. *)
LEMMA LoopKeeps ==
  ASSUME ParserInv, status = "parsing", UNCHANGED <<stack, status>>,
         OperandRead', next' \in InputTokens \cup {NoTerm},
         operators' \in Seq(OperatorToken),
         Count(operators', Sentinels) = Count(operators, Sentinels)
  PROVE  ParserInv'
<1>1. stack \in Seq(Procedure) /\ Outermost(stack)
  BY DEF ParserInv, ParserTypes, ParseOutermost, Outermost
<1>2. Count(operators', Sentinels) >= Count(stack', Holding)
  BY DEF ParserInv, SentinelsSuffice
<1>. QED
  BY <1>1, <1>2, StepKeeps

(* Steps that end the call. *)
LEMMA EndKeeps ==
  ASSUME ParserInv, status' \in {"returned", "threw", "undefined"}, stack' = <<>>,
         UNCHANGED <<next, operators, operands>>
  PROVE  ParserInv'
<1>1. ParserTypes /\ OperandRead
  BY DEF ParserInv
<1>2. ParserTypes'
  BY <1>1 DEF ParserTypes
<1>3. ParseOutermost'
  BY DEF ParseOutermost
<1>4. SentinelsSuffice'
  BY <1>1, CountEmpty, CountsTyped DEF SentinelsSuffice
<1>5. OperandRead'
  BY <1>1 DEF OperandRead
<1>. QED
  BY <1>2, <1>3, <1>4, <1>5 DEF ParserInv

----------------------------------------------------------------------------
(* The stack of operators. *)

LEMMA PushedSentinel ==
  ASSUME ParserTypes
  PROVE  /\ Append(operators, Sentinel) \in Seq(OperatorToken)
         /\ Count(Append(operators, Sentinel), Sentinels) = Count(operators, Sentinels) + 1
<1>1. Sentinel \in OperatorToken /\ Sentinel \in Sentinels
  BY Precedences DEF Sentinel, OpToken, OperatorToken, Sentinels
<1>2. operators \in Seq(OperatorToken)
  BY DEF ParserTypes
<1>3. One(Sentinel, Sentinels) = 1
  BY <1>1 DEF One
<1>. QED
  BY <1>1, <1>2, <1>3, CountAppend

LEMMA Popped ==
  ASSUME ParserTypes, operators # <<>>
  PROVE  /\ Last(operators) \in OperatorToken
         /\ Front(operators) \in Seq(OperatorToken)
         /\ Count(Front(operators), Sentinels) >= Count(operators, Sentinels) - 1
         /\ Last(operators).value # "sentinel"
              => Count(Front(operators), Sentinels) = Count(operators, Sentinels)
<1>1. operators \in Seq(OperatorToken)
  BY DEF ParserTypes
<1>2. Last(operators) \in OperatorToken /\ Front(operators) \in Seq(OperatorToken)
  BY <1>1, TopOfStack
<1>3. Count(operators, Sentinels) = Count(Front(operators), Sentinels) + One(Last(operators), Sentinels)
  BY <1>1, CountFront
<1>4. Count(Front(operators), Sentinels) \in Nat
  BY <1>2, CountType
<1>5. One(Last(operators), Sentinels) \in {0, 1}
      /\ (Last(operators).value # "sentinel" => One(Last(operators), Sentinels) = 0)
  BY DEF One, Sentinels
<1>. QED
  BY <1>2, <1>3, <1>4, <1>5

(* Where an operator is pushed or popped. *)
LEMMA AtLoop ==
  ASSUME ParserInv, Pushing \/ Draining
  PROVE  /\ status = "parsing" /\ Last(stack) \in Procedure /\ Last(stack).proc # "parse"
         /\ operators # <<>>
         /\ Draining => Len(operands) > 0
<1>1. ParserTypes /\ ParseOutermost /\ OperandRead
  BY DEF ParserInv
<1>2. PICK procs, pc : At(procs, pc) /\ procs \subseteq {"E", "LogicEXP", "P", "LP"}
  BY DEF Pushing, Draining
<1>3. status = "parsing" /\ Last(stack) \in Procedure /\ Last(stack).proc # "parse"
  BY <1>1, <1>2, InnermostAt
<1>4. Draining => Last(stack).pc \in {"loop", "drain"}
  BY <1>1, InnermostAt DEF Draining
<1>. QED
  BY <1>1, <1>3, <1>4, SomeSentinel DEF OperandRead

(* The operator that is about to be pushed is in the table, and is not a   *)
(* sentinel.                                                               *)
LEMMA PendingIs ==
  ASSUME ParserInv, Pushing
  PROVE  next \in OperatorToken /\ Pending \in OperatorToken /\ Pending.value # "sentinel"
<1>1. next.value \in BinaryOperator \cup UnaryOperator \cup LogicalBinaryOperator \cup LogicalUnaryOperator
  BY DEF Pushing
<1>2. next.value # "" /\ next.value # "sentinel" /\ next.value \in DOMAIN Precedence
  BY <1>1, Precedences
     DEF BinaryOperator, UnaryOperator, LogicalBinaryOperator, LogicalUnaryOperator
<1>3. next \in InputTokens \cup {NoTerm}
  BY DEF ParserInv, ParserTypes
<1>4. \A type : Token(type).value = ""
  BY DEF Token
<1>5. next # NoTerm
  BY <1>2, <1>4 DEF NoTerm
<1>6. PICK name \in Operators : next = [type |-> "OP", value |-> name, binary |-> TRUE]
  BY <1>2, <1>3, <1>4, <1>5 DEF InputTokens, OpToken
<1>7. next \in OperatorToken
  <2>1. name \in DOMAIN Precedence
    BY <1>2, <1>6
  <2>. QED
    BY <1>6, <2>1 DEF OperatorToken
<1>. QED
  BY <1>2, <1>7 DEF Pending, OperatorToken

(* No loop pops a sentinel. *)
LEMMA PopsOperator ==
  ASSUME ParserInv, Popping
  PROVE  Last(operators).value # "sentinel"
<1>1. CASE Pushing /\ hasHigherPrecedence(Last(operators), Pending)
  <2>1. Pending \in OperatorToken
    BY <1>1, PendingIs
  <2>2. Precedence[Pending.value] \in Nat
    BY <2>1, Precedences DEF OperatorToken
  <2>3. Last(operators).value = "-" \/ Precedence[Last(operators).value] > Precedence[Pending.value]
    BY <1>1 DEF hasHigherPrecedence
  <2>. QED
    BY <2>2, <2>3, Precedences
<1>2. CASE Draining /\ Last(operators).value # "sentinel"
  BY <1>2
<1>. QED
  BY <1>1, <1>2 DEF Popping

----------------------------------------------------------------------------
(* The actions. *)

(* The stack of operands after it has lost the ones from the n-th on and   *)
(* got e.                                                                  *)
LEMMA OperandAdded ==
  ASSUME OperandRead, NEW n \in 0 .. Len(operands), NEW e,
         operands' = Append(SubSeq(operands, 1, n), e)
  PROVE  OperandRead'
<1>1. PICK S : S = {operands[i] : i \in 1 .. Len(operands)} \cup {e}
  OBVIOUS
<1>2. operands = [i \in 1 .. Len(operands) |-> operands[i]] /\ Len(operands) \in Nat
  BY DEF OperandRead
<1>3. \A i \in 1 .. n : operands[i] \in S
  BY <1>1, <1>2
<1>4. /\ SubSeq(operands, 1, n) \in Seq(S)
      /\ Len(SubSeq(operands, 1, n)) = IF 1 <= n THEN n - 1 + 1 ELSE 0
  BY <1>2, <1>3, SubSeqProperties, 1 \in Int, n \in Int
<1>5. operands' \in Seq(S) /\ Len(operands') = n + 1
  BY <1>1, <1>2, <1>4
<1>. QED
  BY <1>2, <1>5 DEF OperandRead

LEMMA PopKeeps ==
  ASSUME ParserInv, popOperator
  PROVE  ParserInv'
<1>1. Popping /\ (Pushing \/ Draining)
  BY DEF popOperator, Popping
<1>2. status = "parsing" /\ operators # <<>> /\ Last(operators).value # "sentinel"
  BY <1>1, AtLoop, PopsOperator
<1>3. /\ operators' \in Seq(OperatorToken)
      /\ Count(operators', Sentinels) = Count(operators, Sentinels)
  BY <1>2, Popped DEF popOperator, ParserInv
<1>4. PICK n, e : n = Len(operands) - Arity(Last(operators)) /\ n >= 0
                  /\ operands' = Append(SubSeq(operands, 1, n), e)
  BY DEF popOperator
<1>5. n \in 0 .. Len(operands)
  BY <1>4 DEF Arity, ParserInv, OperandRead
<1>6. OperandRead'
  BY <1>4, <1>5, OperandAdded DEF ParserInv
<1>. QED
  BY <1>2, <1>3, <1>6, LoopKeeps DEF popOperator, ParserInv, ParserTypes

LEMMA PushKeeps ==
  ASSUME ParserInv, pushOperator
  PROVE  ParserInv'
<1>1. ParserTypes /\ ParseOutermost /\ OperandRead
  BY DEF ParserInv
<1>2. /\ Pushing /\ operators' = Append(operators, Pending)
      /\ UNCHANGED <<operands, status>> /\ next' \in InputTokens \cup {NoTerm}
  BY <1>1, Lexed DEF pushOperator
<1>3. status = "parsing" /\ operators # <<>> /\ Last(stack) \in Procedure
  BY <1>2, AtLoop
<1>4. /\ operators' \in Seq(OperatorToken)
      /\ Count(operators', Sentinels) = Count(operators, Sentinels)
  <2>1. operators \in Seq(OperatorToken) /\ Pending \in OperatorToken /\ One(Pending, Sentinels) = 0
    BY <1>1, <1>2, PendingIs DEF ParserTypes, One, Sentinels
  <2>2. Count(operators', Sentinels) = Count(operators, Sentinels) + One(Pending, Sentinels)
    BY <1>2, <2>1, CountAppend
  <2>3. Count(operators, Sentinels) \in Nat
    BY <2>1, CountType
  <2>. QED
    BY <1>2, <2>1, <2>2, <2>3
<1>5. ASSUME NEW proc \in {"E", "LogicEXP"}, Last(stack).proc = proc,
             NEW callee \in {"P", "LP"}, Call("loop", callee)
      PROVE  ParserInv'
  <2>1. At({proc}, "loop")
    BY <1>2, <1>5 DEF Pushing, At
  <2>2. PICK fr : fr = [proc |-> Last(stack).proc, pc |-> "loop"]
    OBVIOUS
  <2>3. fr \in Procedure /\ fr.proc # "parse" /\ fr = Last(stack)
    BY <1>3, <1>5, <2>1, <2>2 DEF Procedure, At
  <2>. QED
    BY <1>1, <1>2, <1>4, <1>5, <2>1, <2>2, <2>3, CallKeeps, CountsTyped
<1>6. CASE UNCHANGED stack
  <2>1. Last(stack).pc \in {"enter", "open"} \/ Len(operands) > 0
    BY <1>1, <1>3 DEF OperandRead
  <2>2. OperandRead'
    BY <1>1, <1>2, <1>6, <2>1, OperandsStay
  <2>. QED
    BY <1>2, <1>3, <1>4, <1>6, <2>2, LoopKeeps
<1>. QED
  BY <1>5, <1>6 DEF pushOperator

(* parse, and its activation. *)
LEMMA ParseKeeps ==
  ASSUME ParserInv, parse
  PROVE  ParserInv'
<1>1. next' \in InputTokens \cup {NoTerm}
  BY DEF parse, Lex, NoTerm
<1>2. /\ status' = "parsing" /\ stack' = <<Activation("parse")>>
      /\ UNCHANGED <<operators, operands>>
  BY DEF parse
<1>3. PICK fr : fr = Activation("parse")
  OBVIOUS
<1>4. fr \in Procedure /\ fr.proc = "parse" /\ fr.pc = "enter" /\ fr \notin Holding
  BY <1>3 DEF Activation, Procedure, Holding
<1>5. PICK s : s = <<>>
  OBVIOUS
<1>6. s \in Seq(Procedure) /\ stack' = Append(s, fr)
  BY <1>2, <1>3, <1>5
<1>7. /\ stack' \in Seq(Procedure) /\ Outermost(stack')
      /\ Count(stack', Holding) = Count(s, Holding) + One(fr, Holding)
  BY <1>4, <1>5, <1>6, OutermostAppend, CountAppend
<1>8. Count(stack', Holding) = 0
  BY <1>4, <1>5, <1>7, CountEmpty DEF One
<1>9. Last(stack').pc = "enter"
  BY <1>2, <1>3, <1>4 DEF Last
<1>10. ParserTypes'
  BY <1>1, <1>2, <1>7 DEF ParserInv, ParserTypes
<1>11. ParseOutermost'
  BY <1>2, <1>7 DEF ParseOutermost, Outermost
<1>12. SentinelsSuffice'
  BY <1>2, <1>8, CountsTyped DEF SentinelsSuffice, ParserInv
<1>13. OperandRead'
  BY <1>2, <1>9, OperandsStay DEF ParserInv
<1>. QED
  BY <1>10, <1>11, <1>12, <1>13 DEF ParserInv

LEMMA ParseExpressionKeeps ==
  ASSUME ParserInv, ParseExpression
  PROVE  ParserInv'
<1>1. ParserTypes /\ ParseOutermost
  BY DEF ParserInv
<1>2. /\ At({"parse"}, "enter") /\ Call("end", "E")
      /\ operators' = Append(operators, Sentinel) /\ UNCHANGED <<next, operands, status>>
  BY DEF ParseExpression
<1>3. PICK fr : fr = [proc |-> Last(stack).proc, pc |-> "end"]
  OBVIOUS
<1>4. fr \in Procedure /\ One(fr, Holding) = 1 /\ One(Last(stack), Holding) = 0
  BY <1>1, <1>2, <1>3, InnermostAt DEF Procedure, Holding, One
<1>5. next' \in InputTokens \cup {NoTerm}
  BY <1>1, <1>2 DEF ParserTypes
<1>6. /\ operators' \in Seq(OperatorToken)
      /\ Count(operators', Sentinels) = Count(operators, Sentinels) + 1
  BY <1>1, <1>2, PushedSentinel
<1>7. Count(operators', Sentinels)
        = Count(operators, Sentinels) + One(fr, Holding) - One(Last(stack), Holding)
  BY <1>1, <1>4, <1>6, CountsTyped
<1>. QED
  BY <1>2, <1>3, <1>4, <1>5, <1>6, <1>7, CallKeeps

LEMMA EnterEKeeps ==
  ASSUME ParserInv, EnterE
  PROVE  ParserInv'
<1>1. ParserTypes /\ ParseOutermost
  BY DEF ParserInv
<1>2. At({"E"}, "enter") /\ UNCHANGED <<next, operators, operands, status>>
  BY DEF EnterE
<1>3. PICK proc \in {"LogicEXP", "P"} : Call("loop", proc)
  BY DEF EnterE
<1>4. PICK fr : fr = [proc |-> Last(stack).proc, pc |-> "loop"]
  OBVIOUS
<1>5. /\ fr \in Procedure /\ fr.proc = "E"
      /\ One(fr, Holding) = 0 /\ One(Last(stack), Holding) = 0
  BY <1>1, <1>2, <1>4, InnermostAt DEF Procedure, Holding, One
<1>6. next' \in InputTokens \cup {NoTerm} /\ operators' \in Seq(OperatorToken)
  BY <1>1, <1>2 DEF ParserTypes
<1>7. Count(operators', Sentinels)
        = Count(operators, Sentinels) + One(fr, Holding) - One(Last(stack), Holding)
  BY <1>1, <1>2, <1>5, CountsTyped
<1>. QED
  BY <1>2, <1>3, <1>4, <1>5, <1>6, <1>7, CallKeeps

LEMMA LeaveEKeeps ==
  ASSUME ParserInv, LeaveE
  PROVE  ParserInv'
<1>1. ParserTypes /\ ParseOutermost /\ OperandRead
  BY DEF ParserInv
<1>2. /\ Draining /\ Last(stack).proc = "E" /\ Return
      /\ UNCHANGED <<next, operators, operands, status>>
  BY DEF LeaveE
<1>3. At({"E"}, "loop")
  BY <1>2 DEF Draining, At
<1>4. One(Last(stack), Holding) = 0
  BY <1>2 DEF Holding, One
<1>5. next' \in InputTokens \cup {NoTerm} /\ operators' \in Seq(OperatorToken)
  BY <1>1, <1>2 DEF ParserTypes
<1>6. Count(operators', Sentinels) >= Count(operators, Sentinels) - One(Last(stack), Holding)
  BY <1>1, <1>2, <1>4, CountsTyped
<1>7. OperandRead'
  BY <1>1, <1>2, AtLoop, OperandsStay
<1>. QED
  BY <1>2, <1>3, <1>5, <1>6, <1>7, ReturnKeeps

LEMMA EnterLogicEXPKeeps ==
  ASSUME ParserInv, EnterLogicEXP
  PROVE  ParserInv'
<1>1. ParserTypes /\ ParseOutermost
  BY DEF ParserInv
<1>2. /\ At({"LogicEXP"}, "enter") /\ Call("loop", "LP") /\ consume
      /\ operators' = Append(operators, Sentinel) /\ UNCHANGED <<operands, status>>
  BY DEF EnterLogicEXP
<1>3. PICK fr : fr = [proc |-> Last(stack).proc, pc |-> "loop"]
  OBVIOUS
<1>4. /\ fr \in Procedure /\ fr.proc = "LogicEXP"
      /\ One(fr, Holding) = 1 /\ One(Last(stack), Holding) = 0
  BY <1>1, <1>2, <1>3, InnermostAt DEF Procedure, Holding, One
<1>5. next' \in InputTokens \cup {NoTerm}
  BY <1>1, <1>2, Lexed
<1>6. /\ operators' \in Seq(OperatorToken)
      /\ Count(operators', Sentinels) = Count(operators, Sentinels) + 1
  BY <1>1, <1>2, PushedSentinel
<1>7. Count(operators', Sentinels)
        = Count(operators, Sentinels) + One(fr, Holding) - One(Last(stack), Holding)
  BY <1>1, <1>4, <1>6, CountsTyped
<1>. QED
  BY <1>2, <1>3, <1>4, <1>5, <1>6, <1>7, CallKeeps

LEMMA CloseLogicEXPKeeps ==
  ASSUME ParserInv, CloseLogicEXP
  PROVE  ParserInv'
<1>1. ParserTypes /\ ParseOutermost /\ OperandRead
  BY DEF ParserInv
<1>2. /\ At({"LogicEXP"}, "loop") /\ Goto("drain") /\ consume
      /\ UNCHANGED <<operators, operands, status>>
  BY DEF CloseLogicEXP
<1>3. PICK fr : fr = [proc |-> Last(stack).proc, pc |-> "drain"]
  OBVIOUS
<1>4. /\ fr \in Procedure /\ fr.proc = "LogicEXP"
      /\ One(fr, Holding) = 1 /\ One(Last(stack), Holding) = 1
      /\ status = "parsing" /\ Last(stack).proc = "LogicEXP" /\ Last(stack).pc = "loop"
  BY <1>1, <1>2, <1>3, InnermostAt DEF Procedure, Holding, One
<1>5. next' \in InputTokens \cup {NoTerm} /\ operators' \in Seq(OperatorToken)
  BY <1>1, <1>2, Lexed DEF ParserTypes
<1>6. Count(operators', Sentinels)
        = Count(operators, Sentinels) + One(fr, Holding) - One(Last(stack), Holding)
  BY <1>1, <1>2, <1>4, CountsTyped
<1>7. stack' = Append(Front(stack), fr)
  BY <1>1, <1>2, <1>3, Continued
<1>8. Len(operands) > 0
  BY <1>1, <1>4 DEF OperandRead
<1>. QED
  BY <1>2, <1>4, <1>5, <1>6, <1>7, <1>8, GotoKeeps

LEMMA LeaveLogicEXPKeeps ==
  ASSUME ParserInv, LeaveLogicEXP
  PROVE  ParserInv'
<1>1. ParserTypes /\ ParseOutermost /\ OperandRead
  BY DEF ParserInv
<1>2. /\ Draining /\ Last(stack).proc = "LogicEXP" /\ Return
      /\ operators' = Front(operators) /\ UNCHANGED <<next, operands, status>>
  BY DEF LeaveLogicEXP
<1>3. At({"LogicEXP"}, "drain")
  BY <1>2 DEF Draining, At
<1>4. One(Last(stack), Holding) = 1
  BY <1>1, <1>3, InnermostAt DEF Holding, One
<1>5. next' \in InputTokens \cup {NoTerm}
  BY <1>1, <1>2 DEF ParserTypes
<1>6. /\ operators' \in Seq(OperatorToken)
      /\ Count(operators', Sentinels) >= Count(operators, Sentinels) - 1
  BY <1>1, <1>2, AtLoop, Popped
<1>7. OperandRead'
  BY <1>1, <1>2, AtLoop, OperandsStay
<1>. QED
  BY <1>2, <1>3, <1>4, <1>5, <1>6, <1>7, ReturnKeeps

LEMMA ReadOperandKeeps ==
  ASSUME ParserInv, ReadOperand
  PROVE  ParserInv'
<1>1. ParserTypes /\ ParseOutermost /\ OperandRead
  BY DEF ParserInv
<1>2. /\ At({"P", "LP"}, "enter") /\ Return /\ consume /\ UNCHANGED <<operators, status>>
  BY DEF ReadOperand
<1>3. One(Last(stack), Holding) = 0 /\ Last(stack).proc # "parse"
  BY <1>1, <1>2, InnermostAt DEF Holding, One
<1>4. next' \in InputTokens \cup {NoTerm} /\ operators' \in Seq(OperatorToken)
  BY <1>1, <1>2, Lexed DEF ParserTypes
<1>5. Count(operators', Sentinels) >= Count(operators, Sentinels) - One(Last(stack), Holding)
  BY <1>1, <1>2, <1>3, CountsTyped
<1>6. OperandRead'
  <2>1. PICK n, e : n = Len(operands) /\ operands' = Append(operands, e)
    BY DEF ReadOperand
  <2>2. operands = [i \in 1 .. n |-> operands[i]] /\ n \in Nat
    BY <1>1, <2>1 DEF OperandRead
  <2>3. SubSeq(operands, 1, n) = operands
    BY <2>1, <2>2
  <2>4. n \in 0 .. Len(operands) /\ operands' = Append(SubSeq(operands, 1, n), e)
    BY <2>1, <2>2, <2>3
  <2>. QED
    BY <1>1, <2>4, OperandAdded
<1>. QED
  BY <1>2, <1>3, <1>4, <1>5, <1>6, ReturnKeeps

LEMMA OpenParenthesisKeeps ==
  ASSUME ParserInv, OpenParenthesis
  PROVE  ParserInv'
<1>1. ParserTypes /\ ParseOutermost
  BY DEF ParserInv
<1>2. /\ At({"P", "LP"}, "enter") /\ Goto("open") /\ consume
      /\ UNCHANGED <<operators, operands, status>>
  BY DEF OpenParenthesis
<1>3. PICK fr : fr = [proc |-> Last(stack).proc, pc |-> "open"]
  OBVIOUS
<1>4. /\ fr \in Procedure /\ fr.proc = Last(stack).proc /\ fr.pc = "open"
      /\ One(fr, Holding) = 0 /\ One(Last(stack), Holding) = 0
  BY <1>1, <1>2, <1>3, InnermostAt DEF Procedure, Holding, One
<1>5. next' \in InputTokens \cup {NoTerm} /\ operators' \in Seq(OperatorToken)
  BY <1>1, <1>2, Lexed DEF ParserTypes
<1>6. Count(operators', Sentinels)
        = Count(operators, Sentinels) + One(fr, Holding) - One(Last(stack), Holding)
  BY <1>1, <1>2, <1>4, CountsTyped
<1>7. stack' = Append(Front(stack), fr)
  BY <1>1, <1>2, <1>3, Continued
<1>. QED
  BY <1>2, <1>4, <1>5, <1>6, <1>7, GotoKeeps

LEMMA EnterParenthesisKeeps ==
  ASSUME ParserInv, EnterParenthesis
  PROVE  ParserInv'
<1>1. ParserTypes /\ ParseOutermost
  BY DEF ParserInv
<1>2. /\ At({"P", "LP"}, "open") /\ Call("close", "E")
      /\ operators' = Append(operators, Sentinel) /\ UNCHANGED <<next, operands, status>>
  BY DEF EnterParenthesis
<1>3. PICK fr : fr = [proc |-> Last(stack).proc, pc |-> "close"]
  OBVIOUS
<1>4. /\ fr \in Procedure /\ fr.proc # "parse"
      /\ One(fr, Holding) = 1 /\ One(Last(stack), Holding) = 0
  BY <1>1, <1>2, <1>3, InnermostAt DEF Procedure, Holding, One
<1>5. next' \in InputTokens \cup {NoTerm}
  BY <1>1, <1>2 DEF ParserTypes
<1>6. /\ operators' \in Seq(OperatorToken)
      /\ Count(operators', Sentinels) = Count(operators, Sentinels) + 1
  BY <1>1, <1>2, PushedSentinel
<1>7. Count(operators', Sentinels)
        = Count(operators, Sentinels) + One(fr, Holding) - One(Last(stack), Holding)
  BY <1>1, <1>4, <1>6, CountsTyped
<1>. QED
  BY <1>2, <1>3, <1>4, <1>5, <1>6, <1>7, CallKeeps

LEMMA CloseParenthesisKeeps ==
  ASSUME ParserInv, CloseParenthesis
  PROVE  ParserInv'
<1>1. ParserTypes /\ ParseOutermost /\ OperandRead
  BY DEF ParserInv
<1>2. /\ At({"P", "LP"}, "close") /\ Goto("closed") /\ consume
      /\ UNCHANGED <<operators, operands, status>>
  BY DEF CloseParenthesis
<1>3. PICK fr : fr = [proc |-> Last(stack).proc, pc |-> "closed"]
  OBVIOUS
<1>4. /\ fr \in Procedure /\ fr.proc = Last(stack).proc
      /\ One(fr, Holding) = 1 /\ One(Last(stack), Holding) = 1
      /\ status = "parsing" /\ Last(stack).pc = "close"
  BY <1>1, <1>2, <1>3, InnermostAt DEF Procedure, Holding, One
<1>5. next' \in InputTokens \cup {NoTerm} /\ operators' \in Seq(OperatorToken)
  BY <1>1, <1>2, Lexed DEF ParserTypes
<1>6. Count(operators', Sentinels)
        = Count(operators, Sentinels) + One(fr, Holding) - One(Last(stack), Holding)
  BY <1>1, <1>2, <1>4, CountsTyped
<1>7. stack' = Append(Front(stack), fr)
  BY <1>1, <1>2, <1>3, Continued
<1>8. Len(operands) > 0
  BY <1>1, <1>4 DEF OperandRead
<1>. QED
  BY <1>2, <1>4, <1>5, <1>6, <1>7, <1>8, GotoKeeps

LEMMA LeaveParenthesisKeeps ==
  ASSUME ParserInv, LeaveParenthesis
  PROVE  ParserInv'
<1>1. ParserTypes /\ ParseOutermost /\ OperandRead
  BY DEF ParserInv
<1>2. /\ At({"P", "LP"}, "closed") /\ Return
      /\ operators' = Front(operators) /\ UNCHANGED <<next, operands, status>>
  BY DEF LeaveParenthesis
<1>3. /\ One(Last(stack), Holding) = 1
      /\ status = "parsing" /\ Last(stack).proc # "parse" /\ Last(stack).pc = "closed"
  BY <1>1, <1>2, InnermostAt DEF Holding, One
<1>4. next' \in InputTokens \cup {NoTerm}
  BY <1>1, <1>2 DEF ParserTypes
<1>5. /\ operators' \in Seq(OperatorToken)
      /\ Count(operators', Sentinels) >= Count(operators, Sentinels) - 1
  BY <1>1, <1>2, <1>3, SomeSentinel, Popped
<1>6. OperandRead'
  BY <1>1, <1>2, <1>3, OperandsStay DEF OperandRead
<1>. QED
  BY <1>2, <1>3, <1>4, <1>5, <1>6, ReturnKeeps

LEMMA NestedLogicEXPKeeps ==
  ASSUME ParserInv, NestedLogicEXP
  PROVE  ParserInv'
<1>1. ParserTypes /\ ParseOutermost
  BY DEF ParserInv
<1>2. /\ At({"P", "LP"}, "enter") /\ TailCall("LogicEXP")
      /\ UNCHANGED <<next, operators, operands, status>>
  BY DEF NestedLogicEXP
<1>3. PICK fr : fr = Activation("LogicEXP")
  OBVIOUS
<1>4. /\ fr \in Procedure /\ fr.proc # "parse" /\ fr.pc = "enter" /\ Last(stack).proc # "parse"
      /\ One(fr, Holding) = 0 /\ One(Last(stack), Holding) = 0
  BY <1>1, <1>2, <1>3, InnermostAt DEF Activation, Procedure, Holding, One
<1>5. next' \in InputTokens \cup {NoTerm} /\ operators' \in Seq(OperatorToken)
  BY <1>1, <1>2 DEF ParserTypes
<1>6. Count(operators', Sentinels)
        = Count(operators, Sentinels) + One(fr, Holding) - One(Last(stack), Holding)
  BY <1>1, <1>2, <1>4, CountsTyped
<1>7. stack' = Append(Front(stack), fr)
  BY <1>2, <1>3 DEF TailCall
<1>. QED
  BY <1>2, <1>4, <1>5, <1>6, <1>7, GotoKeeps

LEMMA StutterKeepsParser ==
  ASSUME ParserInv, UNCHANGED vars
  PROVE  ParserInv'
BY DEF vars, ParserInv, ParserTypes, ParseOutermost, SentinelsSuffice, Count, Positions, OperandRead

LEMMA ParserInvIsKept ==
  ASSUME ParserInv, [Next]_vars
  PROVE  ParserInv'
<1>1. ASSUME ParseReturns \/ Throw \/ popOperatorUndefined
      PROVE  ParserInv'
  BY <1>1, EndKeeps DEF ParseReturns, Throw, popOperatorUndefined
<1>. QED
  BY <1>1, ParseKeeps, PopKeeps, PushKeeps, ParseExpressionKeeps, EnterEKeeps, LeaveEKeeps,
     EnterLogicEXPKeeps, CloseLogicEXPKeeps, LeaveLogicEXPKeeps, ReadOperandKeeps,
     OpenParenthesisKeeps, EnterParenthesisKeeps, CloseParenthesisKeeps, LeaveParenthesisKeeps,
     NestedLogicEXPKeeps, StutterKeepsParser DEF Next, Step

LEMMA ParserInvInitially ==
  ASSUME Init
  PROVE  ParserInv
<1>1. ParserTypes
  BY DEF Init, ParserTypes, InputTokens, NoTerm
<1>2. ParseOutermost /\ OperandRead
  BY DEF Init, ParseOutermost, OperandRead
<1>3. SentinelsSuffice
  BY CountEmpty DEF Init, SentinelsSuffice
<1>. QED
  BY <1>1, <1>2, <1>3 DEF ParserInv

----------------------------------------------------------------------------
(* The operator on top where a bracket has been closed. *)

(* What waits for a bracket or for the end has called E, and E returns to  *)
(* it with the sentinel on top.                                            *)
Enclosed ==
  /\ \A i \in 1 .. Len(stack) - 1 :
       stack[i].pc = "loop" \/ (stack[i].pc \in {"close", "end"} /\ stack[i + 1].proc = "E")
  /\ status = "parsing" /\ Last(stack).pc \in {"close", "closed", "end"}
       => Last(operators).value = "sentinel"

LEMMA CallEncloses ==
  ASSUME ParserInv, Enclosed, NEW procs, NEW old, At(procs, old), NEW pc, NEW proc, Call(pc, proc),
         pc \in {"loop", "close", "end"}, pc # "loop" => proc = "E"
  PROVE  Enclosed'
<1>1. ParserTypes /\ ParseOutermost
  BY DEF ParserInv
<1>2. status = "parsing"
  BY DEF At
<1>3. PICK n, f, fr, callee : n = Len(stack) /\ f = Front(stack)
        /\ fr = [proc |-> Last(stack).proc, pc |-> pc] /\ callee = Activation(proc)
  OBVIOUS
<1>4. stack' = Append(Append(f, fr), callee)
  BY <1>1, <1>3, Continued
<1>5. /\ n \in Nat \ {0} /\ Last(stack) = stack[n]
      /\ f \in Seq(Procedure) /\ Len(f) = n - 1 /\ \A i \in 1 .. n - 1 : f[i] = stack[i]
  BY <1>1, <1>2, <1>3, InnermostProcedure
<1>6. PICK S : S = Procedure \cup {fr, callee}
  OBVIOUS
<1>7. f \in Seq(S) /\ fr \in S /\ callee \in S
  BY <1>5, <1>6
<1>8. /\ Len(stack') = n + 1 /\ stack'[n + 1] = callee /\ stack'[n] = fr
      /\ \A i \in 1 .. n - 1 : stack'[i] = stack[i]
  BY <1>4, <1>5, <1>7
<1>9. fr.pc = pc /\ fr.proc = stack[n].proc /\ callee.proc = proc /\ callee.pc = "enter"
  BY <1>3, <1>5 DEF Activation
<1>10. ASSUME NEW i \in 1 .. n
       PROVE  stack'[i].pc = "loop" \/ (stack'[i].pc \in {"close", "end"} /\ stack'[i + 1].proc = "E")
  <2>1. CASE i = n
    BY <1>8, <1>9, <2>1
  <2>2. CASE i < n
    <3>1. /\ stack[i].pc = "loop" \/ (stack[i].pc \in {"close", "end"} /\ stack[i + 1].proc = "E")
          /\ i + 1 \in 1 .. n
      BY <1>3, <1>5, <1>8, <2>2 DEF Enclosed
    <3>. QED
      BY <1>5, <1>8, <1>9, <2>2, <3>1
  <2>. QED
    BY <1>5, <2>1, <2>2
<1>11. Last(stack').pc = "enter"
  BY <1>8, <1>9 DEF Last
<1>. QED
  BY <1>5, <1>8, <1>10, <1>11 DEF Enclosed

LEMMA GotoEncloses ==
  ASSUME ParserInv, Enclosed, status = "parsing", NEW fr, stack' = Append(Front(stack), fr),
         fr.proc = "E" <=> Last(stack).proc = "E",
         fr.pc \in {"close", "closed", "end"} => Last(operators').value = "sentinel"
  PROVE  Enclosed'
<1>1. ParserTypes /\ ParseOutermost
  BY DEF ParserInv
<1>2. PICK n, f : n = Len(stack) /\ f = Front(stack)
  OBVIOUS
<1>3. /\ n \in Nat \ {0} /\ Last(stack) = stack[n]
      /\ f \in Seq(Procedure) /\ Len(f) = n - 1 /\ \A i \in 1 .. n - 1 : f[i] = stack[i]
  BY <1>1, <1>2, InnermostProcedure
<1>4. PICK S : S = Procedure \cup {fr}
  OBVIOUS
<1>5. f \in Seq(S) /\ fr \in S
  BY <1>3, <1>4
<1>6. Len(stack') = n /\ stack'[n] = fr /\ \A i \in 1 .. n - 1 : stack'[i] = stack[i]
  BY <1>2, <1>3, <1>5
<1>7. ASSUME NEW i \in 1 .. n - 1
      PROVE  stack'[i].pc = "loop" \/ (stack'[i].pc \in {"close", "end"} /\ stack'[i + 1].proc = "E")
  <2>1. /\ stack[i].pc = "loop" \/ (stack[i].pc \in {"close", "end"} /\ stack[i + 1].proc = "E")
        /\ i + 1 \in 1 .. n
    BY <1>2, <1>3, <1>6 DEF Enclosed
  <2>. QED
    BY <1>3, <1>6, <2>1
<1>8. Last(stack') = fr
  BY <1>6 DEF Last
<1>. QED
  BY <1>6, <1>7, <1>8 DEF Enclosed

LEMMA ReturnEncloses ==
  ASSUME ParserInv, Enclosed, status = "parsing", Return, Last(stack).proc # "parse",
         Last(stack).proc = "E" => Last(operators').value = "sentinel"
  PROVE  Enclosed'
<1>1. ParserTypes /\ ParseOutermost
  BY DEF ParserInv
<1>2. PICK n : n = Len(stack) /\ stack' = Front(stack)
  BY DEF Return
<1>3. /\ n \in Nat \ {0} /\ Last(stack) = stack[n] /\ n # 1
      /\ Len(stack') = n - 1 /\ \A i \in 1 .. n - 1 : stack'[i] = stack[i]
  BY <1>1, <1>2, InnermostProcedure
<1>4. n > 1
  BY <1>3
<1>5. ASSUME NEW i \in 1 .. n - 2
      PROVE  stack'[i].pc = "loop" \/ (stack'[i].pc \in {"close", "end"} /\ stack'[i + 1].proc = "E")
  <2>1. i \in 1 .. n - 1 /\ i + 1 \in 1 .. n - 1
    BY <1>3
  <2>2. stack[i].pc = "loop" \/ (stack[i].pc \in {"close", "end"} /\ stack[i + 1].proc = "E")
    BY <1>2, <1>3, <2>1 DEF Enclosed
  <2>. QED
    BY <1>3, <2>1, <2>2
<1>6. Last(stack') = stack[n - 1]
  BY <1>3, <1>4 DEF Last
<1>7. ASSUME Last(stack').pc \in {"close", "closed", "end"}
      PROVE  Last(operators').value = "sentinel"
  <2>1. n - 1 \in 1 .. n - 1 /\ (n - 1) + 1 = n
    BY <1>3, <1>4
  <2>2. stack[n - 1].pc \in {"close", "closed", "end"}
    BY <1>6, <1>7
  <2>3. stack[n].proc = "E"
    BY <1>2, <2>1, <2>2 DEF Enclosed
  <2>. QED
    BY <1>3, <2>3
<1>8. 1 .. Len(stack') - 1 = 1 .. n - 2
  BY <1>3
<1>. QED
  BY <1>5, <1>7, <1>8 DEF Enclosed

LEMMA EnclosedIsKept ==
  ASSUME ParserInv, Enclosed, [Next]_vars
  PROVE  Enclosed'
<1>1. ParserTypes /\ ParseOutermost
  BY DEF ParserInv
<1>2. CASE parse
  BY <1>2 DEF parse, Enclosed, Activation, Last
<1>3. CASE ParseReturns \/ Throw \/ popOperatorUndefined
  BY <1>3 DEF ParseReturns, Throw, popOperatorUndefined, Enclosed
<1>4. CASE UNCHANGED vars
  BY <1>4 DEF vars, Enclosed
<1>5. CASE popOperator
  <2>1. Popping /\ (Pushing \/ Draining) /\ UNCHANGED <<stack, status>>
    BY <1>5 DEF popOperator, Popping
  <2>2. Last(stack).pc \notin {"close", "closed", "end"}
    BY <2>1 DEF Pushing, Draining, At
  <2>. QED
    BY <2>1, <2>2 DEF Enclosed
<1>6. CASE pushOperator
  <2>1. Pushing /\ UNCHANGED status
    BY <1>6 DEF pushOperator
  <2>2. Last(stack).pc \notin {"close", "closed", "end"}
    BY <2>1 DEF Pushing, At
  <2>3. CASE UNCHANGED stack
    BY <2>1, <2>2, <2>3 DEF Enclosed
  <2>4. ASSUME NEW proc \in {"E", "LogicEXP"}, Last(stack).proc = proc,
               NEW callee, Call("loop", callee)
        PROVE  Enclosed'
    <3>1. At({proc}, "loop")
      BY <2>1, <2>4 DEF Pushing, At
    <3>. QED
      BY <2>4, <3>1, CallEncloses
  <2>. QED
    BY <1>6, <2>3, <2>4 DEF pushOperator
<1>7. CASE ParseExpression \/ EnterE \/ EnterLogicEXP \/ EnterParenthesis
  BY <1>7, CallEncloses DEF ParseExpression, EnterE, EnterLogicEXP, EnterParenthesis
<1>8. CASE CloseLogicEXP
  <2>1. At({"LogicEXP"}, "loop") /\ Goto("drain")
    BY <1>8 DEF CloseLogicEXP
  <2>2. PICK fr : fr = [proc |-> Last(stack).proc, pc |-> "drain"]
    OBVIOUS
  <2>3. stack' = Append(Front(stack), fr)
    BY <1>1, <2>1, <2>2, Continued
  <2>4. status = "parsing" /\ fr.proc = Last(stack).proc /\ fr.pc = "drain"
    BY <2>1, <2>2 DEF At
  <2>. QED
    BY <2>3, <2>4, GotoEncloses
<1>9. CASE OpenParenthesis
  <2>1. At({"P", "LP"}, "enter") /\ Goto("open")
    BY <1>9 DEF OpenParenthesis
  <2>2. PICK fr : fr = [proc |-> Last(stack).proc, pc |-> "open"]
    OBVIOUS
  <2>3. stack' = Append(Front(stack), fr)
    BY <1>1, <2>1, <2>2, Continued
  <2>4. status = "parsing" /\ fr.proc = Last(stack).proc /\ fr.pc = "open"
    BY <2>1, <2>2 DEF At
  <2>. QED
    BY <2>3, <2>4, GotoEncloses
<1>10. CASE CloseParenthesis
  <2>1. At({"P", "LP"}, "close") /\ Goto("closed") /\ UNCHANGED operators
    BY <1>10 DEF CloseParenthesis
  <2>2. PICK fr : fr = [proc |-> Last(stack).proc, pc |-> "closed"]
    OBVIOUS
  <2>3. stack' = Append(Front(stack), fr)
    BY <1>1, <2>1, <2>2, Continued
  <2>4. status = "parsing" /\ Last(stack).pc = "close" /\ fr.proc = Last(stack).proc
    BY <2>1, <2>2 DEF At
  <2>5. Last(operators').value = "sentinel"
    BY <2>1, <2>4 DEF Enclosed
  <2>. QED
    BY <2>3, <2>4, <2>5, GotoEncloses
<1>11. CASE NestedLogicEXP
  <2>1. At({"P", "LP"}, "enter") /\ TailCall("LogicEXP")
    BY <1>11 DEF NestedLogicEXP
  <2>2. PICK fr : fr = Activation("LogicEXP")
    OBVIOUS
  <2>3. stack' = Append(Front(stack), fr)
    BY <2>1, <2>2 DEF TailCall
  <2>4. /\ status = "parsing" /\ Last(stack).proc \in {"P", "LP"}
        /\ fr.proc = "LogicEXP" /\ fr.pc = "enter"
    BY <2>1, <2>2 DEF At, Activation
  <2>. QED
    BY <2>3, <2>4, GotoEncloses
<1>12. CASE LeaveE
  <2>1. Last(stack).proc = "E" /\ Return /\ status = "parsing" /\ Last(operators').value = "sentinel"
    BY <1>12 DEF LeaveE, Draining, At
  <2>. QED
    BY <2>1, ReturnEncloses
<1>13. CASE LeaveLogicEXP \/ ReadOperand \/ LeaveParenthesis
  <2>1. Last(stack).proc \in {"LogicEXP", "P", "LP"} /\ Return /\ status = "parsing"
    BY <1>13 DEF LeaveLogicEXP, ReadOperand, LeaveParenthesis, Draining, At
  <2>. QED
    BY <2>1, ReturnEncloses
<1>. QED
  BY <1>2, <1>3, <1>4, <1>5, <1>6, <1>7, <1>8, <1>9, <1>10, <1>11, <1>12, <1>13 DEF Next, Step

(* A procedure returns to one that has seen an operand. *)
LEMMA ReturnsTo ==
  ASSUME ParserInv, Enclosed, status = "parsing", Return, Last(stack).proc # "parse"
  PROVE  Last(stack').pc \in {"loop", "close", "end"}
<1>1. ParserTypes /\ ParseOutermost
  BY DEF ParserInv
<1>2. PICK n : n = Len(stack) /\ stack' = Front(stack)
  BY DEF Return
<1>3. /\ n \in Nat \ {0} /\ n # 1
      /\ Len(stack') = n - 1 /\ \A i \in 1 .. n - 1 : stack'[i] = stack[i]
  BY <1>1, <1>2, InnermostProcedure
<1>4. n - 1 \in 1 .. n - 1
  BY <1>3
<1>5. Last(stack') = stack[n - 1]
  BY <1>3, <1>4 DEF Last
<1>. QED
  BY <1>2, <1>4, <1>5 DEF Enclosed

----------------------------------------------------------------------------
(* The operands of the operators. *)

Binaries == {op \in OperatorToken : IsBinary(op)}

AfterOperand == status = "parsing" /\ Last(stack).pc \notin {"enter", "open"}

(* There is an operand for every binary operator, and one more where an    *)
(* operand has been read; operators and operands that former calls have    *)
(* left are counted like the others.                                       *)
OperandCount ==
  Len(operands) >= Count(operators, Binaries) + (IF AfterOperand THEN 1 ELSE 0)

LEMMA BinariesTyped ==
  ASSUME ParserInv
  PROVE  Count(operators, Binaries) \in Nat /\ Len(operands) \in Nat
BY CountType DEF ParserInv, ParserTypes, OperandRead

(* No more operators, and the same operands. *)
LEMMA OperandCountStays ==
  ASSUME ParserInv, OperandCount, UNCHANGED operands, AfterOperand' => AfterOperand,
         Count(operators', Binaries) \in Nat,
         Count(operators', Binaries) <= Count(operators, Binaries)
  PROVE  OperandCount'
BY BinariesTyped DEF OperandCount

LEMMA CountOfPush ==
  ASSUME ParserInv, NEW op \in OperatorToken
  PROVE  Count(Append(operators, op), Binaries)
           = Count(operators, Binaries) + (IF IsBinary(op) THEN 1 ELSE 0)
<1>1. operators \in Seq(OperatorToken)
  BY DEF ParserInv, ParserTypes
<1>2. One(op, Binaries) = IF IsBinary(op) THEN 1 ELSE 0
  BY DEF One, Binaries
<1>. QED
  BY <1>1, <1>2, CountAppend

LEMMA CountOfPop ==
  ASSUME ParserInv, operators # <<>>
  PROVE  /\ Count(Front(operators), Binaries) \in Nat
         /\ Count(operators, Binaries)
              = Count(Front(operators), Binaries) + (IF IsBinary(Last(operators)) THEN 1 ELSE 0)
<1>1. operators \in Seq(OperatorToken)
  BY DEF ParserInv, ParserTypes
<1>2. Last(operators) \in OperatorToken /\ Front(operators) \in Seq(OperatorToken)
  BY <1>1, TopOfStack
<1>3. One(Last(operators), Binaries) = IF IsBinary(Last(operators)) THEN 1 ELSE 0
  BY <1>2 DEF One, Binaries
<1>. QED
  BY <1>1, <1>2, <1>3, CountFront, CountType

LEMMA CallsBefore ==
  ASSUME ParserInv, NEW procs, NEW old, At(procs, old), NEW pc, NEW proc, Call(pc, proc)
  PROVE  Last(stack') = [proc |-> proc, pc |-> "enter"] /\ ~ AfterOperand'
<1>1. PICK s, e : s = [stack EXCEPT ![Len(stack)].pc = pc] /\ e = [proc |-> proc, pc |-> "enter"]
  OBVIOUS
<1>2. PICK fr : fr = [proc |-> Last(stack).proc, pc |-> pc]
  OBVIOUS
<1>3. stack' = Append(s, e) /\ s = Append(Front(stack), fr)
  BY <1>1, <1>2, GotoIs DEF Call, Activation, ParserInv, At
<1>4. Front(stack) \in Seq(Procedure)
  BY InnermostProcedure DEF ParserInv, At
<1>5. PICK S : S = Procedure \cup {fr, e}
  OBVIOUS
<1>6. Front(stack) \in Seq(S) /\ fr \in S /\ e \in S
  BY <1>4, <1>5
<1>7. s \in Seq(S)
  BY <1>3, <1>6
<1>8. Last(stack') = e
  BY <1>3, <1>6, <1>7 DEF Last
<1>. QED
  BY <1>1, <1>8 DEF AfterOperand

LEMMA OperandCountIsKept ==
  ASSUME ParserInv, ParserInv', Enclosed, OperandCount, [Next]_vars
  PROVE  OperandCount'
<1>1. ParserTypes /\ ParseOutermost
  BY DEF ParserInv
<1>2. Count(operators, Binaries) \in Nat /\ Len(operands) \in Nat
  BY BinariesTyped
<1>3. Count(operators', Binaries) \in Nat
  <2>1. operators' \in Seq(OperatorToken)
    BY DEF ParserInv, ParserTypes
  <2>. QED
    BY <2>1, CountType
<1>4. ASSUME UNCHANGED <<operators, operands>>, AfterOperand' => AfterOperand
      PROVE  OperandCount'
  BY <1>2, <1>4, OperandCountStays
<1>5. ASSUME operators' = Append(operators, Sentinel), UNCHANGED operands, ~ AfterOperand'
      PROVE  OperandCount'
  <2>1. Sentinel \in OperatorToken /\ ~ IsBinary(Sentinel)
    BY Precedences
       DEF Sentinel, OpToken, OperatorToken, IsBinary, BinaryOperator, LogicalBinaryOperator
  <2>2. Count(operators', Binaries) = Count(operators, Binaries)
    BY <1>2, <1>5, <2>1, CountOfPush
  <2>. QED
    BY <1>2, <1>5, <2>2, OperandCountStays
<1>6. CASE parse
  <2>1. ~ AfterOperand'
    BY <1>6 DEF parse, AfterOperand, Activation, Last
  <2>. QED
    BY <1>4, <1>6, <2>1 DEF parse
<1>7. CASE ParseReturns \/ Throw \/ popOperatorUndefined
  <2>1. ~ AfterOperand'
    BY <1>7 DEF ParseReturns, Throw, popOperatorUndefined, AfterOperand
  <2>. QED
    BY <1>4, <1>7, <2>1 DEF ParseReturns, Throw, popOperatorUndefined
<1>8. CASE UNCHANGED vars
  BY <1>4, <1>8 DEF vars, AfterOperand
<1>9. CASE popOperator
  <2>1. /\ operators # <<>> /\ operators' = Front(operators)
        /\ Len(operands) - Arity(Last(operators)) >= 0 /\ UNCHANGED <<stack, status>>
    BY <1>9, AtLoop DEF popOperator, Popping
  <2>2. PICK n, S, e : /\ n = Len(operands) - Arity(Last(operators))
                       /\ operands' = Append(SubSeq(operands, 1, n), e)
                       /\ S = {operands[i] : i \in 1 .. Len(operands)} \cup {e}
    BY <1>9 DEF popOperator
  <2>3. n \in Nat /\ \A i \in 1 .. n : operands[i] \in S
    BY <1>2, <2>1, <2>2 DEF Arity
  <2>4. SubSeq(operands, 1, n) \in Seq(S) /\ Len(SubSeq(operands, 1, n)) = IF 1 <= n THEN n - 1 + 1 ELSE 0
    BY <2>3, SubSeqProperties, 1 \in Int, n \in Int
  <2>5. Len(operands') = n + 1
    BY <2>2, <2>3, <2>4
  <2>6. AfterOperand' <=> AfterOperand
    BY <2>1 DEF AfterOperand
  <2>7. Count(operators, Binaries)
          = Count(operators', Binaries) + (IF IsBinary(Last(operators)) THEN 1 ELSE 0)
    BY <2>1, CountOfPop
  <2>. QED
    BY <1>2, <1>3, <2>2, <2>5, <2>6, <2>7 DEF OperandCount, Arity
<1>10. CASE pushOperator
  <2>1. /\ Pushing /\ Pending \in OperatorToken /\ operators' = Append(operators, Pending)
        /\ UNCHANGED <<operands, status>>
    BY <1>10, PendingIs DEF pushOperator
  <2>2. Count(operators', Binaries)
          = Count(operators, Binaries) + (IF IsBinary(Pending) THEN 1 ELSE 0)
    BY <2>1, CountOfPush
  <2>3. CASE Last(stack).proc \in {"P", "LP"} /\ UNCHANGED stack
    <3>1. ~ IsBinary(Pending)
      <4>1. next \in OperatorToken
        BY <2>1, PendingIs
      <4>2. Pending.binary = FALSE
        BY <2>3, <4>1 DEF Pending, OperatorToken
      <4>. QED
        BY <4>2 DEF IsBinary
    <3>2. AfterOperand' <=> AfterOperand
      BY <2>1, <2>3 DEF AfterOperand
    <3>. QED
      BY <1>2, <2>1, <2>2, <3>1, <3>2, OperandCountStays
  <2>4. ASSUME NEW proc \in {"E", "LogicEXP"}, Last(stack).proc = proc,
               NEW callee, Call("loop", callee)
        PROVE  OperandCount'
    <3>1. At({proc}, "loop")
      BY <2>1, <2>4 DEF Pushing, At
    <3>2. ~ AfterOperand' /\ AfterOperand
      BY <2>4, <3>1, CallsBefore DEF AfterOperand, At
    <3>. QED
      BY <1>2, <2>1, <2>2, <3>2 DEF OperandCount
  <2>. QED
    BY <1>10, <2>3, <2>4 DEF pushOperator
<1>11. CASE ParseExpression \/ EnterLogicEXP \/ EnterParenthesis
  <2>1. ~ AfterOperand'
    BY <1>11, CallsBefore DEF ParseExpression, EnterLogicEXP, EnterParenthesis
  <2>. QED
    BY <1>5, <1>11, <2>1 DEF ParseExpression, EnterLogicEXP, EnterParenthesis
<1>12. CASE EnterE
  <2>1. ~ AfterOperand'
    BY <1>12, CallsBefore DEF EnterE
  <2>. QED
    BY <1>4, <1>12, <2>1 DEF EnterE
<1>13. CASE CloseLogicEXP \/ LeaveE \/ CloseParenthesis
  <2>1. AfterOperand
    BY <1>13 DEF CloseLogicEXP, LeaveE, CloseParenthesis, Draining, At, AfterOperand
  <2>. QED
    BY <1>4, <1>13, <2>1 DEF CloseLogicEXP, LeaveE, CloseParenthesis
<1>14. CASE LeaveLogicEXP \/ LeaveParenthesis
  <2>1. AfterOperand /\ status = "parsing" /\ Last(stack).proc # "parse"
    BY <1>14 DEF LeaveLogicEXP, LeaveParenthesis, Draining, At, AfterOperand
  <2>2. operators # <<>> /\ operators' = Front(operators) /\ UNCHANGED operands
    BY <1>14, <2>1, SomeSentinel DEF LeaveLogicEXP, LeaveParenthesis
  <2>3. Count(operators', Binaries) <= Count(operators, Binaries)
    BY <1>2, <1>3, <2>2, CountOfPop
  <2>. QED
    BY <1>3, <2>1, <2>2, <2>3, OperandCountStays
<1>15. CASE ReadOperand
  <2>1. UNCHANGED operators
    BY <1>15 DEF ReadOperand
  <2>2. PICK e, S : operands' = Append(operands, e) /\ S = {operands[i] : i \in 1 .. Len(operands)} \cup {e}
    BY <1>15 DEF ReadOperand
  <2>3. operands = [i \in 1 .. Len(operands) |-> operands[i]]
    BY DEF ParserInv, OperandRead
  <2>4. operands \in Seq(S) /\ e \in S
    BY <1>2, <2>2, <2>3
  <2>5. Len(operands') = Len(operands) + 1
    BY <2>2, <2>4
  <2>. QED
    BY <1>2, <2>1, <2>5 DEF OperandCount
<1>16. CASE OpenParenthesis
  <2>1. At({"P", "LP"}, "enter") /\ Goto("open") /\ UNCHANGED <<operators, operands>>
    BY <1>16 DEF OpenParenthesis
  <2>2. PICK fr : fr = [proc |-> Last(stack).proc, pc |-> "open"]
    OBVIOUS
  <2>3. stack' = Append(Front(stack), fr) /\ Last(stack).proc \in {"P", "LP"} /\ status = "parsing"
    BY <1>1, <2>1, <2>2, Continued, InnermostAt
  <2>4. fr \in Procedure /\ fr.proc = Last(stack).proc
    BY <2>2, <2>3 DEF Procedure
  <2>5. Last(stack') = fr
    BY <1>1, <2>3, <2>4, Replaced
  <2>. QED
    BY <1>4, <2>1, <2>2, <2>5 DEF AfterOperand
<1>17. CASE NestedLogicEXP
  <2>1. At({"P", "LP"}, "enter") /\ TailCall("LogicEXP") /\ UNCHANGED <<operators, operands>>
    BY <1>17 DEF NestedLogicEXP
  <2>2. PICK fr : fr = Activation("LogicEXP")
    OBVIOUS
  <2>3. stack' = Append(Front(stack), fr) /\ Last(stack).proc \in {"P", "LP"} /\ status = "parsing"
    BY <1>1, <2>1, <2>2, InnermostAt DEF TailCall
  <2>4. fr \in Procedure /\ fr.proc # "parse" /\ Last(stack).proc # "parse" /\ fr.pc = "enter"
    BY <2>2, <2>3 DEF Procedure, Activation
  <2>5. Last(stack') = fr
    BY <1>1, <2>3, <2>4, Replaced
  <2>. QED
    BY <1>4, <2>1, <2>4, <2>5 DEF AfterOperand
<1>. QED
  BY <1>6, <1>7, <1>8, <1>9, <1>10, <1>11, <1>12, <1>13, <1>14, <1>15, <1>16, <1>17 DEF Next, Step

----------------------------------------------------------------------------
(* What has been read. *)

AtEnter(procs) == status = "parsing" /\ Last(stack).proc \in procs /\ Last(stack).pc = "enter"

BeforeOperand == status = "parsing" /\ Last(stack).pc \in {"enter", "open"}

(* next is the last token that was read; where an operand is expected, the *)
(* one before next is neither an operand nor a closing bracket.            *)
History ==
  /\ read \in Seq(InputTokens)
  /\ status = "parsing" /\ next.type # "END" => read # <<>> /\ read[Len(read)] = next
  /\ BeforeOperand /\ next.type # "END" /\ Len(read) > 1
       => read[Len(read) - 1].type \notin Operand \cup Closing
  /\ AtEnter({"LogicEXP"}) => next.type = "LSQRBRACK"

(* Where P or LP begins, the operator on top is a sentinel, a binary one,  *)
(* or a unary one that the same procedure has just pushed.                 *)
TopBefore ==
  /\ AtEnter({"E"}) => Last(operators).value = "sentinel"
  /\ AtEnter({"P", "LP"}) =>
       \/ MinusBeforeAbs
       \/ Last(operators).value = "sentinel"
       \/ IsBinary(Last(operators))
       \/ Last(stack).proc = "LP" /\ Last(operators).value = "!"
       \/ Last(stack).proc = "P" /\ Last(operators).value = "abs" /\ next.type = "LPAREN"
       \/ Last(stack).proc = "P" /\ Last(operators).value = "-" /\ next.value # "abs"

LEMMA TokenTypes ==
  ASSUME NEW t \in InputTokens \cup {NoTerm}
  PROVE  /\ t.type = "END" <=> t = NoTerm
         /\ t.type = "END" => t.value = ""
         /\ t.type # "END" => t \in InputTokens
         /\ t.value \in DOMAIN Precedence => t.type = "OP" /\ t.binary = TRUE
<1>1. NoTerm.type = "END" /\ NoTerm.value = ""
  BY DEF NoTerm, Token
<1>2. CASE t = NoTerm
  BY <1>1, <1>2, Precedences
     DEF BinaryOperator, UnaryOperator, LogicalBinaryOperator, LogicalUnaryOperator
<1>3. ASSUME NEW type \in {"VAR", "LPAREN", "RPAREN", "LSQRBRACK", "RSQRBRACK", "INVALID"},
             t = Token(type)
      PROVE  t.type = type /\ t.value = ""
  BY <1>3 DEF Token
<1>4. ASSUME NEW name \in Operators, t = OpToken(name)
      PROVE  t.type = "OP" /\ t.binary = TRUE
  BY <1>4 DEF OpToken
<1>5. "" \notin DOMAIN Precedence
  BY Precedences DEF BinaryOperator, UnaryOperator, LogicalBinaryOperator, LogicalUnaryOperator
<1>6. CASE t \in InputTokens
  <2>1. \/ \E type \in {"VAR", "LPAREN", "RPAREN", "LSQRBRACK", "RSQRBRACK", "INVALID"} :
              t = Token(type)
        \/ \E name \in Operators : t = OpToken(name)
    BY <1>6 DEF InputTokens
  <2>2. t.type # "END"
    BY <1>3, <1>4, <2>1
  <2>3. t.value \in DOMAIN Precedence => t.type = "OP" /\ t.binary = TRUE
    BY <1>3, <1>4, <1>5, <2>1
  <2>. QED
    BY <1>1, <1>6, <2>2, <2>3
<1>. QED
  BY <1>2, <1>6

(* Reading a token. *)
LEMMA Consumed ==
  ASSUME ParserInv, History, consume
  PROVE  /\ next' \in InputTokens \cup {NoTerm}
         /\ read' \in Seq(InputTokens)
         /\ next'.type # "END" => /\ read' = Append(read, next')
                                 /\ Len(read') = Len(read) + 1 /\ read'[Len(read')] = next'
                                 /\ \A i \in 1 .. Len(read) : read'[i] = read[i]
         /\ next'.type = "END" => read' = read
         /\ next.value = "abs" => next'.type = "LPAREN"
         /\ Len(read) \in Nat
<1>1. PICK t \in Following(next, Len(read)) : Lex(t, read)
  BY DEF consume
<1>2. t \in InputTokens \cup {NoTerm} /\ next' = t
  BY <1>1, Lexed DEF consume, ParserInv, Lex
<1>3. t.type # "END" => t \in InputTokens
  BY <1>2, TokenTypes
<1>4. next.value = "abs" => next.type # "END"
  BY TokenTypes DEF ParserInv, ParserTypes
<1>5. next.value = "abs" => t.type = "LPAREN"
  <2>1. ASSUME next.value = "abs"
        PROVE  t.type = "LPAREN"
    <3>1. Following(next, Len(read)) = {Token("LPAREN")}
      BY <1>4, <2>1 DEF Following
    <3>2. t = Token("LPAREN")
      BY <1>1, <3>1
    <3>. QED
      BY <3>2 DEF Token
  <2>. QED
    BY <2>1
<1>6. read' = IF t.type = "END" THEN read ELSE Append(read, t)
  BY <1>1 DEF Lex
<1>7. read \in Seq(InputTokens)
  BY DEF History
<1>. QED
  BY <1>2, <1>3, <1>5, <1>6, <1>7

LEMMA MinusStays ==
  ASSUME ParserInv, History, MinusBeforeAbs, consume \/ UNCHANGED read
  PROVE  MinusBeforeAbs'
<1>1. CASE UNCHANGED read
  BY <1>1 DEF MinusBeforeAbs, IsUnaryAt
<1>2. CASE consume
  <2>1. PICK k \in 1 .. Len(read) - 1 :
          read[k].value = "-" /\ IsUnaryAt(read, k) /\ read[k + 1].value = "abs"
    BY DEF MinusBeforeAbs
  <2>2. Len(read) \in Nat /\ Len(read') \in Nat /\ Len(read') >= Len(read)
        /\ \A i \in 1 .. Len(read) : read'[i] = read[i]
    BY <1>2, Consumed
  <2>3. k \in 1 .. Len(read) /\ k + 1 \in 1 .. Len(read) /\ (k = 1 \/ k - 1 \in 1 .. Len(read))
        /\ k \in 1 .. Len(read') - 1
    BY <2>1, <2>2
  <2>4. IsUnaryAt(read', k)
    BY <2>1, <2>2, <2>3 DEF IsUnaryAt
  <2>. QED
    BY <2>1, <2>2, <2>3, <2>4 DEF MinusBeforeAbs
<1>. QED
  BY <1>1, <1>2

(* What is popped before an operand is a minus in front of abs. *)
LEMMA PopsBeforeOperand ==
  ASSUME ParserInv, TopBefore, Pushing, AtEnter({"P", "LP"}),
         hasHigherPrecedence(Last(operators), Pending)
  PROVE  MinusBeforeAbs
<1>1. PICK top : top = Last(operators)
  OBVIOUS
<1>2. top \in OperatorToken
  <2>1. operators # <<>> /\ operators \in Seq(OperatorToken)
    BY AtLoop DEF ParserInv, ParserTypes
  <2>. QED
    BY <1>1, <2>1, TopOfStack
<1>3. /\ Pending.binary = FALSE /\ Pending.value = next.value
      /\ Last(stack).proc = "P" => next.value \in UnaryOperator
      /\ Last(stack).proc = "LP" => next.value \in LogicalUnaryOperator
      /\ next.type = "OP"
  <2>1. next \in OperatorToken
    BY PendingIs
  <2>2. Last(stack).proc \in {"P", "LP"} /\ Last(stack).pc = "enter"
    BY DEF AtEnter
  <2>. QED
    BY <2>1, <2>2 DEF Pending, OperatorToken, Pushing, At
<1>4. /\ next.value # "-"
      /\ \/ top.value = "-" /\ ~ top.binary
         \/ Precedence[top.value] > Precedence[next.value]
  BY <1>1, <1>3 DEF hasHigherPrecedence
<1>5. /\ Precedence["abs"] = 13 /\ Precedence["!"] = 12 /\ Precedence["sentinel"] = 0
      /\ \A op \in BinaryOperator \cup LogicalBinaryOperator : Precedence[op] \in 0 .. 11
  BY DEF Precedence, BinaryOperator, UnaryOperator, LogicalBinaryOperator, LogicalUnaryOperator
<1>6. Precedence[next.value] \in {12, 13}
  BY <1>3, <1>4, <1>5 DEF UnaryOperator, LogicalUnaryOperator, AtEnter
<1>7. top.value # "sentinel" /\ ~ IsBinary(top)
  BY <1>4, <1>5, <1>6 DEF IsBinary
<1>8. CASE Last(stack).proc = "LP"
  BY <1>1, <1>3, <1>4, <1>5, <1>7, <1>8 DEF TopBefore, LogicalUnaryOperator
<1>9. CASE Last(stack).proc = "P"
  BY <1>1, <1>3, <1>4, <1>7, <1>9 DEF TopBefore, UnaryOperator
<1>. QED
  BY <1>8, <1>9 DEF AtEnter

(* An operator that is popped has its operands, or is such a minus.        *)
LEMMA PoppedHasOperands ==
  ASSUME ParserInv, OperandCount, TopBefore, Popping, Len(operands) < Arity(Last(operators))
  PROVE  MinusBeforeAbs
<1>1. PICK top : top = Last(operators)
  OBVIOUS
<1>2. operators # <<>> /\ operators \in Seq(OperatorToken)
  BY AtLoop DEF Popping, ParserInv, ParserTypes
<1>3. Count(operators, Binaries) \in Nat /\ Len(operands) \in Nat
  BY BinariesTyped
<1>4. Arity(top) = IF IsBinary(top) THEN 2 ELSE 1
  BY DEF Arity
<1>5. IsBinary(top) => Count(operators, Binaries) >= 1
  BY <1>1, <1>2, CountOfPop
<1>6. ~ AfterOperand
  BY <1>1, <1>3, <1>4, <1>5 DEF OperandCount
<1>7. Pushing /\ AtEnter({"P", "LP"}) /\ hasHigherPrecedence(Last(operators), Pending)
  BY <1>6 DEF Popping, Pushing, Draining, At, AtEnter, AfterOperand
<1>. QED
  BY <1>7, PopsBeforeOperand

(* Where the stack of activations is left alone or goes on without a token *)
(* being read.                                                             *)
LEMMA HistoryStays ==
  ASSUME History, UNCHANGED <<next, read>>,
         status' = "parsing" => status = "parsing",
         BeforeOperand' => BeforeOperand,
         AtEnter({"LogicEXP"})' => next.type = "LSQRBRACK"
  PROVE  History'
BY DEF History

LEMMA TopStays ==
  ASSUME ParserInv, TopBefore, UNCHANGED <<operators, next, read, status>>,
         Last(stack').pc = "enter" => Last(stack') = Last(stack)
  PROVE  TopBefore'
BY DEF TopBefore, AtEnter, MinusBeforeAbs, IsUnaryAt

(* After a token has been read. *)
LEMMA HistoryAfterToken ==
  ASSUME ParserInv, History, status = "parsing", consume,
         BeforeOperand' => next.type \notin Operand \cup Closing \cup {"END"},
         ~ AtEnter({"LogicEXP"})'
  PROVE  History'
<1>1. read' \in Seq(InputTokens)
  BY Consumed
<1>2. ASSUME status' = "parsing", next'.type # "END"
      PROVE  read' # <<>> /\ read'[Len(read')] = next'
  <2>1. Len(read') = Len(read) + 1 /\ Len(read) \in Nat /\ read'[Len(read')] = next'
    BY <1>2, Consumed
  <2>. QED
    BY <2>1, <1>1, EmptySeq
<1>3. ASSUME BeforeOperand', next'.type # "END", Len(read') > 1
      PROVE  read'[Len(read') - 1].type \notin Operand \cup Closing
  <2>1. /\ Len(read') = Len(read) + 1 /\ Len(read) \in Nat
        /\ \A i \in 1 .. Len(read) : read'[i] = read[i]
    BY <1>3, Consumed
  <2>2. Len(read) \in 1 .. Len(read) /\ Len(read') - 1 = Len(read)
    BY <1>3, <2>1
  <2>3. read[Len(read)] = next
    BY <1>3 DEF History
  <2>. QED
    BY <1>3, <2>1, <2>2, <2>3
<1>. QED
  BY <1>1, <1>2, <1>3 DEF History

(* The unary minus that has just been pushed, if abs follows. *)
LEMMA MinusPushed ==
  ASSUME ParserInv, History, AtEnter({"P", "LP"}), next.value = "-", consume, next'.value = "abs"
  PROVE  MinusBeforeAbs'
<1>1. next \in InputTokens \cup {NoTerm} /\ next' \in InputTokens \cup {NoTerm}
  BY Consumed DEF ParserInv, ParserTypes
<1>2. "-" \in DOMAIN Precedence /\ "abs" \in DOMAIN Precedence
  BY Precedences DEF BinaryOperator, UnaryOperator
<1>3. next.type = "OP" /\ next'.type = "OP"
  BY <1>1, <1>2, TokenTypes
<1>4. status = "parsing" /\ BeforeOperand
  BY DEF AtEnter, BeforeOperand
<1>5. read # <<>> /\ read[Len(read)] = next /\ read \in Seq(InputTokens)
  BY <1>3, <1>4 DEF History
<1>6. /\ Len(read') = Len(read) + 1 /\ read'[Len(read')] = next'
      /\ \A i \in 1 .. Len(read) : read'[i] = read[i]
  BY <1>3, Consumed
<1>7. PICK k : k = Len(read) /\ k \in Nat \ {0}
  BY <1>5, TopOfStack
<1>8. k = 1 \/ read[k - 1].type \notin Operand \cup Closing
  BY <1>3, <1>4, <1>7 DEF History
<1>9. k \in 1 .. Len(read) /\ (k = 1 \/ k - 1 \in 1 .. Len(read))
  BY <1>7
<1>10. read'[k].value = "-" /\ IsUnaryAt(read', k)
  BY <1>3, <1>5, <1>6, <1>7, <1>8, <1>9 DEF IsUnaryAt
<1>11. k \in 1 .. Len(read') - 1 /\ read'[k + 1].value = "abs"
  BY <1>6, <1>7
<1>. QED
  BY <1>10, <1>11 DEF MinusBeforeAbs

InputInv == ParserInv /\ Enclosed /\ OperandCount /\ History /\ TopBefore /\ OperandsSuffice

LEMMA PushKeepsInput ==
  ASSUME InputInv, ParserInv', pushOperator
  PROVE  History' /\ TopBefore'
<1>1. ParserInv /\ History /\ TopBefore
  BY DEF InputInv
<1>2. /\ Pushing /\ consume /\ UNCHANGED status
      /\ operators' = Append(operators, Pending)
  BY DEF pushOperator
<1>3. status = "parsing" /\ next \in OperatorToken /\ Pending \in OperatorToken
  BY <1>1, <1>2, AtLoop, PendingIs
<1>4. next.type = "OP" /\ next.binary = TRUE
  BY <1>1, <1>3, TokenTypes DEF OperatorToken, ParserInv, ParserTypes
<1>5. Last(operators') = Pending
  <2>1. operators \in Seq(OperatorToken)
    BY <1>1 DEF ParserInv, ParserTypes
  <2>. QED
    BY <1>2, <1>3, <2>1 DEF Last
<1>6. ASSUME NEW proc \in {"E", "LogicEXP"}, Last(stack).proc = proc,
             NEW callee \in {"P", "LP"}, Call("loop", callee)
      PROVE  ~ AtEnter({"LogicEXP"})' /\ TopBefore'
  <2>1. At({proc}, "loop")
    BY <1>2, <1>6 DEF Pushing, At
  <2>2. Last(stack') = [proc |-> callee, pc |-> "enter"]
    BY <1>1, <1>6, <2>1, CallsBefore
  <2>3. Pending = next /\ next.value \in BinaryOperator \cup LogicalBinaryOperator
    BY <1>2, <1>6, <2>1 DEF Pending, Pushing, At
  <2>4. IsBinary(Last(operators'))
    BY <1>4, <1>5, <2>3 DEF IsBinary
  <2>. QED
    BY <2>2, <2>4 DEF TopBefore, AtEnter
<1>7. ASSUME Last(stack).proc \in {"P", "LP"}, UNCHANGED stack
      PROVE  ~ AtEnter({"LogicEXP"})' /\ TopBefore'
  <2>1. /\ AtEnter({"P", "LP"})
        /\ Last(stack).proc = "P" => next.value \in UnaryOperator
        /\ Last(stack).proc = "LP" => next.value \in LogicalUnaryOperator
    BY <1>2, <1>7 DEF AtEnter, Pushing, At
  <2>2. Pending.value = next.value
    BY <1>3, <1>7 DEF Pending, OperatorToken
  <2>3. CASE Last(stack).proc = "LP"
    BY <1>5, <1>7, <2>1, <2>2, <2>3 DEF TopBefore, AtEnter, LogicalUnaryOperator
  <2>4. CASE Last(stack).proc = "P" /\ next.value = "abs"
    <3>1. next'.type = "LPAREN"
      BY <1>1, <1>2, <2>4, Consumed
    <3>. QED
      BY <1>5, <1>7, <2>2, <2>4, <3>1 DEF TopBefore, AtEnter
  <2>5. CASE Last(stack).proc = "P" /\ next.value = "-"
    <3>1. next'.value = "abs" => MinusBeforeAbs'
      BY <1>1, <1>2, <2>1, <2>5, MinusPushed
    <3>. QED
      BY <1>5, <1>7, <2>2, <2>5, <3>1 DEF TopBefore, AtEnter
  <2>. QED
    BY <1>7, <2>1, <2>3, <2>4, <2>5 DEF UnaryOperator, AtEnter
<1>8. ~ AtEnter({"LogicEXP"})' /\ TopBefore'
  BY <1>6, <1>7 DEF pushOperator
<1>9. History'
  BY <1>1, <1>2, <1>3, <1>4, <1>8, HistoryAfterToken DEF Operand, Closing
<1>. QED
  BY <1>8, <1>9

LEMMA GoesOnAt ==
  ASSUME ParserInv, NEW procs, NEW old, At(procs, old), NEW pc, Goto(pc)
  PROVE  Last(stack') = [proc |-> Last(stack).proc, pc |-> pc]
<1>1. PICK fr : fr = [proc |-> Last(stack).proc, pc |-> pc]
  OBVIOUS
<1>2. stack' = Append(Front(stack), fr)
  BY <1>1, Continued DEF ParserInv
<1>3. Front(stack) \in Seq(Procedure)
  BY InnermostProcedure DEF ParserInv, At
<1>4. PICK S : S = Procedure \cup {fr}
  OBVIOUS
<1>5. Front(stack) \in Seq(S) /\ fr \in S
  BY <1>3, <1>4
<1>6. Last(stack') = fr
  BY <1>2, <1>5 DEF Last
<1>. QED
  BY <1>1, <1>6

LEMMA TailCallsAt ==
  ASSUME ParserInv, status = "parsing", NEW proc, TailCall(proc)
  PROVE  Last(stack') = [proc |-> proc, pc |-> "enter"]
<1>1. PICK fr : fr = [proc |-> proc, pc |-> "enter"]
  OBVIOUS
<1>2. stack' = Append(Front(stack), fr)
  BY <1>1 DEF TailCall, Activation
<1>3. Front(stack) \in Seq(Procedure)
  BY InnermostProcedure DEF ParserInv
<1>4. PICK S : S = Procedure \cup {fr}
  OBVIOUS
<1>5. Front(stack) \in Seq(S) /\ fr \in S
  BY <1>3, <1>4
<1>6. Last(stack') = fr
  BY <1>2, <1>5 DEF Last
<1>. QED
  BY <1>1, <1>6

LEMMA InputIsKept ==
  ASSUME InputInv, ParserInv', [Next]_vars
  PROVE  History' /\ TopBefore'
<1>1. ParserInv /\ Enclosed /\ History /\ TopBefore
  BY DEF InputInv
<1>2. CASE parse
  <2>1. PICK t \in InputTokens \cup {NoTerm} :
          next' = t /\ read' = IF t.type = "END" THEN <<>> ELSE Append(<<>>, t)
    BY <1>2 DEF parse, Lex, NoTerm
  <2>2. t.type # "END" => t \in InputTokens
    BY <2>1, TokenTypes
  <2>3. read' \in Seq(InputTokens) /\ (t.type # "END" => Len(read') = 1 /\ read'[1] = t /\ read' # <<>>)
    BY <2>1, <2>2
  <2>4. Last(stack') = [proc |-> "parse", pc |-> "enter"]
    BY <1>2 DEF parse, Activation, Last
  <2>5. CASE t.type = "END"
    BY <2>1, <2>3, <2>4, <2>5 DEF History, TopBefore, AtEnter
  <2>6. CASE t.type # "END"
    BY <2>1, <2>3, <2>4, <2>6 DEF History, TopBefore, AtEnter
  <2>. QED
    BY <2>5, <2>6
<1>3. CASE ParseReturns \/ Throw \/ popOperatorUndefined
  <2>1. status' # "parsing" /\ UNCHANGED read
    BY <1>3 DEF ParseReturns, Throw, popOperatorUndefined
  <2>. QED
    BY <1>1, <2>1 DEF History, TopBefore, AtEnter, BeforeOperand
<1>4. CASE UNCHANGED vars
  BY <1>1, <1>4 DEF vars, History, TopBefore, AtEnter, BeforeOperand, MinusBeforeAbs, IsUnaryAt
<1>5. CASE popOperator
  <2>1. Popping /\ UNCHANGED <<next, stack, status, read>>
    BY <1>5 DEF popOperator
  <2>2. History'
    BY <1>1, <2>1, HistoryStays DEF BeforeOperand, AtEnter, History
  <2>3. ~ AtEnter({"E"})
    BY <2>1 DEF Popping, Pushing, Draining, At, AtEnter
  <2>4. ASSUME AtEnter({"P", "LP"})
        PROVE  MinusBeforeAbs'
    <3>1. Pushing /\ hasHigherPrecedence(Last(operators), Pending)
      BY <2>1, <2>4 DEF Popping, Pushing, Draining, At, AtEnter
    <3>2. MinusBeforeAbs
      BY <1>1, <2>4, <3>1, PopsBeforeOperand
    <3>. QED
      BY <2>1, <3>2 DEF MinusBeforeAbs, IsUnaryAt
  <2>5. TopBefore'
    BY <2>1, <2>3, <2>4 DEF TopBefore, AtEnter
  <2>. QED
    BY <2>2, <2>5
<1>6. CASE pushOperator
  BY <1>6, PushKeepsInput
<1>7. ASSUME operators' = Append(operators, Sentinel)
      PROVE  Last(operators').value = "sentinel"
  <2>1. operators \in Seq(OperatorToken) /\ Sentinel \in OperatorToken /\ Sentinel.value = "sentinel"
    BY <1>1, Precedences DEF ParserInv, ParserTypes, Sentinel, OpToken, OperatorToken
  <2>. QED
    BY <1>7, <2>1 DEF Last
<1>8. CASE ParseExpression \/ EnterParenthesis
  <2>1. /\ Last(stack') = [proc |-> "E", pc |-> "enter"] /\ Last(operators').value = "sentinel"
        /\ UNCHANGED <<next, read, status>> /\ BeforeOperand
    BY <1>1, <1>7, <1>8, CallsBefore DEF ParseExpression, EnterParenthesis, BeforeOperand, At
  <2>2. History'
    BY <1>1, <2>1, HistoryStays DEF AtEnter
  <2>3. TopBefore'
    BY <2>1 DEF TopBefore, AtEnter
  <2>. QED
    BY <2>2, <2>3
<1>9. CASE EnterE
  <2>1. /\ Last(stack') = [proc |-> IF next.type = "LSQRBRACK" THEN "LogicEXP" ELSE "P", pc |-> "enter"]
        /\ UNCHANGED <<next, read, status, operators>> /\ BeforeOperand /\ AtEnter({"E"})
    <3>1. PICK proc : proc = (IF next.type = "LSQRBRACK" THEN "LogicEXP" ELSE "P") /\ Call("loop", proc)
      BY <1>9 DEF EnterE
    <3>2. At({"E"}, "enter") /\ UNCHANGED <<next, read, status, operators>>
      BY <1>9 DEF EnterE
    <3>3. Last(stack') = [proc |-> proc, pc |-> "enter"]
      BY <1>1, <3>1, <3>2, CallsBefore
    <3>. QED
      BY <3>1, <3>2, <3>3 DEF BeforeOperand, At, AtEnter
  <2>2. History'
    BY <1>1, <2>1, HistoryStays DEF AtEnter
  <2>3. TopBefore'
    BY <1>1, <2>1 DEF TopBefore, AtEnter
  <2>. QED
    BY <2>2, <2>3
<1>10. CASE EnterLogicEXP
  <2>1. /\ Last(stack') = [proc |-> "LP", pc |-> "enter"] /\ Last(operators').value = "sentinel"
        /\ consume /\ status = "parsing" /\ AtEnter({"LogicEXP"})
    BY <1>1, <1>7, <1>10, CallsBefore DEF EnterLogicEXP, At, AtEnter
  <2>2. next.type = "LSQRBRACK"
    BY <1>1, <2>1 DEF History
  <2>3. History'
    BY <1>1, <2>1, <2>2, HistoryAfterToken DEF AtEnter, Operand, Closing
  <2>4. TopBefore'
    BY <2>1 DEF TopBefore, AtEnter
  <2>. QED
    BY <2>3, <2>4
<1>11. CASE CloseLogicEXP \/ CloseParenthesis
  <2>1. Last(stack').pc \in {"drain", "closed"} /\ consume /\ status = "parsing"
    <3>1. PICK procs, old, pc : At(procs, old) /\ Goto(pc) /\ pc \in {"drain", "closed"} /\ consume
      BY <1>11 DEF CloseLogicEXP, CloseParenthesis
    <3>2. Last(stack') = [proc |-> Last(stack).proc, pc |-> pc]
      BY <1>1, <3>1, GoesOnAt
    <3>. QED
      BY <3>1, <3>2 DEF At
  <2>. QED
    BY <1>1, <2>1, HistoryAfterToken DEF TopBefore, AtEnter, BeforeOperand
<1>12. CASE OpenParenthesis
  <2>1. Last(stack').pc = "open" /\ consume /\ status = "parsing" /\ next.type = "LPAREN"
    <3>1. At({"P", "LP"}, "enter") /\ Goto("open") /\ consume /\ next.type = "LPAREN"
      BY <1>12 DEF OpenParenthesis
    <3>2. Last(stack') = [proc |-> Last(stack).proc, pc |-> "open"]
      BY <1>1, <3>1, GoesOnAt
    <3>. QED
      BY <3>1, <3>2 DEF At
  <2>. QED
    BY <1>1, <2>1, HistoryAfterToken DEF TopBefore, AtEnter, Operand, Closing
<1>13. CASE LeaveE \/ LeaveLogicEXP \/ LeaveParenthesis
  <2>1. /\ Return /\ UNCHANGED <<next, read, status>> /\ status = "parsing"
        /\ Last(stack).proc # "parse"
    BY <1>13 DEF LeaveE, LeaveLogicEXP, LeaveParenthesis, Draining, At
  <2>2. Last(stack').pc \in {"loop", "close", "end"}
    BY <1>1, <2>1, ReturnsTo
  <2>. QED
    BY <1>1, <2>1, <2>2, HistoryStays DEF TopBefore, AtEnter, BeforeOperand
<1>14. CASE ReadOperand
  <2>1. Return /\ consume /\ status = "parsing" /\ Last(stack).proc # "parse"
    BY <1>14 DEF ReadOperand, At
  <2>2. Last(stack').pc \in {"loop", "close", "end"}
    BY <1>1, <2>1, ReturnsTo
  <2>. QED
    BY <1>1, <2>1, <2>2, HistoryAfterToken DEF TopBefore, AtEnter, BeforeOperand
<1>15. CASE NestedLogicEXP
  <2>1. /\ Last(stack') = [proc |-> "LogicEXP", pc |-> "enter"] /\ next.type = "LSQRBRACK"
        /\ UNCHANGED <<next, read, status>> /\ BeforeOperand
    BY <1>1, <1>15, TailCallsAt DEF NestedLogicEXP, At, BeforeOperand
  <2>2. History'
    BY <1>1, <2>1, HistoryStays DEF AtEnter
  <2>3. TopBefore'
    BY <2>1 DEF TopBefore, AtEnter
  <2>. QED
    BY <2>2, <2>3
<1>. QED
  BY <1>2, <1>3, <1>4, <1>5, <1>6, <1>8, <1>9, <1>10, <1>11, <1>12, <1>13, <1>14, <1>15 DEF Next, Step

LEMMA InputInvIsKept ==
  ASSUME InputInv, [Next]_vars
  PROVE  InputInv'
<1>1. ParserInv' /\ Enclosed'
  BY ParserInvIsKept, EnclosedIsKept DEF InputInv
<1>2. OperandCount'
  BY <1>1, OperandCountIsKept DEF InputInv
<1>3. History' /\ TopBefore'
  BY <1>1, InputIsKept
<1>4. OperandsSuffice'
  <2>1. CASE popOperatorUndefined
    <3>1. MinusBeforeAbs /\ UNCHANGED read
      BY <2>1, PoppedHasOperands DEF InputInv, popOperatorUndefined
    <3>. QED
      BY <3>1 DEF OperandsSuffice, MinusBeforeAbs, IsUnaryAt
  <2>2. CASE UNCHANGED vars
    BY <2>2 DEF vars, InputInv, OperandsSuffice, MinusBeforeAbs, IsUnaryAt
  <2>3. CASE parse \/ ParseReturns \/ Throw
    BY <2>3 DEF parse, ParseReturns, Throw, OperandsSuffice
  <2>4. CASE popOperator \/ pushOperator \/ ParseExpression \/ EnterE \/ LeaveE \/ EnterLogicEXP
             \/ CloseLogicEXP \/ LeaveLogicEXP \/ ReadOperand \/ OpenParenthesis \/ EnterParenthesis
             \/ CloseParenthesis \/ LeaveParenthesis \/ NestedLogicEXP
    <3>1. status = "parsing" /\ UNCHANGED status
      BY <2>4 DEF popOperator, Popping, pushOperator, Pushing, ParseExpression, EnterE, LeaveE,
                  Draining, EnterLogicEXP, CloseLogicEXP, LeaveLogicEXP, ReadOperand,
                  OpenParenthesis, EnterParenthesis, CloseParenthesis, LeaveParenthesis,
                  NestedLogicEXP, At
    <3>. QED
      BY <3>1 DEF OperandsSuffice
  <2>. QED
    BY <2>1, <2>2, <2>3, <2>4 DEF Next, Step
<1>. QED
  BY <1>1, <1>2, <1>3, <1>4 DEF InputInv

LEMMA InputInvInitially ==
  ASSUME Init
  PROVE  InputInv
<1>1. ParserInv
  BY ParserInvInitially
<1>2. Enclosed /\ TopBefore /\ History /\ OperandsSuffice
  BY DEF Init, Enclosed, TopBefore, History, OperandsSuffice, AtEnter, BeforeOperand
<1>3. Count(operators, Binaries) = 0 /\ Len(operands) = 0 /\ ~ AfterOperand
  BY CountEmpty DEF Init, AfterOperand
<1>. QED
  BY <1>1, <1>2, <1>3 DEF InputInv, OperandCount

(* What the invariants say of the types, the sentinels and the tops of the *)
(* stacks.                                                                 *)
LEMMA ParserInvTyped ==
  ASSUME ParserInv, Enclosed, OperandsSuffice
  PROVE  ParserTypeOK
<1>1. stack \in Seq(Procedure) /\ operators \in Seq(OperatorToken)
  BY DEF ParserInv, ParserTypes
<1>2. DOMAIN stack = 1 .. Len(stack) /\ DOMAIN operators = 1 .. Len(operators)
  BY <1>1
<1>3. OpenSentinels = Positions(stack, Holding)
  BY <1>1, <1>2 DEF OpenSentinels, Positions, Holding
<1>4. {i \in DOMAIN operators : operators[i].value = "sentinel"} = Positions(operators, Sentinels)
  BY <1>1, <1>2 DEF Positions, Sentinels
<1>5. \A i \in DOMAIN operators : operators[i].type = "OP" /\ operators[i].value \in DOMAIN Precedence
  <2>1. \A i \in 1 .. Len(operators) : operators[i] \in OperatorToken
    BY <1>1
  <2>. QED
    BY <1>2, <2>1 DEF OperatorToken
<1>6. ASSUME At({"P", "LP"}, "closed") \/ At({"parse"}, "end")
      PROVE  Last(operators).value = "sentinel" /\ operands # <<>>
  <2>1. status = "parsing" /\ Last(stack).pc \in {"closed", "end"}
    BY <1>6 DEF At
  <2>2. Len(operands) > 0
    BY <2>1 DEF ParserInv, OperandRead
  <2>. QED
    BY <2>1, <2>2 DEF Enclosed
<1>. QED
  BY <1>3, <1>4, <1>5, <1>6
     DEF ParserInv, ParserTypes, ParseOutermost, SentinelsSuffice, Count, ParserTypeOK

LEMMA InputInvHolds == Spec => []InputInv
<1>1. Init => InputInv
  BY InputInvInitially
<1>2. InputInv /\ [Next]_vars => InputInv'
  BY InputInvIsKept
<1>. QED
  BY <1>1, <1>2, PTL DEF Spec

(* On every input, and on every parser whatever earlier calls have left on *)
(* its stacks: each open bracket has its sentinel, no loop of pops goes    *)
(* past it, closing a parenthesis removes a sentinel and no operator,      *)
(* every operator that is compared is in op_precedence, and parse returns  *)
(* an operand that exists.                                                 *)
THEOREM ParserTypeCorrect == Spec => []ParserTypeOK
<1>1. InputInv => ParserTypeOK
  BY ParserInvTyped DEF InputInv
<1>. QED
  BY <1>1, InputInvHolds, PTL

(* "Parses the string and returns an expression or throws an error"        *)
(* (parser.h) with the one exception that the code makes: for every input  *)
(* in which no unary minus stands in front of abs, parse never takes an    *)
(* operand from an empty stack, whatever earlier calls have left.          *)
THEOREM UnderflowsOnlyForMinus == Spec => [](~ MinusBeforeAbs => ParsesOrThrows)
<1>1. InputInv => (~ MinusBeforeAbs => ParsesOrThrows)
  BY DEF InputInv, OperandsSuffice, ParsesOrThrows
<1>. QED
  BY <1>1, InputInvHolds, PTL

----------------------------------------------------------------------------
(* The grammar: the recursive function in Derives, as a solution of its    *)
(* equation.                                                               *)
Spans(T) == Nonterminal \X (1 .. Len(T)) \X (0 .. Len(T))

(* What the equation says of the span p. *)
RuleAt(T, D, p) ==
  /\ p[2] <= p[3]
  /\ \/ p[1] \in {"Expression", "LPs"} /\ Parts(T, D, p[1], p[2], p[3])
     \/ p[1] = "LogicEXP" /\ Bracketed(T, D, "LPs", "LSQRBRACK", p[2], p[3])
     \/ p[1] \in {"P", "LP"} /\ Part(T, D, p[1], p[2], p[3])

Solves(T, D) == D = [p \in Spans(T) |-> RuleAt(T, D, p)]

(* The tokens of T from i to j are an x. *)
Is(T, D, x, i, j) == <<x, i, j>> \in Spans(T) /\ D[<<x, i, j>>]

LEMMA DerivesSolve ==
  ASSUME NEW T, \E D : Solves(T, D)
  PROVE  Solves(T, Derives(T))
<1> DEFINE Chosen == CHOOSE D : Solves(T, D)
<1>1. Derives(T) = Chosen
  BY Zenon DEF Derives, Solves, Spans, RuleAt
<1>2. Solves(T, Chosen)
  OBVIOUS
<1>. HIDE DEF Chosen
<1>. QED
  BY <1>1, <1>2

LEMMA SpanOf ==
  ASSUME NEW T \in Seq(InputTokens), NEW x, NEW i, NEW j
  PROVE  <<x, i, j>> \in Spans(T) <=> x \in Nonterminal /\ i \in 1 .. Len(T) /\ j \in 0 .. Len(T)
BY DEF Spans

LEMMA SolvedAt ==
  ASSUME NEW T \in Seq(InputTokens), NEW D, Solves(T, D), NEW x, NEW i, NEW j
  PROVE  Is(T, D, x, i, j) <=> /\ <<x, i, j>> \in Spans(T)
                               /\ RuleAt(T, D, <<x, i, j>>)
<1>1. D = [p \in Spans(T) |-> RuleAt(T, D, p)]
  BY DEF Solves
<1>2. ASSUME <<x, i, j>> \in Spans(T)
      PROVE  D[<<x, i, j>>] = RuleAt(T, D, <<x, i, j>>)
  BY <1>1, <1>2
<1>. QED
  BY <1>2 DEF Is

LEMMA PhraseSpan ==
  ASSUME NEW T \in Seq(InputTokens), NEW D, Solves(T, D), NEW x, NEW i, NEW j, Is(T, D, x, i, j)
  PROVE  /\ x \in Nonterminal /\ Len(T) \in Nat
         /\ i \in Nat /\ j \in Nat /\ 1 <= i /\ i <= j /\ j <= Len(T)
         /\ i \in 1 .. Len(T) /\ j \in 1 .. Len(T)
         /\ T[i] \in InputTokens /\ T[j] \in InputTokens
<1>1. <<x, i, j>> \in Spans(T) /\ RuleAt(T, D, <<x, i, j>>)
  BY SolvedAt
<1>2. x \in Nonterminal /\ i \in 1 .. Len(T) /\ j \in 0 .. Len(T) /\ Len(T) \in Nat
  BY <1>1, SpanOf
<1>3. i <= j
  BY <1>1 DEF RuleAt
<1>4. j \in 1 .. Len(T)
  BY <1>2, <1>3
<1>. QED
  BY <1>2, <1>3, <1>4

(* The rules of the grammar. *)
LEMMA PartsRule ==
  ASSUME NEW T \in Seq(InputTokens), NEW D, Solves(T, D), NEW y \in {"Expression", "LPs"}, NEW i, NEW j
  PROVE  Is(T, D, y, i, j) <=>
           \/ Is(T, D, PartOf(y), i, j)
           \/ \E k \in Int : /\ i < k /\ k < j /\ T[k].value \in BinaryOf(y)
                             /\ Is(T, D, PartOf(y), i, k - 1) /\ Is(T, D, y, k + 1, j)
<1> DEFINE One1 == Is(T, D, PartOf(y), i, j)
           More(k) == /\ i < k /\ k < j /\ T[k].value \in BinaryOf(y)
                      /\ Is(T, D, PartOf(y), i, k - 1) /\ Is(T, D, y, k + 1, j)
<1>1. y \in Nonterminal /\ PartOf(y) \in Nonterminal /\ y \notin {"LogicEXP", "P", "LP"}
  BY DEF Nonterminal, PartOf
<1>2. ASSUME <<y, i, j>> \in Spans(T), i <= j
      PROVE  Is(T, D, y, i, j) <=> One1 \/ \E k \in Int : More(k)
  <2>1. i \in 1 .. Len(T) /\ j \in 0 .. Len(T) /\ Len(T) \in Nat
    BY <1>2, SpanOf
  <2>2. Is(T, D, y, i, j) <=> Parts(T, D, y, i, j)
    <3>1. RuleAt(T, D, <<y, i, j>>) <=> Parts(T, D, y, i, j)
      BY <1>1, <1>2 DEF RuleAt
    <3>. QED
      BY <1>2, <3>1, SolvedAt
  <2>3. One1 <=> D[<<PartOf(y), i, j>>]
    BY <1>1, <2>1, SpanOf DEF Is
  <2>4. ASSUME NEW k \in i + 1 .. j - 1
        PROVE  More(k) <=> /\ T[k].value \in BinaryOf(y)
                           /\ D[<<PartOf(y), i, k - 1>>] /\ D[<<y, k + 1, j>>]
    <3>1. k \in Int /\ i < k /\ k < j /\ k - 1 \in 0 .. Len(T) /\ k + 1 \in 1 .. Len(T)
      BY <2>1
    <3>2. <<PartOf(y), i, k - 1>> \in Spans(T) /\ <<y, k + 1, j>> \in Spans(T)
      BY <1>1, <2>1, <3>1, SpanOf
    <3>. QED
      BY <3>1, <3>2 DEF Is
  <2>5. \A k \in Int : More(k) => k \in i + 1 .. j - 1
    BY <2>1
  <2>6. \A k \in i + 1 .. j - 1 : k \in Int
    BY <2>1
  <2>. HIDE DEF One1, More
  <2>. QED
    BY <2>2, <2>3, <2>4, <2>5, <2>6 DEF Parts
<1>3. ASSUME One1 \/ (\E k \in Int : More(k)) \/ Is(T, D, y, i, j)
      PROVE  <<y, i, j>> \in Spans(T) /\ i <= j
  <2>1. i \in 1 .. Len(T) /\ j \in 1 .. Len(T) /\ i <= j
    BY <1>3, PhraseSpan
  <2>2. j \in 0 .. Len(T)
    BY <2>1
  <2>. QED
    BY <1>1, <2>1, <2>2, SpanOf
<1>. HIDE DEF One1, More
<1>4. Is(T, D, y, i, j) <=> One1 \/ \E k \in Int : More(k)
  BY <1>2, <1>3
<1>. QED
  BY <1>4 DEF One1, More

LEMMA LogicRule ==
  ASSUME NEW T \in Seq(InputTokens), NEW D, Solves(T, D), NEW i, NEW j
  PROVE  Is(T, D, "LogicEXP", i, j) <=>
           /\ i \in 1 .. Len(T) /\ j \in 1 .. Len(T)
           /\ T[i].type = "LSQRBRACK" /\ T[j].type = "RSQRBRACK"
           /\ Is(T, D, "LPs", i + 1, j - 1)
<1>1. ASSUME i \in 1 .. Len(T), j \in 1 .. Len(T), i + 1 < j
      PROVE  Is(T, D, "LogicEXP", i, j) <=>
               /\ T[i].type = "LSQRBRACK" /\ T[j].type = "RSQRBRACK"
               /\ Is(T, D, "LPs", i + 1, j - 1)
  <2>1. j \in 0 .. Len(T) /\ i + 1 \in 1 .. Len(T) /\ j - 1 \in 0 .. Len(T) /\ i <= j
    BY <1>1
  <2>2. <<"LogicEXP", i, j>> \in Spans(T) /\ <<"LPs", i + 1, j - 1>> \in Spans(T)
    BY <1>1, <2>1, SpanOf DEF Nonterminal
  <2>3. RuleAt(T, D, <<"LogicEXP", i, j>>) <=> Bracketed(T, D, "LPs", "LSQRBRACK", i, j)
    BY <2>1 DEF RuleAt
  <2>4. Bracketed(T, D, "LPs", "LSQRBRACK", i, j) <=>
          T[i].type = "LSQRBRACK" /\ T[j].type = "RSQRBRACK" /\ D[<<"LPs", i + 1, j - 1>>]
    BY <1>1 DEF Bracketed, ClosingOf
  <2>. QED
    BY <2>2, <2>3, <2>4, SolvedAt DEF Is
<1>2. ASSUME Is(T, D, "LogicEXP", i, j)
      PROVE  i \in 1 .. Len(T) /\ j \in 1 .. Len(T) /\ i + 1 < j
  <2>1. i \in 1 .. Len(T) /\ j \in 1 .. Len(T)
    BY <1>2, PhraseSpan
  <2>2. RuleAt(T, D, <<"LogicEXP", i, j>>)
    BY <1>2, SolvedAt
  <2>. QED
    BY <2>1, <2>2 DEF RuleAt, Bracketed
<1>3. ASSUME i \in 1 .. Len(T), j \in 1 .. Len(T), Is(T, D, "LPs", i + 1, j - 1)
      PROVE  i + 1 < j
  <2>1. i + 1 <= j - 1
    BY <1>3, PhraseSpan
  <2>. QED
    BY <1>3, <2>1
<1>. QED
  BY <1>1, <1>2, <1>3

LEMMA PartRule ==
  ASSUME NEW T \in Seq(InputTokens), NEW D, Solves(T, D), NEW x \in {"P", "LP"}, NEW i, NEW j
  PROVE  Is(T, D, x, i, j) <=>
           /\ i \in 1 .. Len(T) /\ j \in 1 .. Len(T)
           /\ \/ i = j /\ T[i].type \in Operand
              \/ /\ T[i].type = "LPAREN" /\ T[j].type = "RPAREN"
                 /\ Is(T, D, "Expression", i + 1, j - 1)
              \/ T[i].value \in UnaryOf(x) /\ Is(T, D, x, i + 1, j)
              \/ Is(T, D, "LogicEXP", i, j)
<1> DEFINE Alternative ==
             \/ i = j /\ T[i].type \in Operand
             \/ /\ T[i].type = "LPAREN" /\ T[j].type = "RPAREN"
                /\ Is(T, D, "Expression", i + 1, j - 1)
             \/ T[i].value \in UnaryOf(x) /\ Is(T, D, x, i + 1, j)
             \/ Is(T, D, "LogicEXP", i, j)
<1>1. ASSUME i \in 1 .. Len(T), j \in 1 .. Len(T), i <= j
      PROVE  Is(T, D, x, i, j) <=> Alternative
  <2>1. j \in 0 .. Len(T)
    BY <1>1
  <2>2. x \in Nonterminal /\ "LogicEXP" \in Nonterminal /\ "Expression" \in Nonterminal
    BY DEF Nonterminal
  <2>3. <<x, i, j>> \in Spans(T) /\ <<"LogicEXP", i, j>> \in Spans(T)
    BY <1>1, <2>1, <2>2, SpanOf
  <2>4. Is(T, D, x, i, j) <=> Part(T, D, x, i, j)
    <3>1. RuleAt(T, D, <<x, i, j>>) <=> Part(T, D, x, i, j)
      BY <1>1 DEF RuleAt
    <3>. QED
      BY <2>3, <3>1, SolvedAt
  <2>5. Bracketed(T, D, "Expression", "LPAREN", i, j) <=>
          /\ T[i].type = "LPAREN" /\ T[j].type = "RPAREN"
          /\ Is(T, D, "Expression", i + 1, j - 1)
    <3>1. CASE i + 1 < j
      <4>1. i + 1 \in 1 .. Len(T) /\ j - 1 \in 0 .. Len(T)
        BY <1>1, <3>1
      <4>2. <<"Expression", i + 1, j - 1>> \in Spans(T)
        BY <2>2, <4>1, SpanOf
      <4>. QED
        BY <3>1, <4>2 DEF Bracketed, ClosingOf, Is
    <3>2. CASE ~ (i + 1 < j)
      <4>1. Is(T, D, "Expression", i + 1, j - 1) => i + 1 <= j - 1
        BY PhraseSpan
      <4>2. ~ Is(T, D, "Expression", i + 1, j - 1)
        BY <1>1, <3>2, <4>1
      <4>. QED
        BY <3>2, <4>2 DEF Bracketed
    <3>. QED
      BY <3>1, <3>2
  <2>6. (i < j /\ T[i].value \in UnaryOf(x) /\ D[<<x, i + 1, j>>]) <=>
          T[i].value \in UnaryOf(x) /\ Is(T, D, x, i + 1, j)
    <3>1. CASE i < j
      <4>1. i + 1 \in 1 .. Len(T)
        BY <1>1, <3>1
      <4>2. <<x, i + 1, j>> \in Spans(T)
        BY <2>1, <2>2, <4>1, SpanOf
      <4>. QED
        BY <3>1, <4>2 DEF Is
    <3>2. CASE ~ (i < j)
      <4>1. Is(T, D, x, i + 1, j) => i + 1 <= j
        BY PhraseSpan
      <4>2. ~ Is(T, D, x, i + 1, j)
        BY <1>1, <3>2, <4>1
      <4>. QED
        BY <3>2, <4>2
    <3>. QED
      BY <3>1, <3>2
  <2>7. D[<<"LogicEXP", i, j>>] <=> Is(T, D, "LogicEXP", i, j)
    BY <2>3 DEF Is
  <2>. QED
    BY <2>4, <2>5, <2>6, <2>7 DEF Part
<1>2. ASSUME i \in 1 .. Len(T), j \in 1 .. Len(T), Alternative
      PROVE  i <= j
  <2>1. Is(T, D, "Expression", i + 1, j - 1) => i + 1 <= j - 1
    BY PhraseSpan
  <2>2. Is(T, D, x, i + 1, j) => i + 1 <= j
    BY PhraseSpan
  <2>3. Is(T, D, "LogicEXP", i, j) => i <= j
    BY PhraseSpan
  <2>. QED
    BY <1>2, <2>1, <2>2, <2>3
<1>3. Is(T, D, x, i, j) => i \in 1 .. Len(T) /\ j \in 1 .. Len(T) /\ i <= j
  BY PhraseSpan
<1>. HIDE DEF Alternative
<1>4. Is(T, D, x, i, j) <=> i \in 1 .. Len(T) /\ j \in 1 .. Len(T) /\ Alternative
  BY <1>1, <1>2, <1>3
<1>. QED
  BY <1>4 DEF Alternative

(* The recursion is well founded: what a span is depends on shorter spans  *)
(* and on what simpler nonterminals derive the same span.                  *)
Rank(p) ==
  3 * (p[3] - p[2]) + (IF p[1] = "LogicEXP" THEN 0 ELSE IF p[1] \in {"P", "LP"} THEN 1 ELSE 2)

LEMMA RankIs ==
  ASSUME NEW T \in Seq(InputTokens), NEW p \in Spans(T)
  PROVE  /\ Rank(p) \in Int /\ Rank(p) <= 3 * Len(T)
         /\ p[1] \in Nonterminal /\ p[2] \in 1 .. Len(T) /\ p[3] \in 0 .. Len(T)
         /\ p = <<p[1], p[2], p[3]>>
         /\ Rank(p) < 0 => p[2] > p[3]
BY DEF Rank, Spans

LEMMA DependsOnLowerRank ==
  ASSUME NEW T \in Seq(InputTokens), NEW p \in Spans(T), NEW D, NEW E,
         \A q \in Spans(T) : Rank(q) < Rank(p) => (D[q] <=> E[q])
  PROVE  RuleAt(T, D, p) <=> RuleAt(T, E, p)
<1>1. PICK x, i, j : x = p[1] /\ i = p[2] /\ j = p[3]
  OBVIOUS
<1>2. /\ Len(T) \in Nat /\ i \in 1 .. Len(T) /\ j \in 0 .. Len(T) /\ x \in Nonterminal
      /\ p = <<x, i, j>>
  BY <1>1, RankIs
<1>3. ASSUME NEW z \in Nonterminal, NEW k \in 1 .. Len(T), NEW l \in 0 .. Len(T),
             Rank(<<z, k, l>>) < Rank(p)
      PROVE  D[<<z, k, l>>] <=> E[<<z, k, l>>]
  <2>1. <<z, k, l>> \in Spans(T)
    BY SpanOf
  <2>2. PICK q : q = <<z, k, l>>
    OBVIOUS
  <2>. QED
    BY <1>3, <2>1, <2>2
<1>4. CASE i > j
  BY <1>1, <1>2, <1>4 DEF RuleAt
<1>5. CASE i <= j /\ x \in {"Expression", "LPs"}
  <2>1. PICK z : z = PartOf(x) /\ z \in {"P", "LP"} /\ z \in Nonterminal
    BY DEF PartOf, Nonterminal
  <2>2. Rank(p) = 3 * (j - i) + 2
    BY <1>2, <1>5 DEF Rank
  <2>3. D[<<z, i, j>>] <=> E[<<z, i, j>>]
    <3>1. Rank(<<z, i, j>>) = 3 * (j - i) + 1
      BY <2>1 DEF Rank
    <3>2. Rank(<<z, i, j>>) < Rank(p)
      BY <1>2, <2>2, <3>1
    <3>. QED
      BY <1>2, <1>3, <2>1, <3>2
  <2>4. ASSUME NEW k \in i + 1 .. j - 1
        PROVE  /\ D[<<z, i, k - 1>>] <=> E[<<z, i, k - 1>>]
               /\ D[<<x, k + 1, j>>] <=> E[<<x, k + 1, j>>]
    <3>1. k - 1 \in 0 .. Len(T) /\ k + 1 \in 1 .. Len(T) /\ k \in Int /\ i + 1 <= k /\ k <= j - 1
      BY <1>2
    <3>2. /\ Rank(<<z, i, k - 1>>) = 3 * ((k - 1) - i) + 1
          /\ Rank(<<x, k + 1, j>>) = 3 * (j - (k + 1)) + 2
      BY <1>5, <2>1 DEF Rank
    <3>3. Rank(<<z, i, k - 1>>) < Rank(p) /\ Rank(<<x, k + 1, j>>) < Rank(p)
      <4>1. k - 1 - i < j - i /\ j - (k + 1) < j - i
        BY <1>2, <3>1
      <4>. QED
        BY <1>2, <2>2, <3>1, <3>2, <4>1
    <3>. QED
      BY <1>2, <1>3, <2>1, <3>1, <3>3
  <2>5. Parts(T, D, x, i, j) <=> Parts(T, E, x, i, j)
    BY <2>1, <2>3, <2>4, Zenon DEF Parts
  <2>. QED
    BY <1>1, <1>5, <2>5, Zenon DEF RuleAt
<1>6. ASSUME i <= j, x \in {"LogicEXP", "P", "LP"}, NEW y \in {"Expression", "LPs"}, NEW opening
      PROVE  Bracketed(T, D, y, opening, i, j) <=> Bracketed(T, E, y, opening, i, j)
  <2>1. CASE i + 1 < j
    <3>1. i + 1 \in 1 .. Len(T) /\ j - 1 \in 0 .. Len(T) /\ y \in Nonterminal
      BY <1>2, <2>1 DEF Nonterminal
    <3>2. Rank(<<y, i + 1, j - 1>>) = 3 * ((j - 1) - (i + 1)) + 2
      BY <1>6 DEF Rank
    <3>3. Rank(p) >= 3 * (j - i)
      BY <1>2, <1>6 DEF Rank
    <3>4. Rank(<<y, i + 1, j - 1>>) < Rank(p)
      <4>1. Rank(p) \in Int
        BY RankIs
      <4>. QED
        BY <1>2, <3>2, <3>3, <4>1
    <3>5. D[<<y, i + 1, j - 1>>] <=> E[<<y, i + 1, j - 1>>]
      BY <1>3, <3>1, <3>4
    <3>. QED
      BY <3>5, Zenon DEF Bracketed
  <2>2. CASE ~ (i + 1 < j)
    BY <2>2, Zenon DEF Bracketed
  <2>. QED
    BY <2>1, <2>2
<1>7. CASE i <= j /\ x = "LogicEXP"
  <2>1. Bracketed(T, D, "LPs", "LSQRBRACK", i, j) <=> Bracketed(T, E, "LPs", "LSQRBRACK", i, j)
    BY <1>6, <1>7
  <2>. QED
    BY <1>1, <1>7, <2>1 DEF RuleAt
<1>8. CASE i <= j /\ x \in {"P", "LP"}
  <2>1. Bracketed(T, D, "Expression", "LPAREN", i, j) <=> Bracketed(T, E, "Expression", "LPAREN", i, j)
    BY <1>6, <1>8
  <2>2. Rank(p) = 3 * (j - i) + 1
    BY <1>2, <1>8 DEF Rank
  <2>3. i < j => (D[<<x, i + 1, j>>] <=> E[<<x, i + 1, j>>])
    <3>1. Rank(<<x, i + 1, j>>) = 3 * (j - (i + 1)) + 1
      BY <1>8 DEF Rank
    <3>2. i < j => i + 1 \in 1 .. Len(T) /\ Rank(<<x, i + 1, j>>) < Rank(p)
      BY <1>2, <2>2, <3>1
    <3>. QED
      BY <1>2, <1>3, <3>2
  <2>4. D[<<"LogicEXP", i, j>>] <=> E[<<"LogicEXP", i, j>>]
    <3>1. Rank(<<"LogicEXP", i, j>>) = 3 * (j - i) + 0 /\ "LogicEXP" \in Nonterminal
      BY DEF Rank, Nonterminal
    <3>2. Rank(<<"LogicEXP", i, j>>) < Rank(p)
      BY <1>2, <2>2, <3>1
    <3>. QED
      BY <1>2, <1>3, <3>1, <3>2
  <2>5. Part(T, D, x, i, j) <=> Part(T, E, x, i, j)
    BY <2>1, <2>3, <2>4, Zenon DEF Part
  <2>. QED
    BY <1>1, <1>8, <2>5 DEF RuleAt
<1>. QED
  BY <1>2, <1>4, <1>5, <1>7, <1>8 DEF Nonterminal

(* A solution for the spans of a rank below n. *)
SolvesBelow(T, D, n) ==
  /\ D \in [Spans(T) -> BOOLEAN]
  /\ \A p \in Spans(T) : Rank(p) < n => (D[p] <=> RuleAt(T, D, p))

LEMMA DerivationsExist ==
  ASSUME NEW T \in Seq(InputTokens)
  PROVE  \E D : Solves(T, D)
<1>1. \A D : \A p : RuleAt(T, D, p) \in BOOLEAN
  BY DEF RuleAt
<1>2. PICK N : N = {n \in Nat : \E D : SolvesBelow(T, D, n)}
  OBVIOUS
<1>3. 0 \in N
  <2>1. PICK D : D = [p \in Spans(T) |-> FALSE]
    OBVIOUS
  <2>2. \A p \in Spans(T) : Rank(p) < 0 => ~ RuleAt(T, D, p)
    <3>. SUFFICES ASSUME NEW p \in Spans(T), Rank(p) < 0
                  PROVE  ~ (p[2] <= p[3])
      BY DEF RuleAt
    <3>. QED
      BY RankIs
  <2>3. D \in [Spans(T) -> BOOLEAN] /\ \A p \in Spans(T) : ~ D[p]
    BY <2>1
  <2>4. SolvesBelow(T, D, 0)
    BY <2>2, <2>3 DEF SolvesBelow
  <2>. QED
    BY <1>2, <2>4
<1>4. ASSUME NEW n \in Nat, n \in N
      PROVE  n + 1 \in N
  <2>1. PICK D : SolvesBelow(T, D, n)
    BY <1>2, <1>4
  <2>2. PICK E : E = [p \in Spans(T) |-> IF Rank(p) < n THEN D[p] ELSE RuleAt(T, D, p)]
    OBVIOUS
  <2>3. D \in [Spans(T) -> BOOLEAN]
    BY <2>1 DEF SolvesBelow
  <2>4. E \in [Spans(T) -> BOOLEAN]
    <3>1. \A p \in Spans(T) : (IF Rank(p) < n THEN D[p] ELSE RuleAt(T, D, p)) \in BOOLEAN
      BY <1>1, <2>3
    <3>. QED
      BY <2>2, <3>1
  <2>5. \A p \in Spans(T) : E[p] <=> IF Rank(p) < n THEN D[p] ELSE RuleAt(T, D, p)
    BY <2>2
  <2>6. ASSUME NEW p \in Spans(T), Rank(p) < n + 1
        PROVE  E[p] <=> RuleAt(T, E, p)
    <3>1. Rank(p) \in Int
      BY RankIs
    <3>2. ASSUME NEW q \in Spans(T), Rank(q) < Rank(p)
          PROVE  D[q] <=> E[q]
      <4>1. Rank(q) < n
        BY <2>6, <3>1, <3>2, RankIs
      <4>. QED
        BY <2>5, <4>1
    <3>3. RuleAt(T, D, p) <=> RuleAt(T, E, p)
      BY <3>2, DependsOnLowerRank
    <3>4. Rank(p) < n => (D[p] <=> RuleAt(T, D, p))
      BY <2>1 DEF SolvesBelow
    <3>. QED
      BY <2>5, <3>3, <3>4
  <2>7. SolvesBelow(T, E, n + 1)
    BY <2>4, <2>6 DEF SolvesBelow
  <2>. QED
    BY <1>2, <2>7
<1>5. Nat \subseteq N
  BY <1>3, <1>4, NaturalInduction
<1>6. PICK n \in Nat : n = 3 * Len(T) + 1
  OBVIOUS
<1>7. PICK D : SolvesBelow(T, D, n)
  BY <1>2, <1>5, <1>6
<1>8. \A p \in Spans(T) : D[p] <=> RuleAt(T, D, p)
  <2>1. \A p \in Spans(T) : Rank(p) < n
    BY <1>6, RankIs
  <2>. QED
    BY <1>7, <2>1 DEF SolvesBelow
<1>9. D = [p \in Spans(T) |-> RuleAt(T, D, p)]
  <2>1. D \in [Spans(T) -> BOOLEAN]
    BY <1>7 DEF SolvesBelow
  <2>2. \A p \in Spans(T) : D[p] = RuleAt(T, D, p)
    BY <1>1, <1>8, <2>1
  <2>. QED
    BY <2>1, <2>2
<1>. QED
  BY <1>9 DEF Solves

----------------------------------------------------------------------------
(* A token is an operator or has no value, and a phrase is told by the     *)
(* token it begins with.                                                   *)
OperatorName == BinaryOperator \cup UnaryOperator \cup LogicalBinaryOperator \cup LogicalUnaryOperator

LEMMA OperatorTokens ==
  ASSUME NEW t \in InputTokens \cup {NoTerm}, t.type # "OP"
  PROVE  /\ t.value \notin OperatorName
         /\ \A x : t.value \notin BinaryOf(x) /\ t.value \notin UnaryOf(x)
<1>1. t.value \notin DOMAIN Precedence
  BY TokenTypes
<1>2. t.value \notin OperatorName
  BY <1>1, Precedences DEF OperatorName
<1>. QED
  BY <1>2 DEF OperatorName, BinaryOf, UnaryOf

(* The first token tells which alternative of P or LP it is. *)
OfItsKind(T, D, x, i, j) ==
  /\ T[i].type \in Operand => i = j
  /\ T[i].type = "LPAREN" => T[j].type = "RPAREN" /\ Is(T, D, "Expression", i + 1, j - 1)
  /\ T[i].type = "LSQRBRACK" => Is(T, D, "LogicEXP", i, j)
  /\ T[i].type = "OP" => T[i].value \in UnaryOf(x) /\ Is(T, D, x, i + 1, j)
  /\ T[i].type \in Operand \cup Opening \cup {"OP"}

LEMMA PartKind ==
  ASSUME NEW T \in Seq(InputTokens), NEW D, Solves(T, D), NEW x \in {"P", "LP"}, NEW i, NEW j,
         Is(T, D, x, i, j)
  PROVE  OfItsKind(T, D, x, i, j)
<1>1. T[i] \in InputTokens
  BY PhraseSpan
<1>2. T[i].type # "OP" => T[i].value \notin UnaryOf(x)
  BY <1>1, OperatorTokens
<1>3. \/ i = j /\ T[i].type \in Operand
      \/ /\ T[i].type = "LPAREN" /\ T[j].type = "RPAREN"
         /\ Is(T, D, "Expression", i + 1, j - 1)
      \/ T[i].value \in UnaryOf(x) /\ Is(T, D, x, i + 1, j)
      \/ Is(T, D, "LogicEXP", i, j)
  BY PartRule
<1>4. Is(T, D, "LogicEXP", i, j) => T[i].type = "LSQRBRACK"
  BY LogicRule
<1>. QED
  BY <1>2, <1>3, <1>4 DEF OfItsKind, Operand, Opening

(* A span is one part in one way only, as far as it goes, and where two    *)
(* sequences of parts begin, the longer one continues the shorter with an  *)
(* operator.                                                               *)
Begins(T, D, x, i) == \E j : Is(T, D, x, i, j)

Follows(T, D, y, j) ==
  /\ j + 1 \in 1 .. Len(T) /\ T[j + 1].value \in BinaryOf(y)
  /\ Begins(T, D, PartOf(y), j + 2)

OneEnd(T, D, n) ==
  \A x \in {"P", "LP", "LogicEXP"} : \A i, j, k :
    Is(T, D, x, i, j) /\ j - i < n /\ Is(T, D, x, i, k) => j = k

Joins(T, D, n) ==
  \A y \in {"Expression", "LPs"} : \A i, j, k :
    Is(T, D, y, i, j) /\ j - i < n /\ Is(T, D, y, i, k) =>
      \/ j = k
      \/ j < k /\ Follows(T, D, y, j)
      \/ k < j /\ Follows(T, D, y, k)

(* No bracket that closes is an operator. *)
LEMMA EndsAtBracket ==
  ASSUME NEW T \in Seq(InputTokens), NEW D, Solves(T, D), NEW n, Joins(T, D, n),
         NEW y \in {"Expression", "LPs"}, NEW i, NEW j, NEW k,
         Is(T, D, y, i, j - 1), (j - 1) - i < n, Is(T, D, y, i, k - 1), j \in Int, k \in Int,
         T[j].type \in Closing, T[k].type \in Closing
  PROVE  j = k
<1>1. (j - 1) + 1 = j /\ (k - 1) + 1 = k
  OBVIOUS
<1>2. \A l \in 1 .. Len(T) : T[l].type \in Closing => T[l].value \notin BinaryOf(y)
  BY OperatorTokens DEF Closing
<1>3. ~ Follows(T, D, y, j - 1) /\ ~ Follows(T, D, y, k - 1)
  BY <1>1, <1>2 DEF Follows
<1>4. j - 1 = k - 1
  BY <1>3 DEF Joins
<1>. QED
  BY <1>4

LEMMA OneEndStep ==
  ASSUME NEW T \in Seq(InputTokens), NEW D, Solves(T, D), NEW n \in Nat,
         OneEnd(T, D, n), Joins(T, D, n)
  PROVE  OneEnd(T, D, n + 1)
<1>1. ASSUME NEW i, NEW j, NEW k,
             Is(T, D, "LogicEXP", i, j), j - i < n + 1, Is(T, D, "LogicEXP", i, k)
      PROVE  j = k
  <2>1. /\ Is(T, D, "LPs", i + 1, j - 1) /\ Is(T, D, "LPs", i + 1, k - 1)
        /\ T[j].type \in Closing /\ T[k].type \in Closing
    BY <1>1, LogicRule DEF Closing
  <2>2. i \in Int /\ j \in Int /\ k \in Int
    BY <1>1, PhraseSpan
  <2>3. (j - 1) - (i + 1) < n
    BY <1>1, <2>2
  <2>. QED
    BY <2>1, <2>2, <2>3, EndsAtBracket
<1>2. ASSUME NEW x \in {"P", "LP"}, NEW i, NEW j, NEW k,
             Is(T, D, x, i, j), j - i < n + 1, Is(T, D, x, i, k)
      PROVE  j = k
  <2>1. i \in Int /\ j \in Int /\ k \in Int
    BY <1>2, PhraseSpan
  <2>2. OfItsKind(T, D, x, i, j) /\ OfItsKind(T, D, x, i, k)
    BY <1>2, PartKind
  <2>3. CASE T[i].type \in Operand
    BY <2>2, <2>3 DEF OfItsKind
  <2>4. CASE T[i].type = "LPAREN"
    <3>1. /\ Is(T, D, "Expression", i + 1, j - 1) /\ Is(T, D, "Expression", i + 1, k - 1)
          /\ T[j].type \in Closing /\ T[k].type \in Closing
      BY <2>2, <2>4 DEF Closing, OfItsKind
    <3>2. (j - 1) - (i + 1) < n
      BY <1>2, <2>1
    <3>. QED
      BY <2>1, <3>1, <3>2, EndsAtBracket
  <2>5. CASE T[i].type = "LSQRBRACK"
    BY <1>1, <1>2, <2>2, <2>5 DEF OfItsKind
  <2>6. CASE T[i].type = "OP"
    <3>1. Is(T, D, x, i + 1, j) /\ Is(T, D, x, i + 1, k)
      BY <2>2, <2>6 DEF OfItsKind
    <3>2. j - (i + 1) < n
      BY <1>2, <2>1
    <3>. QED
      BY <3>1, <3>2 DEF OneEnd
  <2>. QED
    BY <2>2, <2>3, <2>4, <2>5, <2>6 DEF OfItsKind, Opening
<1>. QED
  BY <1>1, <1>2 DEF OneEnd

LEMMA JoinsStep ==
  ASSUME NEW T \in Seq(InputTokens), NEW D, Solves(T, D), NEW n \in Nat,
         OneEnd(T, D, n + 1), Joins(T, D, n)
  PROVE  Joins(T, D, n + 1)
<1> SUFFICES ASSUME NEW y \in {"Expression", "LPs"}, NEW i, NEW j, NEW k,
                    Is(T, D, y, i, j), j - i < n + 1, Is(T, D, y, i, k)
             PROVE  \/ j = k
                    \/ j < k /\ Follows(T, D, y, j)
                    \/ k < j /\ Follows(T, D, y, k)
  BY DEF Joins
<1>1. PICK x \in {"P", "LP"} : x = PartOf(y)
  BY DEF PartOf
<1>2. i \in Int /\ j \in Int /\ k \in Int
  BY PhraseSpan
<1>3. \A l, m : Is(T, D, y, l, m) => Begins(T, D, x, l)
  BY <1>1, PartsRule DEF Begins
<1>4. ASSUME NEW l \in Int, NEW m, Is(T, D, x, i, l - 1), Is(T, D, y, l + 1, m),
             T[l].value \in BinaryOf(y), NEW h, h = l - 1
      PROVE  h < m /\ Follows(T, D, y, h)
  <2>1. l + 1 \in Int /\ m \in Int /\ l + 1 <= m /\ m <= Len(T) /\ Len(T) \in Int
    BY <1>4, PhraseSpan
  <2>2. 1 <= i /\ i <= l - 1
    BY <1>4, PhraseSpan
  <2>3. h + 1 = l /\ h + 2 = l + 1 /\ l \in 1 .. Len(T) /\ h < m
    BY <1>2, <1>4, <2>1, <2>2
  <2>4. Begins(T, D, x, l + 1)
    BY <1>3, <1>4
  <2>. QED
    BY <1>1, <1>4, <2>3, <2>4 DEF Follows
<1>5. CASE Is(T, D, x, i, j)
  <2>1. CASE Is(T, D, x, i, k)
    BY <1>5, <2>1 DEF OneEnd
  <2>2. ASSUME NEW l \in Int, T[l].value \in BinaryOf(y),
               Is(T, D, x, i, l - 1), Is(T, D, y, l + 1, k)
        PROVE  j < k /\ Follows(T, D, y, j)
    <3>1. j = l - 1
      BY <1>5, <2>2 DEF OneEnd
    <3>. QED
      BY <1>4, <2>2, <3>1
  <2>. QED
    BY <1>1, <2>1, <2>2, PartsRule
<1>6. ASSUME NEW l \in Int, T[l].value \in BinaryOf(y), l < j,
             Is(T, D, x, i, l - 1), Is(T, D, y, l + 1, j)
      PROVE  \/ j = k
             \/ j < k /\ Follows(T, D, y, j)
             \/ k < j /\ Follows(T, D, y, k)
  <2>1. (l - 1) - i < n + 1 /\ i <= l - 1
    BY <1>2, <1>6, PhraseSpan
  <2>2. CASE Is(T, D, x, i, k)
    <3>1. k = l - 1
      BY <1>6, <2>1, <2>2 DEF OneEnd
    <3>. QED
      BY <1>4, <1>6, <3>1
  <2>3. ASSUME NEW m \in Int, Is(T, D, x, i, m - 1), Is(T, D, y, m + 1, k)
        PROVE  \/ j = k
               \/ j < k /\ Follows(T, D, y, j)
               \/ k < j /\ Follows(T, D, y, k)
    <3>1. l - 1 = m - 1
      BY <1>6, <2>1, <2>3 DEF OneEnd
    <3>2. m = l
      BY <3>1
    <3>3. j - (l + 1) < n
      BY <1>2, <1>6, <2>1
    <3>. QED
      BY <1>6, <2>3, <3>2, <3>3 DEF Joins
  <2>. QED
    BY <1>1, <2>2, <2>3, PartsRule
<1>. QED
  BY <1>1, <1>5, <1>6, PartsRule

LEMMA Unambiguous ==
  ASSUME NEW T \in Seq(InputTokens), NEW D, Solves(T, D)
  PROVE  \A n \in Nat : OneEnd(T, D, n) /\ Joins(T, D, n)
<1>1. PICK N : N = {n \in Nat : OneEnd(T, D, n) /\ Joins(T, D, n)}
  OBVIOUS
<1>2. 0 \in N
  <2>1. \A x, i, j : Is(T, D, x, i, j) => ~ (j - i < 0)
    BY PhraseSpan
  <2>. QED
    BY <1>1, <2>1 DEF OneEnd, Joins
<1>3. \A n \in Nat : n \in N => n + 1 \in N
  BY <1>1, OneEndStep, JoinsStep
<1>. QED
  BY <1>1, <1>2, <1>3, NaturalInduction

(* Two sequences of parts with one beginning. *)
LEMMA Joined ==
  ASSUME NEW T \in Seq(InputTokens), NEW D, Solves(T, D), NEW y \in {"Expression", "LPs"},
         NEW i, NEW j, NEW k, Is(T, D, y, i, j), Is(T, D, y, i, k)
  PROVE  \/ j = k
         \/ j < k /\ Follows(T, D, y, j)
         \/ k < j /\ Follows(T, D, y, k)
<1>1. i \in Int /\ j \in Int /\ i <= j
  BY PhraseSpan
<1>2. PICK n \in Nat : n = (j - i) + 1
  BY <1>1
<1>3. j - i < n
  BY <1>1, <1>2
<1>. QED
  BY <1>3, Unambiguous DEF Joins

(* A sequence of parts and one more. *)
Appends(T, D, n) ==
  \A y \in {"Expression", "LPs"} : \A i, j, k :
    /\ Is(T, D, y, i, j) /\ j - i < n
    /\ T[j + 1].value \in BinaryOf(y) /\ Is(T, D, PartOf(y), j + 2, k)
    => Is(T, D, y, i, k)

LEMMA AppendsStep ==
  ASSUME NEW T \in Seq(InputTokens), NEW D, Solves(T, D), NEW n \in Nat, Appends(T, D, n)
  PROVE  Appends(T, D, n + 1)
<1> SUFFICES ASSUME NEW y \in {"Expression", "LPs"}, NEW i, NEW j, NEW k,
                    Is(T, D, y, i, j), j - i < n + 1,
                    T[j + 1].value \in BinaryOf(y), Is(T, D, PartOf(y), j + 2, k)
             PROVE  Is(T, D, y, i, k)
  BY DEF Appends
<1>1. i \in Int /\ j \in Int /\ k \in Int /\ i <= j /\ j + 2 <= k
  BY PhraseSpan
<1>2. CASE Is(T, D, PartOf(y), i, j)
  <2>1. PICK l \in Int : l = j + 1 /\ l - 1 = j /\ l + 1 = j + 2 /\ i < l /\ l < k
    BY <1>1
  <2>2. Is(T, D, y, l + 1, k)
    BY <2>1, PartsRule
  <2>. QED
    BY <1>2, <2>1, <2>2, PartsRule
<1>3. ASSUME NEW l \in Int, i < l, l < j, T[l].value \in BinaryOf(y),
             Is(T, D, PartOf(y), i, l - 1), Is(T, D, y, l + 1, j)
      PROVE  Is(T, D, y, i, k)
  <2>1. j - (l + 1) < n /\ l < k
    BY <1>1, <1>3
  <2>2. Is(T, D, y, l + 1, k)
    BY <1>3, <2>1 DEF Appends
  <2>. QED
    BY <1>3, <2>1, <2>2, PartsRule
<1>. QED
  BY <1>2, <1>3, PartsRule

LEMMA OnePartMore ==
  ASSUME NEW T \in Seq(InputTokens), NEW D, Solves(T, D), NEW y \in {"Expression", "LPs"},
         NEW i, NEW j, NEW k, Is(T, D, y, i, j),
         T[j + 1].value \in BinaryOf(y), Is(T, D, PartOf(y), j + 2, k)
  PROVE  Is(T, D, y, i, k)
<1>1. PICK N : N = {n \in Nat : Appends(T, D, n)}
  OBVIOUS
<1>2. 0 \in N
  <2>1. \A x, l, m : Is(T, D, x, l, m) => ~ (m - l < 0)
    BY PhraseSpan
  <2>. QED
    BY <1>1, <2>1 DEF Appends
<1>3. \A n \in Nat : n \in N => n + 1 \in N
  BY <1>1, AppendsStep
<1>4. Nat \subseteq N
  BY <1>2, <1>3, NaturalInduction
<1>5. i \in Int /\ j \in Int /\ i <= j
  BY PhraseSpan
<1>6. PICK n \in Nat : n = (j - i) + 1
  BY <1>5
<1>7. Appends(T, D, n) /\ j - i < n
  BY <1>1, <1>4, <1>5, <1>6
<1>. QED
  BY <1>7 DEF Appends

(* No phrase has a substring in it that is no token. *)
Legal(T, D, n) ==
  \A x, i, j, l : Is(T, D, x, i, j) /\ j - i < n /\ l \in i .. j => T[l].type # "INVALID"

LEMMA LegalStep ==
  ASSUME NEW T \in Seq(InputTokens), NEW D, Solves(T, D), NEW n \in Nat, Legal(T, D, n)
  PROVE  Legal(T, D, n + 1)
<1>1. \A x, i, j : Is(T, D, x, i, j) => i \in Int /\ j \in Int /\ i <= j /\ x \in Nonterminal
  BY PhraseSpan
<1>2. ASSUME NEW i, NEW j, NEW l, Is(T, D, "LogicEXP", i, j), j - i < n + 1, l \in i .. j
      PROVE  T[l].type # "INVALID"
  <2>1. T[i].type = "LSQRBRACK" /\ T[j].type = "RSQRBRACK" /\ Is(T, D, "LPs", i + 1, j - 1)
    BY <1>2, LogicRule
  <2>2. (j - 1) - (i + 1) < n /\ (l = i \/ l = j \/ l \in i + 1 .. j - 1)
    BY <1>1, <1>2
  <2>. QED
    BY <2>1, <2>2 DEF Legal
<1>3. ASSUME NEW x \in {"P", "LP"}, NEW i, NEW j, NEW l, Is(T, D, x, i, j), j - i < n + 1, l \in i .. j
      PROVE  T[l].type # "INVALID"
  <2>1. OfItsKind(T, D, x, i, j)
    BY <1>3, PartKind
  <2>2. CASE T[i].type \in Operand
    <3>1. l = i
      BY <1>1, <1>3, <2>1, <2>2 DEF OfItsKind
    <3>. QED
      BY <2>2, <3>1 DEF Operand
  <2>3. CASE T[i].type = "LPAREN"
    <3>1. T[j].type = "RPAREN" /\ Is(T, D, "Expression", i + 1, j - 1)
      BY <2>1, <2>3 DEF OfItsKind
    <3>2. (j - 1) - (i + 1) < n /\ (l = i \/ l = j \/ l \in i + 1 .. j - 1)
      BY <1>1, <1>3
    <3>. QED
      BY <2>3, <3>1, <3>2 DEF Legal
  <2>4. CASE T[i].type = "LSQRBRACK"
    <3>1. Is(T, D, "LogicEXP", i, j)
      BY <2>1, <2>4 DEF OfItsKind
    <3>. QED
      BY <1>2, <1>3, <3>1
  <2>5. CASE T[i].type = "OP"
    <3>1. Is(T, D, x, i + 1, j)
      BY <2>1, <2>5 DEF OfItsKind
    <3>2. j - (i + 1) < n /\ (l = i \/ l \in i + 1 .. j)
      BY <1>1, <1>3
    <3>. QED
      BY <2>5, <3>1, <3>2 DEF Legal
  <2>. QED
    BY <2>1, <2>2, <2>3, <2>4, <2>5 DEF OfItsKind, Opening
<1>4. ASSUME NEW y \in {"Expression", "LPs"}, NEW i, NEW j, NEW l,
             Is(T, D, y, i, j), j - i < n + 1, l \in i .. j
      PROVE  T[l].type # "INVALID"
  <2>1. PICK x \in {"P", "LP"} : x = PartOf(y)
    BY DEF PartOf
  <2>2. CASE Is(T, D, x, i, j)
    BY <1>3, <1>4, <2>2
  <2>3. ASSUME NEW k \in Int, i < k, k < j, T[k].value \in BinaryOf(y),
               Is(T, D, x, i, k - 1), Is(T, D, y, k + 1, j)
        PROVE  T[l].type # "INVALID"
    <3>1. /\ (k - 1) - i < n + 1 /\ j - (k + 1) < n
          /\ l \in i .. k - 1 \/ l = k \/ l \in k + 1 .. j
      BY <1>1, <1>4, <2>3
    <3>2. T[k].type # "INVALID"
      <4>1. k \in 1 .. Len(T)
        <5>1. 1 <= i /\ j <= Len(T) /\ i \in Int /\ j \in Int /\ Len(T) \in Int
          BY <1>4, PhraseSpan
        <5>. QED
          BY <2>3, <5>1
      <4>. QED
        BY <2>3, <4>1, OperatorTokens
    <3>3. CASE l \in i .. k - 1
      BY <1>3, <2>3, <3>1, <3>3
    <3>4. CASE l \in k + 1 .. j
      BY <2>3, <3>1, <3>4 DEF Legal
    <3>. QED
      BY <3>1, <3>2, <3>3, <3>4
  <2>. QED
    BY <1>4, <2>1, <2>2, <2>3, PartsRule
<1>. QED
  BY <1>1, <1>2, <1>3, <1>4 DEF Legal, Nonterminal

LEMMA OnlyTokens ==
  ASSUME NEW T \in Seq(InputTokens), NEW D, Solves(T, D), NEW x, NEW i, NEW j, NEW l \in i .. j,
         Is(T, D, x, i, j)
  PROVE  T[l].type # "INVALID"
<1>1. PICK N : N = {n \in Nat : Legal(T, D, n)}
  OBVIOUS
<1>2. 0 \in N
  <2>1. \A z, k, m : Is(T, D, z, k, m) => ~ (m - k < 0)
    BY PhraseSpan
  <2>. QED
    BY <1>1, <2>1 DEF Legal
<1>3. \A n \in Nat : n \in N => n + 1 \in N
  BY <1>1, LegalStep
<1>4. Nat \subseteq N
  BY <1>2, <1>3, NaturalInduction
<1>5. i \in Int /\ j \in Int /\ i <= j
  BY PhraseSpan
<1>6. PICK n \in Nat : n = (j - i) + 1
  BY <1>5
<1>7. Legal(T, D, n) /\ j - i < n
  BY <1>1, <1>4, <1>5, <1>6
<1>. QED
  BY <1>7 DEF Legal

----------------------------------------------------------------------------
(* What the activations have consumed, as phrases of the grammar. *)

(* How many tokens are consumed: the one read last is looked at, only. *)
Done == Len(read) - (IF next.type = "END" THEN 0 ELSE 1)

(* The tokens that have been read, and some that may follow. *)
Extends(T) ==
  /\ T \in Seq(InputTokens)
  /\ Len(read) <= Len(T) /\ \A i \in 1 .. Len(read) : T[i] = read[i]
  /\ next.type = "END" => Len(T) = Len(read)

(* All of the tokens are an expression. *)
Viable(T, D) == Is(T, D, "Expression", 1, Len(T))

(* An expression begins at a that ends where its procedure can go on. *)
Ends(T, D, a) ==
  \E j : Is(T, D, "Expression", a, j) /\ (j = Len(T) \/ T[j + 1].type = "RPAREN")

(* A y begins at b that is to be read as a z from m on. *)
Opened(T, D, z, m, y, b) ==
  /\ \A j : Is(T, D, z, m, j) => Is(T, D, y, b, j)
  /\ Viable(T, D) => Begins(T, D, z, m)

(* A sequence of parts from first on goes on at a with another part. *)
PartDue(T, D, y, first, a) ==
  a = first \/ (Is(T, D, y, first, a - 2) /\ T[a - 1].value \in BinaryOf(y))

(* The expression in front of c does not go on. *)
NoOperator(T, c) == c \in 1 .. Len(T) => T[c].value \notin BinaryOperator

(* The activation fr was called to read a y from b on and waits for        *)
(* another to read an x from a on.                                         *)
Waits(T, D, fr, y, b, x, a) ==
  \/ /\ fr.proc = "parse" /\ fr.pc = "end"
     /\ y = "Input" /\ x = "Expression" /\ b = 1 /\ a = 1
  \/ /\ fr.proc = "E" /\ fr.pc = "loop"
     /\ y = "Expression" /\ x = "P"
     /\ PartDue(T, D, y, b, a) /\ (Viable(T, D) => Ends(T, D, b))
  \/ /\ fr.proc = "LogicEXP" /\ fr.pc = "loop"
     /\ y \in {"P", "LP"} /\ x = "LP"
     /\ \E m \in Nat \ {0} :
          /\ Opened(T, D, "LogicEXP", m, y, b) /\ T[m].type = "LSQRBRACK"
          /\ PartDue(T, D, "LPs", m + 1, a)
  \/ /\ fr.proc \in {"P", "LP"} /\ fr.pc = "close"
     /\ y \in {"P", "LP"} /\ x = "Expression"
     /\ \E m \in Nat \ {0} :
          Opened(T, D, fr.proc, m, y, b) /\ T[m].type = "LPAREN" /\ a = m + 1

(* The activation fr was called to read a y from b on, and everything in   *)
(* front of c is consumed.                                                 *)
Reads(T, D, fr, y, b, c) ==
  \/ /\ fr.proc = "parse" /\ y = "Input" /\ b = 1
     /\ \/ fr.pc = "enter" /\ c = 1
        \/ fr.pc = "end" /\ Is(T, D, "Expression", 1, c - 1) /\ NoOperator(T, c)
  \/ /\ fr.proc = "E" /\ y = "Expression" /\ (Viable(T, D) => Ends(T, D, b))
     /\ \/ fr.pc = "enter" /\ c = b
        \/ fr.pc = "loop" /\ Is(T, D, "Expression", b, c - 1)
  \/ /\ fr.proc = "LogicEXP" /\ y \in {"P", "LP"}
     /\ \/ fr.pc = "enter" /\ Opened(T, D, "LogicEXP", c, y, b)
        \/ /\ fr.pc = "loop"
           /\ \E m \in Nat \ {0} :
                /\ Opened(T, D, "LogicEXP", m, y, b) /\ T[m].type = "LSQRBRACK"
                /\ Is(T, D, "LPs", m + 1, c - 1)
        \/ fr.pc = "drain" /\ Is(T, D, y, b, c - 1)
  \/ /\ fr.proc \in {"P", "LP"} /\ y \in {"P", "LP"}
     /\ \/ fr.pc = "enter" /\ Opened(T, D, fr.proc, c, y, b)
        \/ /\ fr.pc = "open"
           /\ \E m \in Nat \ {0} :
                Opened(T, D, fr.proc, m, y, b) /\ T[m].type = "LPAREN" /\ c = m + 1
        \/ /\ fr.pc = "close"
           /\ \E m \in Nat \ {0} :
                /\ Opened(T, D, fr.proc, m, y, b) /\ T[m].type = "LPAREN"
                /\ Is(T, D, "Expression", m + 1, c - 1) /\ NoOperator(T, c)
        \/ fr.pc = "closed" /\ Is(T, D, y, b, c - 1)

(* What an activation can be called to read. *)
Started == {"Input", "Expression", "P", "LP"}

(* The activations of s wait one for the next, the last of them for an x   *)
(* from a on.                                                              *)
Chained(T, D, s, x, a) ==
  \E what \in [1 .. Len(s) + 1 -> Started], from \in [1 .. Len(s) + 1 -> Nat \ {0}] :
    /\ what[1] = "Input" /\ from[1] = 1 /\ what[Len(s) + 1] = x /\ from[Len(s) + 1] = a
    /\ \A k \in 1 .. Len(s) : Waits(T, D, s[k], what[k], from[k], what[k + 1], from[k + 1])

(* The innermost activation and those that wait. *)
Reading(T, D, y, b) ==
  /\ y \in Started /\ b \in Nat \ {0}
  /\ Chained(T, D, Front(stack), y, b) /\ Reads(T, D, Last(stack), y, b, Done + 1)

(* What a call has consumed fits the input, and how it ends is right. *)
Progress(T, D) ==
  /\ status = "parsing" => \E y, b : Reading(T, D, y, b)
  /\ status = "returned" => Viable(T, D)
  /\ status = "threw" => ~ Viable(T, D)

(* Whatever tokens may follow. *)
GrammarInv == InputInv /\ \A T, D : Extends(T) /\ Solves(T, D) => Progress(T, D)

----------------------------------------------------------------------------
LEMMA ChainedEmpty ==
  ASSUME NEW T, NEW D
  PROVE  Chained(T, D, <<>>, "Input", 1)
<1>1. PICK what, from : what = [k \in 1 .. 1 |-> "Input"] /\ from = [k \in 1 .. 1 |-> 1]
  OBVIOUS
<1>2. /\ what \in [1 .. 0 + 1 -> Started] /\ from \in [1 .. 0 + 1 -> Nat \ {0}]
      /\ what[1] = "Input" /\ from[1] = 1
  BY <1>1 DEF Started
<1>3. \A k \in 1 .. 0 : FALSE
  OBVIOUS
<1>. QED
  BY <1>2, <1>3 DEF Chained

LEMMA ChainedAppend ==
  ASSUME NEW S, NEW s \in Seq(S), NEW fr \in S, NEW T, NEW D, NEW x, NEW a
  PROVE  Chained(T, D, Append(s, fr), x, a) <=>
           /\ x \in Started /\ a \in Nat \ {0}
           /\ \E y \in Started, b \in Nat \ {0} :
                Chained(T, D, s, y, b) /\ Waits(T, D, fr, y, b, x, a)
<1>1. PICK n, s2 : n = Len(s) /\ s2 = Append(s, fr)
  OBVIOUS
<1>2. n \in Nat /\ Len(s2) = n + 1 /\ s2[n + 1] = fr /\ \A k \in 1 .. n : s2[k] = s[k]
  BY <1>1
<1>3. ASSUME Chained(T, D, s2, x, a)
      PROVE  /\ x \in Started /\ a \in Nat \ {0}
             /\ \E y \in Started, b \in Nat \ {0} :
                  Chained(T, D, s, y, b) /\ Waits(T, D, fr, y, b, x, a)
  <2>1. PICK what \in [1 .. n + 2 -> Started], from \in [1 .. n + 2 -> Nat \ {0}] :
          /\ what[1] = "Input" /\ from[1] = 1 /\ what[n + 2] = x /\ from[n + 2] = a
          /\ \A k \in 1 .. n + 1 : Waits(T, D, s2[k], what[k], from[k], what[k + 1], from[k + 1])
    <3>1. Len(s2) = n + 1 /\ Len(s2) + 1 = n + 2
      BY <1>2
    <3>. QED
      BY <1>3, <3>1 DEF Chained
  <2>2. PICK w, f : w = [k \in 1 .. n + 1 |-> what[k]] /\ f = [k \in 1 .. n + 1 |-> from[k]]
    OBVIOUS
  <2>3. /\ w \in [1 .. n + 1 -> Started] /\ w[1] = "Input" /\ w[n + 1] = what[n + 1]
        /\ f \in [1 .. n + 1 -> Nat \ {0}] /\ f[1] = 1 /\ f[n + 1] = from[n + 1]
    BY <1>2, <2>1, <2>2
  <2>4. \A k \in 1 .. n : Waits(T, D, s[k], w[k], f[k], w[k + 1], f[k + 1])
    <3>. TAKE k \in 1 .. n
    <3>1. k \in 1 .. n + 1 /\ k + 1 \in 1 .. n + 1
      BY <1>2
    <3>2. Waits(T, D, s2[k], what[k], from[k], what[k + 1], from[k + 1])
      BY <2>1, <3>1
    <3>3. /\ s2[k] = s[k] /\ w[k] = what[k] /\ w[k + 1] = what[k + 1]
          /\ f[k] = from[k] /\ f[k + 1] = from[k + 1]
      BY <1>2, <2>2, <3>1
    <3>. QED
      BY <3>2, <3>3
  <2>5. Chained(T, D, s, what[n + 1], from[n + 1])
    BY <1>1, <2>3, <2>4 DEF Chained
  <2>6. n + 1 \in 1 .. n + 1 /\ (n + 1) + 1 = n + 2 /\ n + 1 \in 1 .. n + 2 /\ n + 2 \in 1 .. n + 2
    BY <1>2
  <2>7. Waits(T, D, fr, what[n + 1], from[n + 1], x, a)
    <3>1. Waits(T, D, s2[n + 1], what[n + 1], from[n + 1], what[(n + 1) + 1], from[(n + 1) + 1])
      BY <2>1, <2>6
    <3>. QED
      BY <1>2, <2>1, <2>6, <3>1
  <2>8. /\ what[n + 1] \in Started /\ from[n + 1] \in Nat \ {0}
        /\ what[n + 2] \in Started /\ from[n + 2] \in Nat \ {0}
    BY <2>1, <2>6
  <2>. QED
    BY <2>1, <2>5, <2>7, <2>8
<1>4. ASSUME x \in Started, a \in Nat \ {0}, NEW y \in Started, NEW b \in Nat \ {0},
             Chained(T, D, s, y, b), Waits(T, D, fr, y, b, x, a)
      PROVE  Chained(T, D, s2, x, a)
  <2>1. PICK what \in [1 .. n + 1 -> Started], from \in [1 .. n + 1 -> Nat \ {0}] :
          /\ what[1] = "Input" /\ from[1] = 1 /\ what[n + 1] = y /\ from[n + 1] = b
          /\ \A k \in 1 .. n : Waits(T, D, s[k], what[k], from[k], what[k + 1], from[k + 1])
    BY <1>1, <1>4 DEF Chained
  <2>2. PICK w, f : /\ w = [k \in 1 .. n + 2 |-> IF k = n + 2 THEN x ELSE what[k]]
                    /\ f = [k \in 1 .. n + 2 |-> IF k = n + 2 THEN a ELSE from[k]]
    OBVIOUS
  <2>3. /\ w \in [1 .. n + 2 -> Started] /\ w[1] = "Input" /\ w[n + 2] = x /\ w[n + 1] = y
        /\ f \in [1 .. n + 2 -> Nat \ {0}] /\ f[1] = 1 /\ f[n + 2] = a /\ f[n + 1] = b
    BY <1>2, <1>4, <2>1, <2>2
  <2>4. \A k \in 1 .. n + 1 : Waits(T, D, s2[k], w[k], f[k], w[k + 1], f[k + 1])
    <3>. TAKE k \in 1 .. n + 1
    <3>1. CASE k = n + 1
      <4>1. s2[k] = fr /\ w[k] = y /\ f[k] = b /\ w[k + 1] = x /\ f[k + 1] = a
        BY <1>2, <2>3, <3>1
      <4>. QED
        BY <1>4, <4>1
    <3>2. CASE k # n + 1
      <4>1. k \in 1 .. n /\ k # n + 2 /\ k + 1 # n + 2 /\ k \in 1 .. n + 2 /\ k + 1 \in 1 .. n + 2
        BY <1>2, <3>2
      <4>2. Waits(T, D, s[k], what[k], from[k], what[k + 1], from[k + 1])
        BY <2>1, <4>1
      <4>3. /\ s2[k] = s[k] /\ w[k] = what[k] /\ w[k + 1] = what[k + 1]
            /\ f[k] = from[k] /\ f[k + 1] = from[k + 1]
        BY <1>2, <2>2, <4>1
      <4>. QED
        BY <4>2, <4>3
    <3>. QED
      BY <3>1, <3>2
  <2>5. Len(s2) + 1 = n + 2 /\ Len(s2) = n + 1
    BY <1>2
  <2>. QED
    BY <2>3, <2>4, <2>5 DEF Chained
<1>. QED
  BY <1>1, <1>3, <1>4

----------------------------------------------------------------------------
(* Where a sequence of parts ends, if all tokens are an expression. *)

EndsAt(T, j) == j = Len(T) \/ T[j + 1].type \in Closing

LEMMA EndFound ==
  ASSUME NEW T \in Seq(InputTokens), NEW D, Solves(T, D), NEW y \in {"Expression", "LPs"},
         NEW i, NEW j, NEW c \in Nat, Is(T, D, y, i, c - 1), Is(T, D, y, i, j), EndsAt(T, j)
  PROVE  \/ j = c - 1
         \/ /\ c \in 1 .. Len(T) /\ T[c].value \in BinaryOf(y)
            /\ Begins(T, D, PartOf(y), c + 1)
<1>1. (c - 1) + 1 = c /\ (c - 1) + 2 = c + 1
  OBVIOUS
<1>2. \A l \in 1 .. Len(T) : T[l].type \in Closing => T[l].value \notin BinaryOf(y)
  BY OperatorTokens DEF Closing
<1>3. j \in Int /\ Len(T) \in Int
  BY PhraseSpan
<1>4. ~ Follows(T, D, y, j)
  BY <1>2, <1>3 DEF Follows, EndsAt
<1>5. j = c - 1 \/ Follows(T, D, y, c - 1)
  BY <1>4, Joined
<1>. QED
  BY <1>1, <1>5 DEF Follows

(* A parenthesis holds an expression, and LogicEXP parts. *)
LEMMA ParenthesisHolds ==
  ASSUME NEW T \in Seq(InputTokens), NEW D, Solves(T, D), NEW x \in {"P", "LP"}, NEW m \in Nat,
         Begins(T, D, x, m), T[m].type = "LPAREN"
  PROVE  Ends(T, D, m + 1)
<1>1. PICK j : Is(T, D, x, m, j)
  BY DEF Begins
<1>2. OfItsKind(T, D, x, m, j)
  BY <1>1, PartKind
<1>3. j \in Int
  BY <1>1, PhraseSpan
<1>4. Is(T, D, "Expression", m + 1, j - 1) /\ T[(j - 1) + 1].type = "RPAREN"
  BY <1>2, <1>3 DEF OfItsKind
<1>. QED
  BY <1>4 DEF Ends

LEMMA BracketHolds ==
  ASSUME NEW T \in Seq(InputTokens), NEW D, Solves(T, D), NEW m \in Nat,
         Begins(T, D, "LogicEXP", m)
  PROVE  \E j \in Int : /\ Is(T, D, "LPs", m + 1, j) /\ EndsAt(T, j)
                        /\ j + 1 \in 1 .. Len(T) /\ T[j + 1].type = "RSQRBRACK"
<1>1. PICK j : Is(T, D, "LogicEXP", m, j)
  BY DEF Begins
<1>2. j \in Int
  BY <1>1, PhraseSpan
<1>3. Is(T, D, "LPs", m + 1, j - 1) /\ T[(j - 1) + 1].type = "RSQRBRACK" /\ (j - 1) + 1 \in 1 .. Len(T)
  BY <1>1, <1>2, LogicRule
<1>. QED
  BY <1>2, <1>3 DEF EndsAt, Closing

LEMMA PartsBegin ==
  ASSUME NEW T \in Seq(InputTokens), NEW D, Solves(T, D), NEW y \in {"Expression", "LPs"},
         NEW i, NEW j, Is(T, D, y, i, j)
  PROVE  Begins(T, D, PartOf(y), i)
BY PartsRule DEF Begins

(* What the activation that waits has consumed once the other returns. *)
LEMMA ReturnedTo ==
  ASSUME NEW T \in Seq(InputTokens), NEW D, Solves(T, D), NEW fr, NEW y, NEW b \in Nat \ {0},
         NEW x, NEW a \in Nat \ {0}, NEW c \in Nat,
         Waits(T, D, fr, y, b, x, a), Is(T, D, x, a, c - 1), x = "Expression" => NoOperator(T, c)
  PROVE  Reads(T, D, fr, y, b, c)
<1>1. ASSUME NEW z \in {"Expression", "LPs"}, NEW first, PartDue(T, D, z, first, a), x = PartOf(z)
      PROVE  Is(T, D, z, first, c - 1)
  <2>1. CASE a = first
    BY <1>1, <2>1, PartsRule
  <2>2. CASE Is(T, D, z, first, a - 2) /\ T[a - 1].value \in BinaryOf(z)
    <3>1. PICK j : j = a - 2 /\ j + 1 = a - 1 /\ j + 2 = a
      OBVIOUS
    <3>. QED
      BY <1>1, <2>2, <3>1, OnePartMore
  <2>. QED
    BY <1>1, <2>1, <2>2 DEF PartDue
<1>2. CASE fr.proc = "parse" /\ fr.pc = "end"
  BY <1>2 DEF Waits, Reads
<1>3. CASE fr.proc = "E" /\ fr.pc = "loop"
  <2>1. /\ y = "Expression" /\ x = PartOf("Expression")
        /\ PartDue(T, D, "Expression", b, a) /\ (Viable(T, D) => Ends(T, D, b))
    BY <1>3 DEF Waits, PartOf
  <2>. QED
    BY <1>1, <1>3, <2>1 DEF Reads
<1>4. CASE fr.proc = "LogicEXP" /\ fr.pc = "loop"
  <2>1. y \in {"P", "LP"} /\ x = PartOf("LPs")
    BY <1>4 DEF Waits, PartOf
  <2>2. PICK m \in Nat \ {0} :
          /\ Opened(T, D, "LogicEXP", m, y, b) /\ T[m].type = "LSQRBRACK"
          /\ PartDue(T, D, "LPs", m + 1, a)
    BY <1>4 DEF Waits
  <2>. QED
    BY <1>1, <1>4, <2>1, <2>2 DEF Reads
<1>5. CASE fr.proc \in {"P", "LP"} /\ fr.pc = "close"
  <2>1. y \in {"P", "LP"} /\ x = "Expression"
    BY <1>5 DEF Waits
  <2>2. PICK m \in Nat \ {0} :
          Opened(T, D, fr.proc, m, y, b) /\ T[m].type = "LPAREN" /\ a = m + 1
    BY <1>5 DEF Waits
  <2>. QED
    BY <1>5, <2>1, <2>2 DEF Reads
<1>. QED
  BY <1>2, <1>3, <1>4, <1>5 DEF Waits

----------------------------------------------------------------------------
(* The token that is looked at, and what reading one does. *)
LEMMA DoneTyped ==
  ASSUME InputInv, status = "parsing"
  PROVE  /\ Len(read) \in Nat /\ Done \in Nat
         /\ next.type # "END" => Len(read) > 0 /\ Done + 1 = Len(read)
         /\ next.type = "END" => Done = Len(read)
<1>1. read \in Seq(InputTokens) /\ (next.type # "END" => read # <<>>)
  BY DEF InputInv, History
<1>2. Len(read) \in Nat /\ (next.type # "END" => Len(read) > 0)
  <2>1. read # <<>> => Len(read) # 0
    BY <1>1
  <2>. QED
    BY <1>1, <2>1
<1>. QED
  BY <1>2 DEF Done

LEMMA LookedAt ==
  ASSUME InputInv, status = "parsing", NEW T, Extends(T)
  PROVE  /\ T \in Seq(InputTokens) /\ Len(T) \in Nat /\ Done \in Nat /\ Done <= Len(T)
         /\ Done + 1 \in 1 .. Len(T) <=> next.type # "END"
         /\ Done + 1 \in 1 .. Len(T) => T[Done + 1] = next
         /\ next \in InputTokens \cup {NoTerm}
<1>1. /\ next \in InputTokens \cup {NoTerm}
      /\ next.type # "END" => read[Len(read)] = next
  BY DEF InputInv, History, ParserInv, ParserTypes
<1>2. /\ Len(read) \in Nat /\ Done \in Nat
      /\ next.type # "END" => Len(read) > 0 /\ Done + 1 = Len(read)
      /\ next.type = "END" => Done = Len(read)
  BY DoneTyped
<1>3. T \in Seq(InputTokens) /\ Len(T) \in Nat /\ Len(read) <= Len(T)
  BY DEF Extends
<1>4. CASE next.type = "END"
  BY <1>1, <1>2, <1>3, <1>4 DEF Extends
<1>5. CASE next.type # "END"
  <2>1. Len(read) \in 1 .. Len(read)
    BY <1>2, <1>5
  <2>2. T[Len(read)] = next
    BY <1>1, <1>5, <2>1 DEF Extends
  <2>. QED
    BY <1>1, <1>2, <1>3, <1>5, <2>2
<1>. QED
  BY <1>4, <1>5

LEMMA StaysLookedAt ==
  ASSUME UNCHANGED <<next, read>>
  PROVE  Done' = Done /\ \A T : Extends(T)' => Extends(T)
BY DEF Done, Extends

LEMMA ConsumesOne ==
  ASSUME InputInv, status = "parsing", consume, next.type # "END"
  PROVE  /\ Done \in Nat /\ Done' = Done + 1 /\ \A T : Extends(T)' => Extends(T)
<1>1. /\ next'.type # "END" => /\ Len(read') = Len(read) + 1
                              /\ \A i \in 1 .. Len(read) : read'[i] = read[i]
      /\ next'.type = "END" => read' = read
      /\ Len(read) \in Nat
  BY Consumed DEF InputInv
<1>2. Len(read) > 0 /\ Done \in Nat
  BY DoneTyped
<1>3. Done \in Nat /\ Done' = Done + 1
  BY <1>1, <1>2 DEF Done
<1>4. ASSUME NEW T, Extends(T)'
      PROVE  Extends(T)
  <2>1. T \in Seq(InputTokens) /\ Len(read') <= Len(T) /\ \A i \in 1 .. Len(read') : T[i] = read'[i]
    BY <1>4 DEF Extends
  <2>2. Len(T) \in Nat
    BY <2>1
  <2>3. Len(read) <= Len(T) /\ \A i \in 1 .. Len(read) : T[i] = read[i]
    BY <1>1, <2>1, <2>2
  <2>. QED
    BY <2>1, <2>3 DEF Extends
<1>. QED
  BY <1>3, <1>4

----------------------------------------------------------------------------
(* Steps, by what they do to the stack of activations. *)

(* The innermost activation goes on, or becomes another, as fr. *)
LEMMA ReplacedReads ==
  ASSUME GrammarInv, InputInv', status = "parsing", status' = "parsing",
         NEW fr \in Procedure, stack' = Append(Front(stack), fr),
         NEW c \in Nat \ {0}, c = Done' + 1, \A T : Extends(T)' => Extends(T),
         \A T, D, y, b : Extends(T) /\ Solves(T, D) /\ Reading(T, D, y, b)
                           => Reads(T, D, fr, y, b, c)
  PROVE  GrammarInv'
<1>1. Front(stack) \in Seq(Procedure)
  BY InnermostProcedure DEF GrammarInv, InputInv, ParserInv
<1>2. Front(stack') = Front(stack) /\ Last(stack') = fr
  BY <1>1, PushPop
<1>3. ASSUME NEW T, NEW D, Extends(T)', Solves(T, D)
      PROVE  Progress(T, D)'
  <2>1. Extends(T)
    BY <1>3
  <2>2. PICK y, b : Reading(T, D, y, b)
    BY <1>3, <2>1 DEF GrammarInv, Progress
  <2>3. Reading(T, D, y, b)'
    BY <1>2, <1>3, <2>1, <2>2 DEF Reading
  <2>. QED
    BY <2>3 DEF Progress
<1>. QED
  BY <1>3 DEF GrammarInv

(* The innermost activation waits, as fr, for the new one callee. *)
LEMMA CalledReads ==
  ASSUME GrammarInv, InputInv', status = "parsing", status' = "parsing",
         NEW fr \in Procedure, NEW callee \in Procedure, NEW x \in Started,
         stack' = Append(Append(Front(stack), fr), callee),
         NEW c \in Nat \ {0}, c = Done' + 1, \A T : Extends(T)' => Extends(T),
         \A T, D, y, b : Extends(T) /\ Solves(T, D) /\ Reading(T, D, y, b)
                           => /\ Waits(T, D, fr, y, b, x, c)
                              /\ Reads(T, D, callee, x, c, c)
  PROVE  GrammarInv'
<1>1. Front(stack) \in Seq(Procedure)
  BY InnermostProcedure DEF GrammarInv, InputInv, ParserInv
<1>2. PICK s : s = Append(Front(stack), fr)
  OBVIOUS
<1>3. s = Append(Front(stack), fr) /\ s \in Seq(Procedure)
  BY <1>2, <1>1
<1>4. Front(stack') = s /\ Last(stack') = callee
  BY <1>3, PushPop
<1>5. ASSUME NEW T, NEW D, Extends(T)', Solves(T, D)
      PROVE  Progress(T, D)'
  <2>1. Extends(T)
    BY <1>5
  <2>2. PICK y, b : Reading(T, D, y, b)
    BY <1>5, <2>1 DEF GrammarInv, Progress
  <2>3. /\ Waits(T, D, fr, y, b, x, c)
        /\ Reads(T, D, callee, x, c, c)
    BY <1>5, <2>1, <2>2
  <2>4. y \in Started /\ b \in Nat \ {0} /\ Chained(T, D, Front(stack), y, b)
    BY <2>2 DEF Reading
  <2>5. Chained(T, D, s, x, c)
    BY <1>1, <1>3, <2>3, <2>4, ChainedAppend
  <2>6. Reading(T, D, x, c)'
    BY <1>4, <2>3, <2>5 DEF Reading
  <2>. QED
    BY <2>6 DEF Progress
<1>. QED
  BY <1>5 DEF GrammarInv

(* The innermost activation returns. *)
LEMMA ReturnedReads ==
  ASSUME GrammarInv, InputInv', status = "parsing", status' = "parsing",
         Last(stack).proc # "parse", stack' = Front(stack),
         NEW c \in Nat \ {0}, c = Done' + 1, \A T : Extends(T)' => Extends(T),
         \A T, D, x, a : Extends(T) /\ Solves(T, D) /\ Reading(T, D, x, a)
                           => /\ Is(T, D, x, a, c - 1)
                              /\ x = "Expression" => NoOperator(T, c)
  PROVE  GrammarInv'
<1>1. PICK s : s = Front(stack)
  OBVIOUS
<1>2. s \in Seq(Procedure) /\ Len(s) = Len(stack) - 1 /\ Len(stack) \in Nat \ {0} /\ Len(stack) # 1
  BY <1>1, InnermostProcedure DEF GrammarInv, InputInv, ParserInv
<1>3. s # <<>>
  BY <1>2
<1>4. s = Append(Front(s), Last(s)) /\ Front(s) \in Seq(Procedure) /\ Last(s) \in Procedure
  BY <1>2, <1>3, PopPush, TopOfStack
<1>5. ASSUME NEW T, NEW D, Extends(T)', Solves(T, D)
      PROVE  Progress(T, D)'
  <2>1. Extends(T) /\ T \in Seq(InputTokens)
    BY <1>5 DEF Extends
  <2>2. PICK x, a : Reading(T, D, x, a)
    BY <1>5, <2>1 DEF GrammarInv, Progress
  <2>3. Is(T, D, x, a, c - 1) /\ (x = "Expression" => NoOperator(T, c))
    BY <1>5, <2>1, <2>2
  <2>4. x \in Started /\ a \in Nat \ {0} /\ Chained(T, D, Append(Front(s), Last(s)), x, a)
    BY <1>1, <1>4, <2>2 DEF Reading
  <2>5. PICK y \in Started, b \in Nat \ {0} :
          Chained(T, D, Front(s), y, b) /\ Waits(T, D, Last(s), y, b, x, a)
    BY <1>4, <2>4, ChainedAppend
  <2>6. Reads(T, D, Last(s), y, b, c)
    BY <1>5, <2>1, <2>3, <2>4, <2>5, ReturnedTo
  <2>7. Reading(T, D, y, b)'
    BY <1>1, <2>5, <2>6 DEF Reading
  <2>. QED
    BY <2>7 DEF Progress
<1>. QED
  BY <1>5 DEF GrammarInv

(* The innermost activation throws. *)
LEMMA ThrownReads ==
  ASSUME GrammarInv, InputInv', status = "parsing", Throw,
         \A T, D, y, b : Extends(T) /\ Solves(T, D) /\ Reading(T, D, y, b) => ~ Viable(T, D)
  PROVE  GrammarInv'
<1>1. status' = "threw" /\ UNCHANGED <<next, read>>
  BY DEF Throw
<1>2. \A T : Extends(T)' => Extends(T)
  BY <1>1, StaysLookedAt
<1>3. ASSUME NEW T, NEW D, Extends(T)', Solves(T, D)
      PROVE  Progress(T, D)'
  <2>1. PICK y, b : Reading(T, D, y, b)
    BY <1>2, <1>3 DEF GrammarInv, Progress
  <2>2. ~ Viable(T, D)
    BY <1>2, <1>3, <2>1
  <2>. QED
    BY <1>1, <2>2 DEF Progress
<1>. QED
  BY <1>3 DEF GrammarInv

----------------------------------------------------------------------------
(* The actions. *)

LEMMA StaysRead ==
  ASSUME GrammarInv, InputInv', UNCHANGED <<next, stack, status, read>>
  PROVE  GrammarInv'
<1>1. Done' = Done /\ \A T : Extends(T)' => Extends(T)
  BY StaysLookedAt
<1>2. ASSUME NEW T, NEW D, Extends(T)', Solves(T, D)
      PROVE  Progress(T, D)'
  <2>1. Progress(T, D)
    BY <1>1, <1>2 DEF GrammarInv
  <2>2. \A y, b : Reading(T, D, y, b) => Reading(T, D, y, b)'
    BY <1>1 DEF Reading
  <2>. QED
    BY <2>1, <2>2 DEF Progress
<1>. QED
  BY <1>2 DEF GrammarInv

LEMMA ParseReads ==
  ASSUME InputInv', parse
  PROVE  GrammarInv'
<1>1. PICK t \in InputTokens \cup {NoTerm} :
        next' = t /\ read' = IF t.type = "END" THEN <<>> ELSE Append(<<>>, t)
  BY DEF parse, Lex, NoTerm
<1>2. Done' = 0
  BY <1>1 DEF Done
<1>3. PICK fr : fr = [proc |-> "parse", pc |-> "enter"]
  OBVIOUS
<1>4. fr \in Procedure /\ <<>> \in Seq(Procedure) /\ stack' = Append(<<>>, fr)
  BY <1>3 DEF parse, Activation, Procedure
<1>5. Front(stack') = <<>> /\ Last(stack') = fr
  BY <1>4, PushPop
<1>6. ASSUME NEW T, NEW D
      PROVE  Progress(T, D)'
  <2>1. Reads(T, D, fr, "Input", 1, 1)
    BY <1>3 DEF Reads
  <2>2. Reading(T, D, "Input", 1)'
    BY <1>2, <1>5, <2>1, ChainedEmpty DEF Reading, Started
  <2>. QED
    BY <2>2 DEF Progress, parse
<1>. QED
  BY <1>6 DEF GrammarInv

LEMMA ParseExpressionReads ==
  ASSUME GrammarInv, InputInv', ParseExpression
  PROVE  GrammarInv'
<1>1. /\ At({"parse"}, "enter") /\ Call("end", "E") /\ UNCHANGED <<next, read, status>>
      /\ ParserTypes /\ ParseOutermost /\ InputInv
  BY DEF ParseExpression, GrammarInv, InputInv, ParserInv
<1>2. status = "parsing" /\ Last(stack).proc = "parse" /\ Last(stack).pc = "enter"
  BY <1>1 DEF At
<1>3. PICK fr, callee : /\ fr = [proc |-> Last(stack).proc, pc |-> "end"]
                        /\ callee = [proc |-> "E", pc |-> "enter"]
  OBVIOUS
<1>4. fr \in Procedure /\ callee \in Procedure
  BY <1>2, <1>3 DEF Procedure
<1>5. stack' = Append(Append(Front(stack), fr), callee)
  BY <1>1, <1>3, Continued DEF Activation
<1>6. Done' = Done /\ \A T : Extends(T)' => Extends(T)
  BY <1>1, StaysLookedAt
<1>7. PICK c \in Nat \ {0} : c = Done + 1
  BY <1>1, <1>2, DoneTyped
<1>8. ASSUME NEW T, NEW D, NEW y, NEW b, Extends(T), Solves(T, D), Reading(T, D, y, b)
      PROVE  Waits(T, D, fr, y, b, "Expression", c) /\ Reads(T, D, callee, "Expression", c, c)
  <2>1. Reads(T, D, Last(stack), y, b, c)
    BY <1>7, <1>8 DEF Reading
  <2>2. y = "Input" /\ b = 1 /\ c = 1
    BY <1>2, <2>1 DEF Reads
  <2>3. Viable(T, D) => Ends(T, D, 1)
    BY DEF Viable, Ends
  <2>. QED
    BY <1>2, <1>3, <2>2, <2>3 DEF Waits, Reads
<1>. QED
  BY <1>1, <1>2, <1>4, <1>5, <1>6, <1>7, <1>8, CalledReads DEF Started

LEMMA ParseReturnsReads ==
  ASSUME GrammarInv, InputInv', ParseReturns
  PROVE  GrammarInv'
<1>1. /\ status = "parsing" /\ Last(stack).proc = "parse" /\ Last(stack).pc = "end"
      /\ next.type = "END" /\ status' = "returned" /\ UNCHANGED <<next, read>>
  BY DEF ParseReturns, At
<1>2. \A T : Extends(T)' => Extends(T)
  BY <1>1, StaysLookedAt
<1>3. ASSUME NEW T, NEW D, Extends(T)', Solves(T, D)
      PROVE  Progress(T, D)'
  <2>1. PICK y, b : Reads(T, D, Last(stack), y, b, Done + 1)
    BY <1>1, <1>2, <1>3 DEF GrammarInv, Progress, Reading
  <2>2. Is(T, D, "Expression", 1, (Done + 1) - 1)
    BY <1>1, <2>1 DEF Reads
  <2>3. Done \in Nat /\ Len(T) \in Nat /\ Done <= Len(T) /\ Done + 1 \notin 1 .. Len(T)
    BY <1>1, <1>2, <1>3, LookedAt DEF GrammarInv
  <2>4. (Done + 1) - 1 = Len(T)
    BY <2>3
  <2>. QED
    BY <1>1, <2>2, <2>4 DEF Progress, Viable
<1>. QED
  BY <1>3 DEF GrammarInv

LEMMA EnterEReads ==
  ASSUME GrammarInv, InputInv', EnterE
  PROVE  GrammarInv'
<1>1. /\ At({"E"}, "enter") /\ UNCHANGED <<next, read, status>>
      /\ ParserTypes /\ ParseOutermost /\ InputInv
  BY DEF EnterE, GrammarInv, InputInv, ParserInv
<1>2. status = "parsing" /\ Last(stack).proc = "E" /\ Last(stack).pc = "enter"
  BY <1>1 DEF At
<1>3. PICK proc : proc = IF next.type = "LSQRBRACK" THEN "LogicEXP" ELSE "P"
  OBVIOUS
<1>4. PICK fr, callee : /\ fr = [proc |-> Last(stack).proc, pc |-> "loop"]
                        /\ callee = [proc |-> proc, pc |-> "enter"]
  OBVIOUS
<1>5. fr \in Procedure /\ callee \in Procedure
  BY <1>2, <1>3, <1>4 DEF Procedure
<1>6. stack' = Append(Append(Front(stack), fr), callee)
  BY <1>1, <1>3, <1>4, Continued DEF Activation, EnterE
<1>7. Done' = Done /\ \A T : Extends(T)' => Extends(T)
  BY <1>1, StaysLookedAt
<1>8. PICK c \in Nat \ {0} : c = Done + 1
  BY <1>1, <1>2, DoneTyped
<1>9. ASSUME NEW T, NEW D, NEW y, NEW b, Extends(T), Solves(T, D), Reading(T, D, y, b)
      PROVE  Waits(T, D, fr, y, b, "P", c) /\ Reads(T, D, callee, "P", c, c)
  <2>1. Reads(T, D, Last(stack), y, b, c) /\ b \in Nat \ {0}
    BY <1>8, <1>9 DEF Reading
  <2>2. y = "Expression" /\ b = c /\ (Viable(T, D) => Ends(T, D, c))
    BY <1>2, <2>1 DEF Reads
  <2>3. Waits(T, D, fr, y, b, "P", c)
    BY <1>2, <1>4, <2>2 DEF Waits, PartDue
  <2>4. T \in Seq(InputTokens) /\ (next.type # "END" => T[c] = next /\ c \in 1 .. Len(T))
    BY <1>1, <1>2, <1>8, <1>9, LookedAt
  <2>5. Viable(T, D) => Begins(T, D, "P", c)
    BY <1>9, <2>2, <2>4, PartsBegin DEF Ends, PartOf
  <2>6. CASE next.type = "LSQRBRACK"
    <3>1. T[c].type = "LSQRBRACK" /\ c \in 1 .. Len(T)
      BY <2>4, <2>6
    <3>2. \A j : Is(T, D, "P", c, j) <=> Is(T, D, "LogicEXP", c, j)
      <4>1. \A j : Is(T, D, "P", c, j) => Is(T, D, "LogicEXP", c, j)
        BY <1>9, <2>4, <3>1, PartKind DEF OfItsKind
      <4>2. \A j : Is(T, D, "LogicEXP", c, j) => Is(T, D, "P", c, j)
        <5>1. \A j : Is(T, D, "LogicEXP", c, j) => j \in 1 .. Len(T)
          BY <1>9, <2>4, PhraseSpan
        <5>. QED
          BY <1>9, <2>4, <3>1, <5>1, PartRule
      <4>. QED
        BY <4>1, <4>2
    <3>3. Opened(T, D, "LogicEXP", c, "P", c)
      BY <2>5, <3>2 DEF Opened, Begins
    <3>. QED
      BY <1>3, <1>4, <2>1, <2>2, <2>3, <2>6, <3>3 DEF Reads
  <2>7. CASE next.type # "LSQRBRACK"
    <3>1. Opened(T, D, "P", c, "P", c)
      BY <2>5 DEF Opened
    <3>. QED
      BY <1>3, <1>4, <2>1, <2>2, <2>3, <2>7, <3>1 DEF Reads
  <2>. QED
    BY <2>6, <2>7
<1>. QED
  BY <1>1, <1>2, <1>5, <1>6, <1>7, <1>8, <1>9, CalledReads DEF Started

(* An operator between two parts: E and LogicEXP wait for another part. *)
LEMMA PushBinaryReads ==
  ASSUME GrammarInv, InputInv', pushOperator, Last(stack).proc \in {"E", "LogicEXP"}
  PROVE  GrammarInv'
<1>1. /\ InputInv /\ ParserInv /\ ParserTypes /\ ParseOutermost /\ Pushing /\ consume /\ status' = status
  BY DEF GrammarInv, InputInv, ParserInv, pushOperator
<1>2. PICK proc \in {"E", "LogicEXP"}, y0 \in {"Expression", "LPs"}, x \in {"P", "LP"} :
        /\ Last(stack).proc = proc /\ x = PartOf(y0) /\ (proc = "E" <=> y0 = "Expression")
        /\ At({proc}, "loop") /\ Call("loop", x) /\ next.value \in BinaryOf(y0)
  BY <1>1 DEF pushOperator, Pushing, At, PartOf, BinaryOf
<1>3. status = "parsing" /\ Last(stack).proc = proc /\ Last(stack).pc = "loop"
  BY <1>2 DEF At
<1>4. next.type # "END"
  <2>1. next \in OperatorToken
    BY <1>1, PendingIs
  <2>. QED
    BY <2>1 DEF OperatorToken
<1>5. PICK fr, callee : /\ fr = [proc |-> proc, pc |-> "loop"]
                        /\ callee = [proc |-> x, pc |-> "enter"]
  OBVIOUS
<1>6. fr \in Procedure /\ callee \in Procedure
  BY <1>2, <1>5 DEF Procedure
<1>7. stack' = Append(Append(Front(stack), fr), callee)
  BY <1>1, <1>2, <1>5, Continued DEF Activation
<1>8. Done \in Nat /\ Done' = Done + 1 /\ \A T : Extends(T)' => Extends(T)
  BY <1>1, <1>3, <1>4, ConsumesOne
<1>9. PICK c \in Nat \ {0} : c = Done + 1
  BY <1>8
<1>10. PICK e \in Nat \ {0} : e = c + 1 /\ e - 2 = c - 1 /\ e - 1 = c /\ e = Done' + 1
  BY <1>8, <1>9
<1>11. ASSUME NEW T, NEW D, NEW y, NEW b, Extends(T), Solves(T, D), Reading(T, D, y, b)
       PROVE  Waits(T, D, fr, y, b, x, e) /\ Reads(T, D, callee, x, e, e)
  <2>1. Reads(T, D, Last(stack), y, b, c) /\ b \in Nat \ {0}
    BY <1>9, <1>11 DEF Reading
  <2>2. T \in Seq(InputTokens) /\ c \in 1 .. Len(T) /\ T[c].value \in BinaryOf(y0)
    BY <1>1, <1>2, <1>3, <1>4, <1>9, <1>11, LookedAt
  <2>3. ASSUME NEW first, Is(T, D, y0, first, c - 1),
               Viable(T, D) => \E j : Is(T, D, y0, first, j) /\ EndsAt(T, j)
        PROVE  PartDue(T, D, y0, first, e) /\ Reads(T, D, callee, x, e, e)
    <3>1. PartDue(T, D, y0, first, e)
      BY <1>10, <2>2, <2>3 DEF PartDue
    <3>2. Viable(T, D) => Begins(T, D, x, e)
      <4>1. ASSUME NEW j, Is(T, D, y0, first, j), EndsAt(T, j)
            PROVE  Begins(T, D, x, e)
        <5>1. CASE j = c - 1
          <6>1. j + 1 = c /\ j # Len(T) /\ T[c] \in InputTokens
            BY <2>2, <5>1
          <6>2. T[c].type \in Closing
            BY <4>1, <6>1 DEF EndsAt
          <6>3. T[c].value \notin BinaryOf(y0)
            BY <6>1, <6>2, OperatorTokens DEF Closing
          <6>. QED
            BY <2>2, <6>3
        <5>2. CASE j # c - 1
          BY <1>2, <1>10, <1>11, <2>2, <2>3, <4>1, <5>2, EndFound
        <5>. QED
          BY <5>1, <5>2
      <4>. QED
        BY <2>3, <4>1
    <3>3. Opened(T, D, x, e, x, e)
      BY <3>2 DEF Opened
    <3>. QED
      BY <1>2, <1>5, <3>1, <3>3 DEF Reads
  <2>4. CASE proc = "E"
    <3>1. y = "Expression" /\ Is(T, D, "Expression", b, c - 1) /\ (Viable(T, D) => Ends(T, D, b))
      BY <1>3, <2>1, <2>4 DEF Reads
    <3>2. Viable(T, D) => \E j : Is(T, D, "Expression", b, j) /\ EndsAt(T, j)
      BY <3>1 DEF Ends, EndsAt, Closing
    <3>3. PartDue(T, D, y0, b, e) /\ Reads(T, D, callee, x, e, e)
      BY <1>2, <2>3, <2>4, <3>1, <3>2
    <3>. QED
      BY <1>2, <1>5, <2>4, <3>1, <3>3 DEF Waits, PartOf
  <2>5. CASE proc = "LogicEXP"
    <3>1. PICK m \in Nat \ {0} :
            /\ y \in {"P", "LP"} /\ Opened(T, D, "LogicEXP", m, y, b) /\ T[m].type = "LSQRBRACK"
            /\ Is(T, D, "LPs", m + 1, c - 1)
      BY <1>3, <2>1, <2>5 DEF Reads
    <3>2. Viable(T, D) => \E j : Is(T, D, "LPs", m + 1, j) /\ EndsAt(T, j)
      BY <1>11, <2>2, <3>1, BracketHolds DEF Opened
    <3>3. y0 = "LPs" /\ x = "LP"
      BY <1>2, <2>5 DEF PartOf
    <3>4. PartDue(T, D, "LPs", m + 1, e) /\ Reads(T, D, callee, x, e, e)
      BY <2>3, <3>1, <3>2, <3>3
    <3>. QED
      BY <1>5, <2>5, <3>1, <3>3, <3>4 DEF Waits
  <2>. QED
    BY <2>4, <2>5
<1>. QED
  BY <1>1, <1>3, <1>6, <1>7, <1>8, <1>10, <1>11, CalledReads DEF Started

(* An operator in front of a part. *)
LEMMA PushUnaryReads ==
  ASSUME GrammarInv, InputInv', pushOperator, Last(stack).proc \in {"P", "LP"}
  PROVE  GrammarInv'
<1>1. /\ InputInv /\ ParserInv /\ ParserTypes /\ ParseOutermost /\ Pushing /\ consume /\ status' = status
      /\ stack' = stack
  BY DEF GrammarInv, InputInv, ParserInv, pushOperator
<1>2. PICK x \in {"P", "LP"} :
        Last(stack).proc = x /\ At({x}, "enter") /\ next.value \in UnaryOf(x)
  BY <1>1 DEF Pushing, At, UnaryOf
<1>3. status = "parsing" /\ Last(stack).proc = x /\ Last(stack).pc = "enter"
  BY <1>2 DEF At
<1>4. next.type # "END"
  <2>1. next \in OperatorToken
    BY <1>1, PendingIs
  <2>. QED
    BY <2>1 DEF OperatorToken
<1>5. PICK fr : fr = Last(stack)
  OBVIOUS
<1>6. fr \in Procedure /\ stack' = Append(Front(stack), fr)
  <2>1. stack \in Seq(Procedure) /\ stack # <<>>
    BY <1>1, <1>3 DEF ParserTypes, ParseOutermost
  <2>. QED
    BY <1>1, <1>5, <2>1, PopPush, TopOfStack
<1>7. Done \in Nat /\ Done' = Done + 1 /\ \A T : Extends(T)' => Extends(T)
  BY <1>1, <1>3, <1>4, ConsumesOne
<1>8. PICK c \in Nat \ {0} : c = Done + 1
  BY <1>7
<1>9. PICK e \in Nat \ {0} : e = c + 1 /\ e = Done' + 1
  BY <1>7, <1>8
<1>10. ASSUME NEW T, NEW D, NEW y, NEW b, Extends(T), Solves(T, D), Reading(T, D, y, b)
       PROVE  Reads(T, D, fr, y, b, e)
  <2>1. Reads(T, D, Last(stack), y, b, c)
    BY <1>8, <1>10 DEF Reading
  <2>2. T \in Seq(InputTokens) /\ c \in 1 .. Len(T) /\ T[c].value \in UnaryOf(x)
    BY <1>1, <1>2, <1>3, <1>4, <1>8, <1>10, LookedAt
  <2>3. y \in {"P", "LP"} /\ Opened(T, D, x, c, y, b)
    BY <1>2, <1>3, <2>1 DEF Reads
  <2>4. T[c].type = "OP"
    <3>1. T[c] \in InputTokens
      BY <2>2
    <3>. QED
      BY <2>2, <3>1, OperatorTokens
  <2>5. ASSUME NEW j, Is(T, D, x, e, j)
        PROVE  Is(T, D, x, c, j)
    <3>1. j \in 1 .. Len(T)
      BY <1>10, <2>2, <2>5, PhraseSpan
    <3>2. Is(T, D, x, c + 1, j)
      BY <1>9, <2>5
    <3>. QED
      BY <1>10, <2>2, <3>1, <3>2, PartRule
  <2>6. ASSUME NEW j, Is(T, D, x, c, j)
        PROVE  Is(T, D, x, e, j)
    <3>1. OfItsKind(T, D, x, c, j)
      BY <1>10, <2>2, <2>6, PartKind
    <3>2. Is(T, D, x, c + 1, j)
      BY <2>4, <3>1 DEF OfItsKind
    <3>. QED
      BY <1>9, <3>2
  <2>7. Opened(T, D, x, e, y, b)
    BY <2>3, <2>5, <2>6 DEF Opened, Begins
  <2>. QED
    BY <1>2, <1>3, <1>5, <2>3, <2>7 DEF Reads
<1>. QED
  BY <1>1, <1>3, <1>6, <1>7, <1>9, <1>10, ReplacedReads

LEMMA LeaveEReads ==
  ASSUME GrammarInv, InputInv', LeaveE
  PROVE  GrammarInv'
<1>1. /\ InputInv /\ UNCHANGED <<next, read, status>> /\ stack' = Front(stack)
      /\ At({"E"}, "loop") /\ next.value \notin BinaryOperator
  BY DEF GrammarInv, LeaveE, Draining, Return, At
<1>2. status = "parsing" /\ Last(stack).proc = "E" /\ Last(stack).pc = "loop"
  BY <1>1 DEF At
<1>3. Done' = Done /\ \A T : Extends(T)' => Extends(T)
  BY <1>1, StaysLookedAt
<1>4. PICK c \in Nat \ {0} : c = Done + 1
  BY <1>1, <1>2, DoneTyped
<1>5. ASSUME NEW T, NEW D, NEW y, NEW b, Extends(T), Solves(T, D), Reading(T, D, y, b)
      PROVE  Is(T, D, y, b, c - 1) /\ NoOperator(T, c)
  <2>1. Reads(T, D, Last(stack), y, b, c)
    BY <1>4, <1>5 DEF Reading
  <2>2. y = "Expression" /\ Is(T, D, "Expression", b, c - 1)
    BY <1>2, <2>1 DEF Reads
  <2>3. NoOperator(T, c)
    BY <1>1, <1>2, <1>4, <1>5, LookedAt DEF NoOperator
  <2>. QED
    BY <2>2, <2>3
<1>. QED
  BY <1>1, <1>2, <1>3, <1>4, <1>5, ReturnedReads

LEMMA EnterLogicEXPReads ==
  ASSUME GrammarInv, InputInv', EnterLogicEXP
  PROVE  GrammarInv'
<1>1. /\ At({"LogicEXP"}, "enter") /\ consume /\ Call("loop", "LP") /\ status' = status
      /\ ParserTypes /\ ParseOutermost /\ InputInv
  BY DEF EnterLogicEXP, GrammarInv, InputInv, ParserInv
<1>2. status = "parsing" /\ Last(stack).proc = "LogicEXP" /\ Last(stack).pc = "enter"
  BY <1>1 DEF At
<1>3. next.type = "LSQRBRACK"
  BY <1>1, <1>2 DEF InputInv, History, AtEnter
<1>4. PICK fr, callee : /\ fr = [proc |-> Last(stack).proc, pc |-> "loop"]
                        /\ callee = [proc |-> "LP", pc |-> "enter"]
  OBVIOUS
<1>5. fr \in Procedure /\ callee \in Procedure
  BY <1>2, <1>4 DEF Procedure
<1>6. stack' = Append(Append(Front(stack), fr), callee)
  BY <1>1, <1>4, Continued DEF Activation
<1>7. Done \in Nat /\ Done' = Done + 1 /\ \A T : Extends(T)' => Extends(T)
  BY <1>1, <1>2, <1>3, ConsumesOne
<1>8. PICK c \in Nat \ {0} : c = Done + 1
  BY <1>7
<1>9. PICK e \in Nat \ {0} : e = c + 1 /\ e = Done' + 1
  BY <1>7, <1>8
<1>10. ASSUME NEW T, NEW D, NEW y, NEW b, Extends(T), Solves(T, D), Reading(T, D, y, b)
       PROVE  Waits(T, D, fr, y, b, "LP", e) /\ Reads(T, D, callee, "LP", e, e)
  <2>1. Reads(T, D, Last(stack), y, b, c)
    BY <1>8, <1>10 DEF Reading
  <2>2. T \in Seq(InputTokens) /\ T[c].type = "LSQRBRACK"
    BY <1>1, <1>2, <1>3, <1>8, <1>10, LookedAt
  <2>3. y \in {"P", "LP"} /\ Opened(T, D, "LogicEXP", c, y, b)
    BY <1>2, <2>1 DEF Reads
  <2>4. Waits(T, D, fr, y, b, "LP", e)
    BY <1>2, <1>4, <1>9, <2>2, <2>3 DEF Waits, PartDue
  <2>5. Viable(T, D) => Begins(T, D, "LP", e)
    <3>1. Viable(T, D) => \E j : Is(T, D, "LPs", e, j)
      BY <1>9, <1>10, <2>2, <2>3, BracketHolds DEF Opened
    <3>2. PartOf("LPs") = "LP"
      BY DEF PartOf
    <3>. QED
      BY <1>10, <2>2, <3>1, <3>2, PartsBegin
  <2>6. Opened(T, D, "LP", e, "LP", e)
    BY <2>5 DEF Opened
  <2>. QED
    BY <1>4, <2>4, <2>6 DEF Reads
<1>. QED
  BY <1>1, <1>2, <1>5, <1>6, <1>7, <1>9, <1>10, CalledReads DEF Started

LEMMA CloseLogicEXPReads ==
  ASSUME GrammarInv, InputInv', CloseLogicEXP
  PROVE  GrammarInv'
<1>1. /\ At({"LogicEXP"}, "loop") /\ consume /\ Goto("drain") /\ status' = status
      /\ next.type = "RSQRBRACK" /\ ParserTypes /\ ParseOutermost /\ InputInv
  BY DEF CloseLogicEXP, GrammarInv, InputInv, ParserInv
<1>2. status = "parsing" /\ Last(stack).proc = "LogicEXP" /\ Last(stack).pc = "loop"
  BY <1>1 DEF At
<1>3. PICK fr : fr = [proc |-> Last(stack).proc, pc |-> "drain"]
  OBVIOUS
<1>4. fr \in Procedure /\ stack' = Append(Front(stack), fr)
  BY <1>1, <1>2, <1>3, Continued DEF Procedure
<1>5. Done \in Nat /\ Done' = Done + 1 /\ \A T : Extends(T)' => Extends(T)
  BY <1>1, <1>2, ConsumesOne
<1>6. PICK c \in Nat \ {0} : c = Done + 1
  BY <1>5
<1>7. PICK e \in Nat \ {0} : e = c + 1 /\ e - 1 = c /\ e = Done' + 1
  BY <1>5, <1>6
<1>8. ASSUME NEW T, NEW D, NEW y, NEW b, Extends(T), Solves(T, D), Reading(T, D, y, b)
      PROVE  Reads(T, D, fr, y, b, e)
  <2>1. Reads(T, D, Last(stack), y, b, c)
    BY <1>6, <1>8 DEF Reading
  <2>2. T \in Seq(InputTokens) /\ c \in 1 .. Len(T) /\ T[c].type = "RSQRBRACK"
    BY <1>1, <1>2, <1>6, <1>8, LookedAt
  <2>3. PICK m \in Nat \ {0} :
          /\ y \in {"P", "LP"} /\ Opened(T, D, "LogicEXP", m, y, b) /\ T[m].type = "LSQRBRACK"
          /\ Is(T, D, "LPs", m + 1, c - 1)
    BY <1>2, <2>1 DEF Reads
  <2>4. m \in 1 .. Len(T)
    <3>1. m + 1 <= Len(T) /\ Len(T) \in Nat
      BY <1>8, <2>2, <2>3, PhraseSpan
    <3>. QED
      BY <3>1
  <2>5. Is(T, D, "LogicEXP", m, c)
    BY <1>8, <2>2, <2>3, <2>4, LogicRule
  <2>6. Is(T, D, y, b, c)
    BY <2>3, <2>5 DEF Opened
  <2>. QED
    BY <1>2, <1>3, <1>7, <2>3, <2>6 DEF Reads
<1>. QED
  BY <1>1, <1>2, <1>4, <1>5, <1>7, <1>8, ReplacedReads

LEMMA LeaveLogicEXPReads ==
  ASSUME GrammarInv, InputInv', LeaveLogicEXP \/ LeaveParenthesis
  PROVE  GrammarInv'
<1>1. \/ At({"LogicEXP"}, "drain")
      \/ At({"P", "LP"}, "closed")
  <2>1. CASE LeaveLogicEXP
    <3>1. Last(stack).proc = "LogicEXP" /\ (At({"E"}, "loop") \/ At({"LogicEXP"}, "drain"))
      BY <2>1 DEF LeaveLogicEXP, Draining
    <3>. QED
      BY <3>1 DEF At
  <2>2. CASE LeaveParenthesis
    BY <2>2 DEF LeaveParenthesis
  <2>. QED
    BY <2>1, <2>2
<1>2. InputInv /\ UNCHANGED <<next, read, status>> /\ stack' = Front(stack)
  BY DEF GrammarInv, LeaveLogicEXP, LeaveParenthesis, Return
<1>3. /\ status = "parsing"
      /\ \/ Last(stack).proc = "LogicEXP" /\ Last(stack).pc = "drain"
         \/ Last(stack).proc \in {"P", "LP"} /\ Last(stack).pc = "closed"
  BY <1>1 DEF At
<1>4. Done' = Done /\ \A T : Extends(T)' => Extends(T)
  BY <1>2, StaysLookedAt
<1>5. PICK c \in Nat \ {0} : c = Done + 1
  BY <1>2, <1>3, DoneTyped
<1>6. ASSUME NEW T, NEW D, NEW y, NEW b, Extends(T), Solves(T, D), Reading(T, D, y, b)
      PROVE  y # "Expression" /\ Is(T, D, y, b, c - 1)
  <2>1. Reads(T, D, Last(stack), y, b, c)
    BY <1>5, <1>6 DEF Reading
  <2>. QED
    BY <1>3, <2>1 DEF Reads
<1>. QED
  BY <1>2, <1>3, <1>4, <1>5, <1>6, ReturnedReads

(* The alternatives of P and LP. *)
LEMMA ReadOperandReads ==
  ASSUME GrammarInv, InputInv', ReadOperand
  PROVE  GrammarInv'
<1>1. /\ At({"P", "LP"}, "enter") /\ consume /\ stack' = Front(stack) /\ status' = status
      /\ next.type \in Operand /\ InputInv
  BY DEF ReadOperand, Return, GrammarInv
<1>2. status = "parsing" /\ Last(stack).proc \in {"P", "LP"} /\ Last(stack).pc = "enter"
  BY <1>1 DEF At
<1>3. next.type # "END"
  BY <1>1 DEF Operand
<1>4. Done \in Nat /\ Done' = Done + 1 /\ \A T : Extends(T)' => Extends(T)
  BY <1>1, <1>2, <1>3, ConsumesOne
<1>5. PICK c \in Nat \ {0} : c = Done + 1
  BY <1>4
<1>6. PICK e \in Nat \ {0} : e = c + 1 /\ e - 1 = c /\ e = Done' + 1
  BY <1>4, <1>5
<1>7. ASSUME NEW T, NEW D, NEW y, NEW b, Extends(T), Solves(T, D), Reading(T, D, y, b)
      PROVE  y # "Expression" /\ Is(T, D, y, b, e - 1)
  <2>1. Reads(T, D, Last(stack), y, b, c)
    BY <1>5, <1>7 DEF Reading
  <2>2. T \in Seq(InputTokens) /\ c \in 1 .. Len(T) /\ T[c].type \in Operand
    BY <1>1, <1>2, <1>3, <1>5, <1>7, LookedAt
  <2>3. PICK x \in {"P", "LP"} : x = Last(stack).proc
    BY <1>2
  <2>4. y \in {"P", "LP"} /\ Opened(T, D, x, c, y, b)
    BY <1>2, <2>1, <2>3 DEF Reads
  <2>5. Is(T, D, x, c, c)
    BY <1>7, <2>2, PartRule
  <2>. QED
    BY <1>6, <2>4, <2>5 DEF Opened
<1>. QED
  BY <1>1, <1>2, <1>4, <1>6, <1>7, ReturnedReads

LEMMA OpenParenthesisReads ==
  ASSUME GrammarInv, InputInv', OpenParenthesis
  PROVE  GrammarInv'
<1>1. /\ At({"P", "LP"}, "enter") /\ consume /\ Goto("open") /\ status' = status
      /\ next.type = "LPAREN" /\ ParserTypes /\ ParseOutermost /\ InputInv
  BY DEF OpenParenthesis, GrammarInv, InputInv, ParserInv
<1>2. status = "parsing" /\ Last(stack).proc \in {"P", "LP"} /\ Last(stack).pc = "enter"
  BY <1>1 DEF At
<1>3. PICK fr : fr = [proc |-> Last(stack).proc, pc |-> "open"]
  OBVIOUS
<1>4. fr \in Procedure /\ stack' = Append(Front(stack), fr)
  BY <1>1, <1>2, <1>3, Continued DEF Procedure
<1>5. Done \in Nat /\ Done' = Done + 1 /\ \A T : Extends(T)' => Extends(T)
  BY <1>1, <1>2, ConsumesOne
<1>6. PICK c \in Nat \ {0} : c = Done + 1
  BY <1>5
<1>7. PICK e \in Nat \ {0} : e = c + 1 /\ e = Done' + 1
  BY <1>5, <1>6
<1>8. ASSUME NEW T, NEW D, NEW y, NEW b, Extends(T), Solves(T, D), Reading(T, D, y, b)
      PROVE  Reads(T, D, fr, y, b, e)
  <2>1. Reads(T, D, Last(stack), y, b, c)
    BY <1>6, <1>8 DEF Reading
  <2>2. T[c].type = "LPAREN"
    BY <1>1, <1>2, <1>6, <1>8, LookedAt
  <2>3. y \in {"P", "LP"} /\ Opened(T, D, fr.proc, c, y, b)
    BY <1>2, <1>3, <2>1 DEF Reads
  <2>. QED
    BY <1>2, <1>3, <1>7, <2>2, <2>3 DEF Reads
<1>. QED
  BY <1>1, <1>2, <1>4, <1>5, <1>7, <1>8, ReplacedReads

LEMMA EnterParenthesisReads ==
  ASSUME GrammarInv, InputInv', EnterParenthesis
  PROVE  GrammarInv'
<1>1. /\ At({"P", "LP"}, "open") /\ Call("close", "E") /\ UNCHANGED <<next, read, status>>
      /\ ParserTypes /\ ParseOutermost /\ InputInv
  BY DEF EnterParenthesis, GrammarInv, InputInv, ParserInv
<1>2. status = "parsing" /\ Last(stack).proc \in {"P", "LP"} /\ Last(stack).pc = "open"
  BY <1>1 DEF At
<1>3. PICK fr, callee : /\ fr = [proc |-> Last(stack).proc, pc |-> "close"]
                        /\ callee = [proc |-> "E", pc |-> "enter"]
  OBVIOUS
<1>4. fr \in Procedure /\ callee \in Procedure
  BY <1>2, <1>3 DEF Procedure
<1>5. stack' = Append(Append(Front(stack), fr), callee)
  BY <1>1, <1>3, Continued DEF Activation
<1>6. Done' = Done /\ \A T : Extends(T)' => Extends(T)
  BY <1>1, StaysLookedAt
<1>7. PICK c \in Nat \ {0} : c = Done + 1
  BY <1>1, <1>2, DoneTyped
<1>8. ASSUME NEW T, NEW D, NEW y, NEW b, Extends(T), Solves(T, D), Reading(T, D, y, b)
      PROVE  Waits(T, D, fr, y, b, "Expression", c) /\ Reads(T, D, callee, "Expression", c, c)
  <2>1. Reads(T, D, Last(stack), y, b, c)
    BY <1>7, <1>8 DEF Reading
  <2>2. PICK x \in {"P", "LP"} : x = Last(stack).proc
    BY <1>2
  <2>3. PICK m \in Nat \ {0} :
          /\ y \in {"P", "LP"} /\ Opened(T, D, x, m, y, b) /\ T[m].type = "LPAREN" /\ c = m + 1
    BY <1>2, <2>1, <2>2 DEF Reads
  <2>4. Viable(T, D) => Ends(T, D, c)
    BY <1>8, <2>3, ParenthesisHolds DEF Opened, Extends
  <2>5. Waits(T, D, fr, y, b, "Expression", c)
    BY <1>2, <1>3, <2>2, <2>3 DEF Waits
  <2>6. Reads(T, D, callee, "Expression", c, c)
    BY <1>3, <2>4 DEF Reads
  <2>. QED
    BY <2>5, <2>6
<1>. QED
  BY <1>1, <1>2, <1>4, <1>5, <1>6, <1>7, <1>8, CalledReads DEF Started

LEMMA CloseParenthesisReads ==
  ASSUME GrammarInv, InputInv', CloseParenthesis
  PROVE  GrammarInv'
<1>1. /\ At({"P", "LP"}, "close") /\ consume /\ Goto("closed") /\ status' = status
      /\ next.type = "RPAREN" /\ ParserTypes /\ ParseOutermost /\ InputInv
  BY DEF CloseParenthesis, GrammarInv, InputInv, ParserInv
<1>2. status = "parsing" /\ Last(stack).proc \in {"P", "LP"} /\ Last(stack).pc = "close"
  BY <1>1 DEF At
<1>3. PICK fr : fr = [proc |-> Last(stack).proc, pc |-> "closed"]
  OBVIOUS
<1>4. fr \in Procedure /\ stack' = Append(Front(stack), fr)
  BY <1>1, <1>2, <1>3, Continued DEF Procedure
<1>5. Done \in Nat /\ Done' = Done + 1 /\ \A T : Extends(T)' => Extends(T)
  BY <1>1, <1>2, ConsumesOne
<1>6. PICK c \in Nat \ {0} : c = Done + 1
  BY <1>5
<1>7. PICK e \in Nat \ {0} : e = c + 1 /\ e - 1 = c /\ e = Done' + 1
  BY <1>5, <1>6
<1>8. ASSUME NEW T, NEW D, NEW y, NEW b, Extends(T), Solves(T, D), Reading(T, D, y, b)
      PROVE  Reads(T, D, fr, y, b, e)
  <2>1. Reads(T, D, Last(stack), y, b, c)
    BY <1>6, <1>8 DEF Reading
  <2>2. T \in Seq(InputTokens) /\ c \in 1 .. Len(T) /\ T[c].type = "RPAREN"
    BY <1>1, <1>2, <1>6, <1>8, LookedAt
  <2>3. PICK x \in {"P", "LP"} : x = Last(stack).proc
    BY <1>2
  <2>4. PICK m \in Nat \ {0} :
          /\ y \in {"P", "LP"} /\ Opened(T, D, x, m, y, b) /\ T[m].type = "LPAREN"
          /\ Is(T, D, "Expression", m + 1, c - 1)
    BY <1>2, <2>1, <2>3 DEF Reads
  <2>5. m \in 1 .. Len(T)
    <3>1. m + 1 <= Len(T) /\ Len(T) \in Nat
      BY <1>8, <2>2, <2>4, PhraseSpan
    <3>. QED
      BY <3>1
  <2>6. Is(T, D, x, m, c)
    BY <1>8, <2>2, <2>4, <2>5, PartRule
  <2>7. Is(T, D, y, b, c)
    BY <2>4, <2>6 DEF Opened
  <2>. QED
    BY <1>2, <1>3, <1>7, <2>4, <2>7 DEF Reads
<1>. QED
  BY <1>1, <1>2, <1>4, <1>5, <1>7, <1>8, ReplacedReads

LEMMA NestedLogicEXPReads ==
  ASSUME GrammarInv, InputInv', NestedLogicEXP
  PROVE  GrammarInv'
<1>1. /\ At({"P", "LP"}, "enter") /\ TailCall("LogicEXP") /\ UNCHANGED <<next, read, status>>
      /\ next.type = "LSQRBRACK" /\ InputInv
  BY DEF NestedLogicEXP, GrammarInv
<1>2. status = "parsing" /\ Last(stack).proc \in {"P", "LP"} /\ Last(stack).pc = "enter"
  BY <1>1 DEF At
<1>3. PICK fr : fr = [proc |-> "LogicEXP", pc |-> "enter"]
  OBVIOUS
<1>4. fr \in Procedure /\ stack' = Append(Front(stack), fr)
  BY <1>1, <1>3 DEF Procedure, TailCall, Activation
<1>5. Done' = Done /\ \A T : Extends(T)' => Extends(T)
  BY <1>1, StaysLookedAt
<1>6. PICK c \in Nat \ {0} : c = Done + 1
  BY <1>1, <1>2, DoneTyped
<1>7. ASSUME NEW T, NEW D, NEW y, NEW b, Extends(T), Solves(T, D), Reading(T, D, y, b)
      PROVE  Reads(T, D, fr, y, b, c)
  <2>1. Reads(T, D, Last(stack), y, b, c)
    BY <1>6, <1>7 DEF Reading
  <2>2. T \in Seq(InputTokens) /\ c \in 1 .. Len(T) /\ T[c].type = "LSQRBRACK"
    BY <1>1, <1>2, <1>6, <1>7, LookedAt
  <2>3. PICK x \in {"P", "LP"} : x = Last(stack).proc
    BY <1>2
  <2>4. y \in {"P", "LP"} /\ Opened(T, D, x, c, y, b)
    BY <1>2, <2>1, <2>3 DEF Reads
  <2>5. ASSUME NEW j, Is(T, D, "LogicEXP", c, j)
        PROVE  Is(T, D, x, c, j)
    <3>1. j \in 1 .. Len(T)
      BY <1>7, <2>2, <2>5, PhraseSpan
    <3>. QED
      BY <1>7, <2>2, <2>5, <3>1, PartRule
  <2>6. ASSUME NEW j, Is(T, D, x, c, j)
        PROVE  Is(T, D, "LogicEXP", c, j)
    <3>1. OfItsKind(T, D, x, c, j)
      BY <1>7, <2>2, <2>6, PartKind
    <3>. QED
      BY <2>2, <3>1 DEF OfItsKind
  <2>7. Opened(T, D, "LogicEXP", c, y, b)
    BY <2>4, <2>5, <2>6 DEF Opened, Begins
  <2>. QED
    BY <1>3, <2>4, <2>7 DEF Reads
<1>. QED
  BY <1>1, <1>2, <1>4, <1>5, <1>6, <1>7, ReplacedReads

----------------------------------------------------------------------------
(* Exceptions: the tokens are no expression, whatever follows. *)
LEMMA UnknownTokenRejects ==
  ASSUME InputInv, UnknownToken,
         NEW T, NEW D, NEW y, NEW b, Extends(T), Solves(T, D), Reading(T, D, y, b)
  PROVE  ~ Viable(T, D)
<1>1. /\ At({"P", "LP"}, "enter") /\ next.type \notin Operand \cup Opening /\ ~ Pushing
      /\ status = "parsing"
  BY DEF UnknownToken, At
<1>2. PICK x \in {"P", "LP"} :
        Last(stack).proc = x /\ Last(stack).pc = "enter" /\ next.value \notin UnaryOf(x)
  <2>1. PICK x \in {"P", "LP"} : x = Last(stack).proc /\ Last(stack).pc = "enter" /\ At({x}, "enter")
    BY <1>1 DEF At
  <2>. QED
    BY <1>1, <2>1 DEF Pushing, UnaryOf
<1>3. PICK c \in Nat \ {0} : c = Done + 1
  BY <1>1, DoneTyped
<1>4. Opened(T, D, x, c, y, b)
  <2>1. Reads(T, D, Last(stack), y, b, c)
    BY <1>3 DEF Reading
  <2>. QED
    BY <1>2, <2>1 DEF Reads
<1>5. T \in Seq(InputTokens) /\ (c \in 1 .. Len(T) => T[c] = next)
  BY <1>1, <1>3, LookedAt
<1>6. ASSUME NEW j, Is(T, D, x, c, j)
      PROVE  FALSE
  <2>1. OfItsKind(T, D, x, c, j) /\ c \in 1 .. Len(T)
    BY <1>5, <1>6, PartKind, PhraseSpan
  <2>. QED
    BY <1>1, <1>2, <1>5, <2>1 DEF OfItsKind
<1>. QED
  BY <1>4, <1>6 DEF Opened, Begins

LEMMA UnexpectedTokenRejects ==
  ASSUME InputInv, UnexpectedToken,
         NEW T, NEW D, NEW y, NEW b, Extends(T), Solves(T, D), Reading(T, D, y, b)
  PROVE  ~ Viable(T, D)
<1>1. status = "parsing"
  BY DEF UnexpectedToken, At
<1>2. PICK c \in Nat \ {0} : c = Done + 1
  BY <1>1, DoneTyped
<1>3. Reads(T, D, Last(stack), y, b, c)
  BY <1>2 DEF Reading
<1>4. /\ T \in Seq(InputTokens) /\ Len(T) \in Nat /\ (c \in 1 .. Len(T) => T[c] = next)
      /\ next.type # "END" => c \in 1 .. Len(T)
  BY <1>1, <1>2, LookedAt
<1>5. ASSUME At({"LogicEXP"}, "loop"), next.value \notin LogicalBinaryOperator,
             next.type # "RSQRBRACK", Viable(T, D)
      PROVE  FALSE
  <2>1. Last(stack).proc = "LogicEXP" /\ Last(stack).pc = "loop"
    BY <1>5 DEF At
  <2>2. PICK m \in Nat \ {0} :
          Opened(T, D, "LogicEXP", m, y, b) /\ Is(T, D, "LPs", m + 1, c - 1)
    BY <1>3, <2>1 DEF Reads
  <2>3. PICK j \in Int : /\ Is(T, D, "LPs", m + 1, j) /\ EndsAt(T, j)
                         /\ j + 1 \in 1 .. Len(T) /\ T[j + 1].type = "RSQRBRACK"
    BY <1>4, <1>5, <2>2, BracketHolds DEF Opened
  <2>4. \/ j = c - 1
        \/ c \in 1 .. Len(T) /\ T[c].value \in BinaryOf("LPs")
    BY <1>4, <2>2, <2>3, EndFound
  <2>5. j # c - 1
    <3>1. j = c - 1 => j + 1 = c
      OBVIOUS
    <3>. QED
      BY <1>4, <1>5, <2>3, <3>1
  <2>. QED
    BY <1>4, <1>5, <2>4, <2>5 DEF BinaryOf
<1>6. ASSUME At({"P", "LP"}, "close"), next.type # "RPAREN", Viable(T, D)
      PROVE  FALSE
  <2>1. PICK x \in {"P", "LP"} : x = Last(stack).proc /\ Last(stack).pc = "close"
    BY <1>6 DEF At
  <2>2. PICK m \in Nat \ {0} :
          /\ Opened(T, D, x, m, y, b) /\ T[m].type = "LPAREN"
          /\ Is(T, D, "Expression", m + 1, c - 1) /\ NoOperator(T, c)
    BY <1>3, <2>1 DEF Reads
  <2>3. PICK j : Is(T, D, x, m, j)
    BY <1>6, <2>2 DEF Opened, Begins
  <2>4. j \in Int /\ j \in 1 .. Len(T) /\ (j - 1) + 1 = j
    BY <1>4, <2>3, PhraseSpan
  <2>5. T[j].type = "RPAREN" /\ Is(T, D, "Expression", m + 1, j - 1)
    <3>1. OfItsKind(T, D, x, m, j)
      BY <1>4, <2>3, PartKind
    <3>. QED
      BY <2>2, <3>1 DEF OfItsKind
  <2>6. EndsAt(T, j - 1)
    BY <2>4, <2>5 DEF EndsAt, Closing
  <2>7. \/ j - 1 = c - 1
        \/ c \in 1 .. Len(T) /\ T[c].value \in BinaryOf("Expression")
    BY <1>4, <2>2, <2>5, <2>6, EndFound
  <2>8. j - 1 # c - 1
    <3>1. j - 1 = c - 1 => j = c
      BY <2>4
    <3>. QED
      BY <1>4, <1>6, <2>4, <2>5, <3>1
  <2>. QED
    BY <2>2, <2>7, <2>8 DEF BinaryOf, NoOperator
<1>7. ASSUME At({"parse"}, "end"), next.type # "END", Viable(T, D)
      PROVE  FALSE
  <2>1. Last(stack).proc = "parse" /\ Last(stack).pc = "end"
    BY <1>7 DEF At
  <2>2. Is(T, D, "Expression", 1, c - 1) /\ NoOperator(T, c)
    BY <1>3, <2>1 DEF Reads
  <2>3. Is(T, D, "Expression", 1, Len(T)) /\ EndsAt(T, Len(T))
    BY <1>7 DEF Viable, EndsAt
  <2>4. \/ Len(T) = c - 1
        \/ c \in 1 .. Len(T) /\ T[c].value \in BinaryOf("Expression")
    BY <1>4, <2>2, <2>3, EndFound
  <2>5. Len(T) # c - 1
    BY <1>4, <1>7
  <2>. QED
    BY <2>2, <2>4, <2>5 DEF BinaryOf, NoOperator
<1>. QED
  BY <1>5, <1>6, <1>7 DEF UnexpectedToken

LEMMA IllegalTokenRejects ==
  ASSUME InputInv, IllegalToken, NEW T, NEW D, Extends(T), Solves(T, D)
  PROVE  ~ Viable(T, D)
<1>1. status = "parsing" /\ next.type = "INVALID"
  BY DEF IllegalToken
<1>2. PICK c \in Nat \ {0} : c = Done + 1
  BY <1>1, DoneTyped
<1>3. T \in Seq(InputTokens) /\ c \in 1 .. Len(T) /\ T[c].type = "INVALID"
  BY <1>1, <1>2, LookedAt
<1>. QED
  BY <1>3, OnlyTokens DEF Viable

LEMMA ThrowReads ==
  ASSUME GrammarInv, InputInv', Throw
  PROVE  GrammarInv'
<1>1. InputInv /\ status = "parsing" /\ (UnknownToken \/ UnexpectedToken \/ IllegalToken)
  BY DEF GrammarInv, Throw, UnknownToken, UnexpectedToken, IllegalToken, At
<1>2. ASSUME NEW T, NEW D, NEW y, NEW b, Extends(T), Solves(T, D), Reading(T, D, y, b)
      PROVE  ~ Viable(T, D)
  BY <1>1, <1>2, UnknownTokenRejects, UnexpectedTokenRejects, IllegalTokenRejects
<1>. QED
  BY <1>1, <1>2, ThrownReads

----------------------------------------------------------------------------
(* The inductive invariant. *)
LEMMA GrammarInvIsKept ==
  ASSUME GrammarInv, [Next]_vars
  PROVE  GrammarInv'
<1>1. InputInv'
  BY InputInvIsKept DEF GrammarInv
<1>2. CASE parse
  BY <1>1, <1>2, ParseReads
<1>3. CASE popOperator \/ UNCHANGED vars
  BY <1>1, <1>3, StaysRead DEF popOperator, vars
<1>4. CASE popOperatorUndefined
  <2>1. status' = "undefined"
    BY <1>4 DEF popOperatorUndefined
  <2>. QED
    BY <1>1, <2>1 DEF GrammarInv, Progress
<1>5. CASE pushOperator
  <2>1. Pushing
    BY <1>5 DEF pushOperator
  <2>2. Last(stack).proc \in {"E", "LogicEXP"} \/ Last(stack).proc \in {"P", "LP"}
    BY <2>1 DEF Pushing, At
  <2>. QED
    BY <1>1, <1>5, <2>2, PushBinaryReads, PushUnaryReads
<1>6. CASE ParseExpression
  BY <1>1, <1>6, ParseExpressionReads
<1>7. CASE ParseReturns
  BY <1>1, <1>7, ParseReturnsReads
<1>8. CASE EnterE
  BY <1>1, <1>8, EnterEReads
<1>9. CASE LeaveE
  BY <1>1, <1>9, LeaveEReads
<1>10. CASE EnterLogicEXP
  BY <1>1, <1>10, EnterLogicEXPReads
<1>11. CASE CloseLogicEXP
  BY <1>1, <1>11, CloseLogicEXPReads
<1>12. CASE LeaveLogicEXP \/ LeaveParenthesis
  BY <1>1, <1>12, LeaveLogicEXPReads
<1>13. CASE ReadOperand
  BY <1>1, <1>13, ReadOperandReads
<1>14. CASE OpenParenthesis
  BY <1>1, <1>14, OpenParenthesisReads
<1>15. CASE EnterParenthesis
  BY <1>1, <1>15, EnterParenthesisReads
<1>16. CASE CloseParenthesis
  BY <1>1, <1>16, CloseParenthesisReads
<1>17. CASE NestedLogicEXP
  BY <1>1, <1>17, NestedLogicEXPReads
<1>18. CASE Throw
  BY <1>1, <1>18, ThrowReads
<1>. QED
  BY <1>2, <1>3, <1>4, <1>5, <1>6, <1>7, <1>8, <1>9, <1>10, <1>11, <1>12, <1>13, <1>14,
     <1>15, <1>16, <1>17, <1>18 DEF Next, Step

LEMMA GrammarInvHolds == Spec => []GrammarInv
<1>1. Init => GrammarInv
  <2>1. Init => status = "idle"
    BY DEF Init
  <2>. QED
    BY <2>1, InputInvInitially DEF GrammarInv, Progress
<1>2. GrammarInv /\ [Next]_vars => GrammarInv'
  BY GrammarInvIsKept
<1>. QED
  BY <1>1, <1>2, PTL DEF Spec

(* The derivations of IsExpression are a solution. *)
LEMMA ViableIs ==
  ASSUME NEW T \in Seq(InputTokens)
  PROVE  /\ Solves(T, Derives(T))
         /\ Viable(T, Derives(T)) <=> IsExpression(T)
<1>1. Solves(T, Derives(T))
  BY DerivationsExist, DerivesSolve
<1>2. Viable(T, Derives(T)) => IsExpression(T)
  <2>1. Viable(T, Derives(T)) => 1 \in 1 .. Len(T)
    BY <1>1, PhraseSpan DEF Viable
  <2>. QED
    BY <2>1 DEF Viable, Is, IsExpression
<1>3. IsExpression(T) => Viable(T, Derives(T))
  <2>1. T # <<>> => 1 \in 1 .. Len(T) /\ Len(T) \in 0 .. Len(T)
    OBVIOUS
  <2>2. T # <<>> => <<"Expression", 1, Len(T)>> \in Spans(T)
    BY <2>1, SpanOf DEF Nonterminal
  <2>. QED
    BY <2>2 DEF Viable, Is, IsExpression
<1>. QED
  BY <1>1, <1>2, <1>3

(* The first half of ReadsAsWritten: on every input, and whatever earlier  *)
(* calls have left on the stacks, parse accepts only what the grammar in   *)
(* parser.h derives.                                                       *)
LEMMA OnlyExpressionsAccepted == Spec => [](status = "returned" => IsExpression(read))
<1>1. GrammarInv => (status = "returned" => IsExpression(read))
  <2> SUFFICES ASSUME GrammarInv, status = "returned"
               PROVE  IsExpression(read)
    OBVIOUS
  <2>1. read \in Seq(InputTokens)
    BY DEF GrammarInv, InputInv, History
  <2>2. Extends(read)
    BY <2>1 DEF Extends
  <2>3. Viable(read, Derives(read))
    BY <2>1, <2>2, ViableIs DEF GrammarInv, Progress
  <2>. QED
    BY <2>1, <2>3, ViableIs
<1>. QED
  BY <1>1, GrammarInvHolds, PTL

(* On every input, and whatever earlier calls have left on the stacks,     *)
(* parse throws an exception only where no expression begins with what was *)
(* read, or where the input ends and is no expression.                     *)
THEOREM OnlyErrorsRejected == Spec => []RejectsOnlyErrors
<1>1. GrammarInv => RejectsOnlyErrors
  <2> SUFFICES ASSUME GrammarInv, status = "threw",
                      NEW T, T = IF next.type = "END" THEN read ELSE Completed(read)
               PROVE  ~ IsExpression(T)
    BY DEF RejectsOnlyErrors
  <2>1. read \in Seq(InputTokens)
    BY DEF GrammarInv, InputInv, History
  <2>2. Extends(T)
    <3>1. \A type \in {"VAR", "LPAREN", "RPAREN", "RSQRBRACK"} : Token(type) \in InputTokens
      BY DEF InputTokens
    <3>2. /\ Completed(read) \in Seq(InputTokens) /\ Len(read) <= Len(Completed(read))
          /\ \A i \in 1 .. Len(read) : Completed(read)[i] = read[i]
      BY <2>1, <3>1, CompletedExtends
    <3>. QED
      BY <2>1, <3>2 DEF Extends
  <2>3. T \in Seq(InputTokens)
    BY <2>2 DEF Extends
  <2>4. ~ Viable(T, Derives(T))
    BY <2>2, <2>3, ViableIs DEF GrammarInv, Progress
  <2>. QED
    BY <2>3, <2>4, ViableIs
<1>. QED
  BY <1>1, GrammarInvHolds, PTL

----------------------------------------------------------------------------
(* The terms that spans of the tokens stand for: the recursive function in *)
(* Meaning, as a solution of its equation.                                 *)
TermSpans(T) == (1 .. Len(T) + 1) \X (0 .. Len(T))

Means(T, M) == M = [p \in TermSpans(T) |-> TermOf(T, M, p[1], p[2])]

LEMMA TermSpan ==
  ASSUME NEW T, NEW i \in 1 .. Len(T) + 1, NEW j \in 0 .. Len(T)
  PROVE  <<i, j>> \in TermSpans(T)
BY DEF TermSpans

LEMMA TermSpanIs ==
  ASSUME NEW T \in Seq(InputTokens), NEW p \in TermSpans(T)
  PROVE  /\ p[1] \in 1 .. Len(T) + 1 /\ p[2] \in 0 .. Len(T) /\ p = <<p[1], p[2]>>
         /\ p[2] - p[1] \in Int /\ p[2] - p[1] <= Len(T)
BY DEF TermSpans

LEMMA MeansAt ==
  ASSUME NEW T \in Seq(InputTokens), NEW M, Means(T, M),
         NEW i \in 1 .. Len(T) + 1, NEW j \in 0 .. Len(T)
  PROVE  M[<<i, j>>] = TermOf(T, M, i, j)
<1>1. PICK p : p = <<i, j>>
  OBVIOUS
<1>2. p \in TermSpans(T) /\ p[1] = i /\ p[2] = j
  BY <1>1, TermSpan
<1>3. M = [q \in TermSpans(T) |-> TermOf(T, M, q[1], q[2])]
  BY DEF Means
<1>4. M[p] = TermOf(T, M, p[1], p[2])
  BY <1>2, <1>3
<1>. QED
  BY <1>1, <1>2, <1>4

(* Every set of numbers has a least one. *)
LEMMA LeastOf ==
  ASSUME NEW S, S \subseteq Nat, S # {}
  PROVE  \E n \in S : \A m \in S : n <= m
<1>1. PICK R : R = OpToRel(<, Nat)
  OBVIOUS
<1>2. IsWellFoundedOn(R, Nat)
  BY <1>1, NatLessThanWellFounded
<1>3. PICK n \in S : \A m \in S : ~ (<<m, n>> \in R)
  BY <1>2, WFMin
<1>4. ASSUME NEW m \in S
      PROVE  n <= m
  <2>1. m \in Nat /\ n \in Nat
    BY <1>3
  <2>2. m < n => <<m, n>> \in R
    BY <1>1, <2>1 DEF OpToRel
  <2>. QED
    BY <1>3, <2>1, <2>2
<1>. QED
  BY <1>3, <1>4

LEMMA OperatorLevel ==
  ASSUME NEW t \in InputTokens, t.type = "OP"
  PROVE  Precedence[t.value] \in Nat /\ t.value \in OperatorName
<1>1. \A type : Token(type).type = type
  BY DEF Token
<1>2. PICK name \in Operators : t = OpToken(name)
  BY <1>1 DEF InputTokens
<1>3. t.value = name
  BY <1>2 DEF OpToken
<1>. QED
  BY <1>3, InfixAssumption, Precedences DEF OperatorName

(* The operator that is applied last is the leftmost of the lowest level.  *)
LowestFirst(T, i, j, k) ==
  /\ k \in BinaryIn(T, i, j)
  /\ \A l \in BinaryIn(T, i, j) :
       \/ Precedence[T[k].value] < Precedence[T[l].value]
       \/ Precedence[T[k].value] = Precedence[T[l].value] /\ k <= l

LEMMA BinaryTyped ==
  ASSUME NEW T \in Seq(InputTokens), NEW i \in 1 .. Len(T) + 1, NEW j \in 0 .. Len(T),
         NEW k \in BinaryIn(T, i, j)
  PROVE  k \in i .. j /\ k \in 1 .. Len(T) /\ Precedence[T[k].value] \in Nat /\ T[k].type = "OP"
<1>1. k \in i .. j /\ T[k].type = "OP" /\ k \in 1 .. Len(T)
  BY DEF BinaryIn
<1>2. T[k] \in InputTokens
  BY <1>1
<1>. QED
  BY <1>1, <1>2, OperatorLevel

LEMMA OneLowestFirst ==
  ASSUME NEW T \in Seq(InputTokens), NEW i \in 1 .. Len(T) + 1, NEW j \in 0 .. Len(T),
         BinaryIn(T, i, j) # {}
  PROVE  /\ LowestFirst(T, i, j, AppliedLast(T, i, j))
         /\ \A k : LowestFirst(T, i, j, k) => k = AppliedLast(T, i, j)
<1>1. PICK B : B = BinaryIn(T, i, j)
  OBVIOUS
<1>2. B # {} /\ \A k \in B : k \in Nat /\ Precedence[T[k].value] \in Nat
  BY <1>1, BinaryTyped
<1>3. PICK P : P = {Precedence[T[k].value] : k \in B}
  OBVIOUS
<1>4. P \subseteq Nat /\ P # {}
  BY <1>2, <1>3
<1>5. PICK p \in P : \A q \in P : p <= q
  BY <1>4, LeastOf
<1>6. PICK L : L = {k \in B : Precedence[T[k].value] = p}
  OBVIOUS
<1>7. L \subseteq Nat /\ L # {}
  BY <1>2, <1>3, <1>5, <1>6
<1>8. PICK n \in L : \A m \in L : n <= m
  BY <1>7, LeastOf
<1>9. LowestFirst(T, i, j, n)
  <2>1. n \in B /\ Precedence[T[n].value] = p
    BY <1>6
  <2>2. ASSUME NEW l \in B
        PROVE  \/ Precedence[T[n].value] < Precedence[T[l].value]
               \/ Precedence[T[n].value] = Precedence[T[l].value] /\ n <= l
    <3>1. PICK q : q = Precedence[T[l].value] /\ q \in P /\ p <= q
      BY <1>3, <1>5
    <3>2. p \in Nat /\ q \in Nat
      BY <1>4, <1>5, <3>1
    <3>3. p = q => n <= l
      BY <1>6, <1>8, <3>1
    <3>. QED
      BY <2>1, <3>1, <3>2, <3>3
  <2>. QED
    BY <1>1, <2>1, <2>2 DEF LowestFirst
<1>10. AppliedLast(T, i, j) = CHOOSE k \in BinaryIn(T, i, j) : LowestFirst(T, i, j, k)
  <2>1. ASSUME NEW k \in BinaryIn(T, i, j)
        PROVE  LowestFirst(T, i, j, k) <=>
               \A l \in BinaryIn(T, i, j) :
                 \/ Precedence[T[k].value] < Precedence[T[l].value]
                 \/ Precedence[T[k].value] = Precedence[T[l].value] /\ k <= l
    BY DEF LowestFirst
  <2>. QED
    BY <2>1 DEF AppliedLast
<1>11. LowestFirst(T, i, j, AppliedLast(T, i, j))
  <2>1. n \in BinaryIn(T, i, j)
    BY <1>9 DEF LowestFirst
  <2>. QED
    BY <1>9, <1>10, <2>1
<1>12. ASSUME NEW k, NEW l, LowestFirst(T, i, j, k), LowestFirst(T, i, j, l)
       PROVE  k = l
  <2>1. k \in B /\ l \in B
    BY <1>1, <1>12 DEF LowestFirst
  <2>2. /\ \/ Precedence[T[k].value] < Precedence[T[l].value]
           \/ Precedence[T[k].value] = Precedence[T[l].value] /\ k <= l
        /\ \/ Precedence[T[l].value] < Precedence[T[k].value]
           \/ Precedence[T[l].value] = Precedence[T[k].value] /\ l <= k
    BY <1>1, <1>12, <2>1 DEF LowestFirst
  <2>3. PICK p1, q1 : p1 = Precedence[T[k].value] /\ q1 = Precedence[T[l].value]
    OBVIOUS
  <2>4. p1 \in Nat /\ q1 \in Nat /\ k \in Nat /\ l \in Nat
    BY <1>2, <2>1, <2>3
  <2>. QED
    BY <2>2, <2>3, <2>4
<1>. QED
  BY <1>11, <1>12

(* The recursion is well founded: the term of a span depends on those of   *)
(* shorter spans.                                                          *)
LEMMA TermOfShorter ==
  ASSUME NEW T \in Seq(InputTokens), NEW i \in 1 .. Len(T) + 1, NEW j \in 0 .. Len(T),
         NEW M, NEW N, \A q \in TermSpans(T) : q[2] - q[1] < j - i => M[q] = N[q]
  PROVE  TermOf(T, M, i, j) = TermOf(T, N, i, j)
<1>1. ASSUME NEW k \in 1 .. Len(T) + 1, NEW l \in 0 .. Len(T), l - k < j - i
      PROVE  M[<<k, l>>] = N[<<k, l>>]
  <2>1. PICK q : q = <<k, l>>
    OBVIOUS
  <2>2. q \in TermSpans(T) /\ q[1] = k /\ q[2] = l
    BY <2>1, TermSpan
  <2>. QED
    BY <1>1, <2>1, <2>2
<1>2. CASE i > j
  BY <1>2 DEF TermOf
<1>3. CASE i <= j /\ BinaryIn(T, i, j) # {}
  <2>1. PICK k : k = AppliedLast(T, i, j)
    OBVIOUS
  <2>2. k \in i .. j
    BY <1>3, <2>1, OneLowestFirst, BinaryTyped DEF LowestFirst
  <2>3. M[<<i, k - 1>>] = N[<<i, k - 1>>] /\ M[<<k + 1, j>>] = N[<<k + 1, j>>]
    <3>1. k - 1 \in 0 .. Len(T) /\ (k - 1) - i < j - i
      BY <2>2
    <3>2. k + 1 \in 1 .. Len(T) + 1 /\ j - (k + 1) < j - i
      BY <2>2
    <3>. QED
      BY <1>1, <3>1, <3>2
  <2>. QED
    BY <1>3, <2>1, <2>3 DEF TermOf
<1>4. CASE i <= j /\ BinaryIn(T, i, j) = {}
  <2>1. M[<<i + 1, j>>] = N[<<i + 1, j>>] /\ M[<<i + 1, j - 1>>] = N[<<i + 1, j - 1>>]
    <3>1. i + 1 \in 1 .. Len(T) + 1 /\ j - (i + 1) < j - i
      BY <1>4
    <3>2. j - 1 \in 0 .. Len(T) /\ (j - 1) - (i + 1) < j - i
      BY <1>4
    <3>. QED
      BY <1>1, <3>1, <3>2
  <2>. QED
    BY <1>4, <2>1 DEF TermOf
<1>. QED
  BY <1>2, <1>3, <1>4

(* A solution for the spans of less than n tokens. *)
MeansBelow(T, M, n) ==
  /\ M = [p \in TermSpans(T) |-> M[p]]
  /\ \A p \in TermSpans(T) : p[2] - p[1] < n - 1 => M[p] = TermOf(T, M, p[1], p[2])

LEMMA TermsExist ==
  ASSUME NEW T \in Seq(InputTokens)
  PROVE  \E M : Means(T, M)
<1>1. PICK D : D = {n \in Nat : \E M : MeansBelow(T, M, n)}
  OBVIOUS
<1>2. 0 \in D
  <2>1. PICK M : M = [p \in TermSpans(T) |-> Zero]
    OBVIOUS
  <2>2. ASSUME NEW p \in TermSpans(T), p[2] - p[1] < 0 - 1
        PROVE  M[p] = TermOf(T, M, p[1], p[2])
    <3>1. p[1] > p[2]
      BY <2>2, TermSpanIs
    <3>. QED
      BY <2>1, <3>1 DEF TermOf
  <2>3. M = [p \in TermSpans(T) |-> M[p]]
    BY <2>1
  <2>. QED
    BY <1>1, <2>2, <2>3 DEF MeansBelow
<1>3. ASSUME NEW n \in Nat, n \in D
      PROVE  n + 1 \in D
  <2>1. PICK M : MeansBelow(T, M, n)
    BY <1>1, <1>3
  <2>2. PICK N : N = [p \in TermSpans(T) |-> IF p[2] - p[1] < n - 1 THEN M[p] ELSE TermOf(T, M, p[1], p[2])]
    OBVIOUS
  <2>3. \A p \in TermSpans(T) : N[p] = IF p[2] - p[1] < n - 1 THEN M[p] ELSE TermOf(T, M, p[1], p[2])
    BY <2>2
  <2>4. ASSUME NEW p \in TermSpans(T), p[2] - p[1] < (n + 1) - 1
        PROVE  N[p] = TermOf(T, N, p[1], p[2])
    <3>1. PICK i, j : i = p[1] /\ j = p[2]
      OBVIOUS
    <3>2. i \in 1 .. Len(T) + 1 /\ j \in 0 .. Len(T) /\ j - i \in Int
      BY <3>1, TermSpanIs
    <3>3. ASSUME NEW q \in TermSpans(T), q[2] - q[1] < j - i
          PROVE  M[q] = N[q]
      <4>1. q[2] - q[1] < n - 1
        BY <2>4, <3>1, <3>2, <3>3, TermSpanIs
      <4>. QED
        BY <2>3, <4>1
    <3>4. TermOf(T, M, i, j) = TermOf(T, N, i, j)
      BY <3>2, <3>3, TermOfShorter
    <3>5. p[2] - p[1] < n - 1 => M[p] = TermOf(T, M, p[1], p[2])
      BY <2>1 DEF MeansBelow
    <3>. QED
      BY <2>3, <3>1, <3>4, <3>5
  <2>5. N = [p \in TermSpans(T) |-> N[p]]
    BY <2>2
  <2>6. MeansBelow(T, N, n + 1)
    BY <2>4, <2>5 DEF MeansBelow
  <2>. QED
    BY <1>1, <2>6
<1>4. Nat \subseteq D
  BY <1>2, <1>3, NaturalInduction
<1>5. PICK n \in Nat : n = Len(T) + 2
  OBVIOUS
<1>6. PICK M : MeansBelow(T, M, n)
  BY <1>1, <1>4, <1>5
<1>7. \A p \in TermSpans(T) : M[p] = TermOf(T, M, p[1], p[2])
  <2>1. \A p \in TermSpans(T) : p[2] - p[1] < n - 1
    BY <1>5, TermSpanIs
  <2>. QED
    BY <1>6, <2>1 DEF MeansBelow
<1>8. M = [p \in TermSpans(T) |-> TermOf(T, M, p[1], p[2])]
  <2>1. M = [p \in TermSpans(T) |-> M[p]]
    BY <1>6 DEF MeansBelow
  <2>. QED
    BY <1>7, <2>1
<1>. QED
  BY <1>8 DEF Means

LEMMA MeaningIs ==
  ASSUME NEW T \in Seq(InputTokens)
  PROVE  \E M : Means(T, M) /\ Meaning(T) = M[<<1, Len(T)>>]
<1> DEFINE Chosen == CHOOSE M : Means(T, M)
<1>1. Meaning(T) = Chosen[<<1, Len(T)>>]
  BY Zenon DEF Meaning, Means, TermSpans
<1>2. Means(T, Chosen)
  BY TermsExist
<1>. QED
  BY <1>1, <1>2

----------------------------------------------------------------------------
(* Brackets. *)

(* The tokens of the types S among the first k. *)
OfType(T, S, k) == {l \in 1 .. k : T[l].type \in S}

LEMMA OfTypeAt ==
  ASSUME NEW T, NEW S, NEW k \in Nat \ {0}
  PROVE  /\ Cardinality(OfType(T, S, k - 1)) \in Nat /\ Cardinality(OfType(T, S, k)) \in Nat
         /\ Cardinality(OfType(T, S, k))
              = Cardinality(OfType(T, S, k - 1)) + (IF T[k].type \in S THEN 1 ELSE 0)
<1>1. PICK A, B : A = OfType(T, S, k - 1) /\ B = OfType(T, S, k)
  OBVIOUS
<1>2. IsFiniteSet(1 .. k) /\ A \subseteq 1 .. k
  BY <1>1, FS_Interval DEF OfType
<1>3. IsFiniteSet(A) /\ Cardinality(A) \in Nat
  BY <1>2, FS_Subset, FS_CardinalityType
<1>4. CASE T[k].type \in S
  <2>1. B = A \cup {k} /\ k \notin A
    BY <1>1, <1>4 DEF OfType
  <2>2. Cardinality(B) = Cardinality(A) + 1
    BY <1>3, <2>1, FS_AddElement
  <2>. QED
    BY <1>1, <1>3, <1>4, <2>2
<1>5. CASE T[k].type \notin S
  <2>1. B = A
    BY <1>1, <1>5 DEF OfType
  <2>. QED
    BY <1>1, <1>3, <1>5, <2>1
<1>. QED
  BY <1>4, <1>5

LEMMA DepthAt ==
  ASSUME NEW T \in Seq(InputTokens)
  PROVE  /\ Depth(T, 0) = 0
         /\ \A k \in 1 .. Len(T) :
              /\ Depth(T, k - 1) \in Int /\ Depth(T, k) \in Int
              /\ T[k].type \in Opening => Depth(T, k) = Depth(T, k - 1) + 1
              /\ T[k].type \in Closing => Depth(T, k) = Depth(T, k - 1) - 1
              /\ T[k].type \notin Opening \cup Closing => Depth(T, k) = Depth(T, k - 1)
<1>1. \A k : Depth(T, k) = Cardinality(OfType(T, Opening, k)) - Cardinality(OfType(T, Closing, k))
  BY DEF Depth, OfType
<1>2. \A type : type \in Opening => type \notin Closing
  BY DEF Opening, Closing
<1>3. Depth(T, 0) = 0
  <2>1. OfType(T, Opening, 0) = {} /\ OfType(T, Closing, 0) = {}
    BY DEF OfType
  <2>2. Cardinality({}) = 0
    BY FS_EmptySet
  <2>. QED
    BY <1>1, <2>1, <2>2
<1>4. ASSUME NEW k \in 1 .. Len(T)
      PROVE  /\ Depth(T, k - 1) \in Int /\ Depth(T, k) \in Int
             /\ T[k].type \in Opening => Depth(T, k) = Depth(T, k - 1) + 1
             /\ T[k].type \in Closing => Depth(T, k) = Depth(T, k - 1) - 1
             /\ T[k].type \notin Opening \cup Closing => Depth(T, k) = Depth(T, k - 1)
  <2>1. PICK a, b, c, d : /\ a = Cardinality(OfType(T, Opening, k - 1))
                          /\ b = Cardinality(OfType(T, Opening, k))
                          /\ c = Cardinality(OfType(T, Closing, k - 1))
                          /\ d = Cardinality(OfType(T, Closing, k))
    OBVIOUS
  <2>2. /\ a \in Nat /\ b \in Nat /\ b = a + (IF T[k].type \in Opening THEN 1 ELSE 0)
        /\ c \in Nat /\ d \in Nat /\ d = c + (IF T[k].type \in Closing THEN 1 ELSE 0)
    BY <2>1, OfTypeAt
  <2>3. Depth(T, k - 1) = a - c /\ Depth(T, k) = b - d
    BY <1>1, <2>1
  <2>. QED
    BY <1>2, <2>2, <2>3
<1>. QED
  BY <1>3, <1>4

----------------------------------------------------------------------------
(* Spans of tokens and the terms they stand for. *)

(* The tokens from i to j end with an operand or a bracket, close every    *)
(* bracket they open, and no other.                                        *)
Flat(T, i, j) ==
  /\ i \in 1 .. Len(T) /\ j \in i .. Len(T)
  /\ T[j].type \in Operand \cup Closing
  /\ Depth(T, j) = Depth(T, i - 1)
  /\ \A l \in i .. j : Depth(T, l) >= Depth(T, i - 1)

(* They stand for t. *)
Phrase(T, M, i, j, t) == Flat(T, i, j) /\ t = M[<<i, j>>]

LEMMA OperandPhrase ==
  ASSUME NEW T \in Seq(InputTokens), NEW M, Means(T, M),
         NEW i \in 1 .. Len(T), T[i].type \in Operand
  PROVE  Phrase(T, M, i, i, Leaf(T[i].type, i)) /\ BinaryIn(T, i, i) = {}
<1>1. T[i].type # "OP" /\ T[i].type \notin Opening \cup Closing
  BY DEF Operand, Opening, Closing
<1>2. BinaryIn(T, i, i) = {}
  BY <1>1 DEF BinaryIn
<1>3. Depth(T, i) = Depth(T, i - 1) /\ Depth(T, i) \in Int
  BY <1>1, DepthAt
<1>4. Flat(T, i, i)
  BY <1>3 DEF Flat
<1>5. M[<<i, i>>] = TermOf(T, M, i, i)
  <2>1. i \in 1 .. Len(T) + 1 /\ i \in 0 .. Len(T)
    OBVIOUS
  <2>. QED
    BY <2>1, MeansAt
<1>6. TermOf(T, M, i, i) = Leaf(T[i].type, i)
  BY <1>1, <1>2 DEF TermOf
<1>. QED
  BY <1>2, <1>4, <1>5, <1>6 DEF Phrase

LEMMA BracketPhrase ==
  ASSUME NEW T \in Seq(InputTokens), NEW M, Means(T, M), NEW t,
         NEW i \in 1 .. Len(T), NEW j \in 1 .. Len(T),
         T[i].type \in Opening, T[j].type \in Closing, Phrase(T, M, i + 1, j - 1, t)
  PROVE  Phrase(T, M, i, j, t) /\ BinaryIn(T, i, j) = {}
<1>1. PICK d : d = Depth(T, i - 1) /\ d \in Int
  BY DepthAt
<1>2. /\ i + 1 \in 1 .. Len(T) /\ j - 1 \in i + 1 .. Len(T) /\ j - 1 \in 1 .. Len(T)
      /\ Depth(T, j - 1) = Depth(T, i)
      /\ \A l \in i + 1 .. j - 1 : Depth(T, l) >= Depth(T, i)
  <2>1. Flat(T, i + 1, j - 1) /\ (i + 1) - 1 = i
    BY DEF Phrase
  <2>. QED
    BY <2>1 DEF Flat
<1>3. T[i].type # "OP" /\ T[j].type # "OP"
  BY DEF Opening, Closing
<1>4. Depth(T, i) = d + 1 /\ Depth(T, j) = d
  <2>1. Depth(T, i) = d + 1
    BY <1>1, DepthAt
  <2>2. Depth(T, j) = Depth(T, j - 1) - 1
    BY DepthAt
  <2>. QED
    BY <1>1, <1>2, <2>1, <2>2
<1>5. \A l \in i + 1 .. j - 1 : Depth(T, l) \in Int /\ Depth(T, l) >= d + 1
  <2>1. \A l \in i + 1 .. j - 1 : l \in 1 .. Len(T)
    BY <1>2
  <2>. QED
    BY <1>2, <1>4, <2>1, DepthAt
<1>6. \A l \in i .. j : l = i \/ l = j \/ l \in i + 1 .. j - 1
  OBVIOUS
<1>7. Flat(T, i, j)
  <2>1. j \in i .. Len(T)
    BY <1>2
  <2>2. \A l \in i .. j : Depth(T, l) >= d
    BY <1>1, <1>4, <1>5, <1>6
  <2>. QED
    BY <1>1, <1>4, <2>1, <2>2 DEF Flat
<1>8. BinaryIn(T, i, j) = {}
  <2>1. \A l \in i .. j : T[l].type # "OP" \/ Depth(T, l) # d
    BY <1>1, <1>3, <1>5, <1>6
  <2>. QED
    BY <1>1, <2>1 DEF BinaryIn
<1>9. M[<<i, j>>] = TermOf(T, M, i, j)
  <2>1. i \in 1 .. Len(T) + 1 /\ j \in 0 .. Len(T)
    OBVIOUS
  <2>. QED
    BY <2>1, MeansAt
<1>10. TermOf(T, M, i, j) = M[<<i + 1, j - 1>>]
  <2>1. ~ (i > j)
    BY <1>2
  <2>. QED
    BY <1>3, <1>8, <2>1 DEF TermOf
<1>. QED
  BY <1>7, <1>8, <1>9, <1>10 DEF Phrase

LEMMA SignPhrase ==
  ASSUME NEW T \in Seq(InputTokens), NEW M, Means(T, M), NEW t,
         NEW i \in 1 .. Len(T), NEW j, T[i].type = "OP", IsUnaryAt(T, i),
         Phrase(T, M, i + 1, j, t), BinaryIn(T, i + 1, j) = {}
  PROVE  Phrase(T, M, i, j, Negation(T[i].value, t)) /\ BinaryIn(T, i, j) = {}
<1>1. PICK d : d = Depth(T, i - 1) /\ d \in Int
  BY DepthAt
<1>2. Depth(T, i) = d
  <2>1. T[i].type \notin Opening \cup Closing
    BY DEF Opening, Closing
  <2>. QED
    BY <1>1, <2>1, DepthAt
<1>3. /\ i + 1 \in 1 .. Len(T) /\ j \in i + 1 .. Len(T)
      /\ T[j].type \in Operand \cup Closing /\ Depth(T, j) = d
      /\ \A l \in i + 1 .. j : Depth(T, l) >= d
  <2>1. Flat(T, i + 1, j) /\ (i + 1) - 1 = i
    BY DEF Phrase
  <2>. QED
    BY <1>2, <2>1 DEF Flat
<1>4. \A l \in i .. j : l = i \/ l \in i + 1 .. j
  OBVIOUS
<1>5. Flat(T, i, j)
  <2>1. j \in i .. Len(T)
    BY <1>3
  <2>2. \A l \in i .. j : Depth(T, l) >= d
    BY <1>1, <1>2, <1>3, <1>4
  <2>. QED
    BY <1>1, <1>3, <2>1, <2>2 DEF Flat
<1>6. BinaryIn(T, i, j) = {}
  <2>1. (i + 1) - 1 = i
    OBVIOUS
  <2>2. \A l \in i + 1 .. j : T[l].type # "OP" \/ IsUnaryAt(T, l) \/ Depth(T, l) # d
    BY <1>2, <2>1 DEF BinaryIn
  <2>. QED
    BY <1>1, <1>4, <2>2 DEF BinaryIn
<1>7. M[<<i, j>>] = TermOf(T, M, i, j)
  <2>1. i \in 1 .. Len(T) + 1 /\ j \in 0 .. Len(T)
    BY <1>3
  <2>. QED
    BY <2>1, MeansAt
<1>8. TermOf(T, M, i, j) = Negation(T[i].value, M[<<i + 1, j>>])
  <2>1. ~ (i > j)
    BY <1>3
  <2>. QED
    BY <1>6, <2>1 DEF TermOf
<1>. QED
  BY <1>5, <1>6, <1>7, <1>8 DEF Phrase

(* The binary operators among them are of a higher level than p, or of no  *)
(* lower one.                                                              *)
Higher(T, i, j, p)   == \A l \in BinaryIn(T, i, j) : Precedence[T[l].value] > p
NotLower(T, i, j, p) == \A l \in BinaryIn(T, i, j) : Precedence[T[l].value] >= p

LEMMA BinaryPhrase ==
  ASSUME NEW T \in Seq(InputTokens), NEW M, Means(T, M), NEW t, NEW u, NEW i, NEW j,
         NEW k \in 1 .. Len(T), T[k].type = "OP",
         Phrase(T, M, i, k - 1, t), Phrase(T, M, k + 1, j, u),
         Higher(T, i, k - 1, Precedence[T[k].value]), NotLower(T, k + 1, j, Precedence[T[k].value])
  PROVE  /\ Phrase(T, M, i, j, Node(T[k].value, <<t, u>>))
         /\ \A l \in BinaryIn(T, i, j) :
              l \in BinaryIn(T, i, k - 1) \/ l = k \/ l \in BinaryIn(T, k + 1, j)
<1>1. /\ i \in 1 .. Len(T) /\ k - 1 \in i .. Len(T) /\ k - 1 \in 1 .. Len(T)
      /\ T[k - 1].type \in Operand \cup Closing
      /\ Depth(T, k - 1) = Depth(T, i - 1)
      /\ \A l \in i .. k - 1 : Depth(T, l) >= Depth(T, i - 1)
  BY DEF Phrase, Flat
<1>2. PICK d : d = Depth(T, i - 1) /\ d \in Int
  BY <1>1, DepthAt
<1>3. Depth(T, k) = d
  <2>1. T[k].type \notin Opening \cup Closing
    BY DEF Opening, Closing
  <2>. QED
    BY <1>1, <1>2, <2>1, DepthAt
<1>4. /\ k + 1 \in 1 .. Len(T) /\ j \in k + 1 .. Len(T)
      /\ T[j].type \in Operand \cup Closing /\ Depth(T, j) = d
      /\ \A l \in k + 1 .. j : Depth(T, l) >= d
  <2>1. Flat(T, k + 1, j) /\ (k + 1) - 1 = k
    BY DEF Phrase
  <2>. QED
    BY <1>3, <2>1 DEF Flat
<1>5. i < k /\ k < j /\ j \in 1 .. Len(T)
  BY <1>1, <1>4
<1>6. i .. j = (i .. k - 1) \cup {k} \cup (k + 1 .. j)
  BY <1>1, <1>4, <1>5
<1>7. Flat(T, i, j)
  <2>1. j \in i .. Len(T)
    BY <1>1, <1>5
  <2>2. \A l \in i .. j : Depth(T, l) >= d
    BY <1>1, <1>2, <1>3, <1>4, <1>6
  <2>. QED
    BY <1>1, <1>2, <1>4, <2>1, <2>2 DEF Flat
<1>8. ~ IsUnaryAt(T, k)
  BY <1>1, <1>5 DEF IsUnaryAt
<1>9. BinaryIn(T, i, j) = BinaryIn(T, i, k - 1) \cup {k} \cup BinaryIn(T, k + 1, j)
  <2>1. PICK Q : Q = {l \in 1 .. Len(T) : T[l].type = "OP" /\ ~ IsUnaryAt(T, l) /\ Depth(T, l) = d}
    OBVIOUS
  <2>2. k \in Q
    BY <1>3, <1>8, <2>1
  <2>3. /\ i .. j \subseteq 1 .. Len(T) /\ i .. k - 1 \subseteq 1 .. Len(T)
        /\ k + 1 .. j \subseteq 1 .. Len(T)
    BY <1>1, <1>4
  <2>4. BinaryIn(T, i, j) = (i .. j) \cap Q /\ BinaryIn(T, i, k - 1) = (i .. k - 1) \cap Q
    BY <1>2, <2>1, <2>3 DEF BinaryIn
  <2>5. BinaryIn(T, k + 1, j) = (k + 1 .. j) \cap Q
    <3>1. (k + 1) - 1 = k
      OBVIOUS
    <3>. QED
      BY <1>3, <2>1, <2>3, <3>1 DEF BinaryIn
  <2>. QED
    BY <1>6, <2>2, <2>4, <2>5
<1>10. i \in 1 .. Len(T) + 1 /\ j \in 0 .. Len(T) /\ BinaryIn(T, i, j) # {}
  BY <1>1, <1>5, <1>9
<1>11. LowestFirst(T, i, j, k)
  <2>1. PICK p : p = Precedence[T[k].value]
    OBVIOUS
  <2>2. p \in Nat
    BY <1>9, <1>10, <2>1, BinaryTyped
  <2>3. ASSUME NEW l \in BinaryIn(T, i, j)
        PROVE  p < Precedence[T[l].value] \/ (p = Precedence[T[l].value] /\ k <= l)
    <3>1. PICK q : q = Precedence[T[l].value] /\ q \in Nat
      BY <1>10, BinaryTyped
    <3>2. CASE l \in BinaryIn(T, i, k - 1)
      BY <2>1, <2>2, <3>1, <3>2 DEF Higher
    <3>3. CASE l = k
      BY <2>1, <3>1, <3>3
    <3>4. CASE l \in BinaryIn(T, k + 1, j)
      <4>1. k <= l
        BY <1>4, <3>4 DEF BinaryIn
      <4>2. q >= p
        BY <2>1, <3>1, <3>4 DEF NotLower
      <4>. QED
        BY <2>2, <3>1, <4>1, <4>2
    <3>. QED
      BY <1>9, <3>2, <3>3, <3>4
  <2>. QED
    BY <1>9, <2>1, <2>3 DEF LowestFirst
<1>12. k = AppliedLast(T, i, j)
  BY <1>10, <1>11, OneLowestFirst
<1>13. M[<<i, j>>] = TermOf(T, M, i, j)
  BY <1>10, MeansAt
<1>14. TermOf(T, M, i, j) = Node(T[k].value, <<M[<<i, k - 1>>], M[<<k + 1, j>>]>>)
  <2>1. ~ (i > j)
    BY <1>1, <1>5
  <2>. QED
    BY <1>10, <1>12, <2>1 DEF TermOf
<1>. QED
  BY <1>7, <1>9, <1>13, <1>14 DEF Phrase

----------------------------------------------------------------------------
(* What the operators and operands on the two stacks are in the input. *)

(* For an operator on the stack: its position (of a sentinel, that of the  *)
(* bracket it stands for), how many operands there were when it was        *)
(* pushed, and how many sentinels of this call are there up to it.         *)
Place == [pos : Nat, rands : Nat, open : Nat \ {0}]

Sign(op)  == op.value \in UnaryOperator \cup LogicalUnaryOperator /\ ~ IsBinary(op)
Level(op) == Precedence[op.value]

(* The operator op, at the place high, is the next on the stack after      *)
(* below, at low: a bracket or a sign stands where an operand may begin,   *)
(* and a binary operator after one, the operators of which are all of a    *)
(* higher level.                                                           *)
Above(T, M, rands, below, low, op, high) ==
  /\ high.pos \in 1 .. Len(T)
  /\ \/ /\ op.value = "sentinel" /\ T[high.pos].type \in Opening
        /\ high.pos = low.pos + 1 /\ high.rands = low.rands /\ high.open = low.open + 1
     \/ /\ Sign(op) /\ T[high.pos].type = "OP" /\ T[high.pos].value = op.value
        /\ IsUnaryAt(T, high.pos)
        /\ high.pos = low.pos + 1 /\ high.rands = low.rands /\ high.open = low.open
     \/ /\ IsBinary(op) /\ T[high.pos].type = "OP" /\ T[high.pos].value = op.value
        /\ high.rands = low.rands + 1 /\ high.open = low.open
        /\ Phrase(T, M, low.pos + 1, high.pos - 1, rands[high.rands])
        /\ ~ Sign(below) /\ Level(below) <= Level(op)
        /\ Higher(T, low.pos + 1, high.pos - 1, Level(op))

(* The operators of this call, from the sentinel of parse, the b-th, to    *)
(* the n-th.                                                               *)
Laid(T, M, ops, rands, n, b, lay) ==
  /\ n \in Nat /\ b \in 1 .. n /\ lay \in [Nat -> Place]
  /\ ops[b].value = "sentinel" /\ lay[b].pos = 0 /\ lay[b].open = 1
  /\ \A k \in b + 1 .. n : Above(T, M, rands, ops[k - 1], lay[k - 1], ops[k], lay[k])
  /\ \A k \in b .. n : \A l \in b .. k : lay[l].rands <= lay[k].rands

(* The operator op at the place top has its last operand, the last of      *)
(* the len on the stack; it ends at j.                                     *)
Complete(T, M, op, top, rands, len, j) ==
  /\ len = top.rands + 1 /\ Phrase(T, M, top.pos + 1, j, rands[len])
  /\ NotLower(T, top.pos + 1, j, Level(op))
  /\ Sign(op) => BinaryIn(T, top.pos + 1, j) = {}

LEMMA Sentineled ==
  ASSUME NEW op, op.value = "sentinel"
  PROVE  ~ IsBinary(op) /\ ~ Sign(op) /\ Level(op) = 0
BY Precedences
   DEF IsBinary, Sign, Level, BinaryOperator, UnaryOperator, LogicalBinaryOperator, LogicalUnaryOperator

LEMMA LaidStays ==
  ASSUME NEW T, NEW M, NEW ops, NEW rands, NEW n, NEW b, NEW lay,
         Laid(T, M, ops, rands, n, b, lay), NEW m \in b .. n,
         NEW ops2, NEW rands2, NEW lay2 \in [Nat -> Place],
         \A k \in 1 .. m : ops2[k] = ops[k] /\ lay2[k] = lay[k],
         \A i \in 1 .. lay[m].rands : rands2[i] = rands[i]
  PROVE  Laid(T, M, ops2, rands2, m, b, lay2)
<1>1. /\ n \in Nat /\ b \in 1 .. n /\ lay \in [Nat -> Place]
      /\ ops[b].value = "sentinel" /\ lay[b].pos = 0 /\ lay[b].open = 1
      /\ \A k \in b + 1 .. n : Above(T, M, rands, ops[k - 1], lay[k - 1], ops[k], lay[k])
      /\ \A k \in b .. n : \A l \in b .. k : lay[l].rands <= lay[k].rands
  BY DEF Laid
<1>2. \A k \in Nat : lay[k].rands \in Nat
  BY <1>1 DEF Place
<1>3. ASSUME NEW k \in b + 1 .. m
      PROVE  Above(T, M, rands2, ops2[k - 1], lay2[k - 1], ops2[k], lay2[k])
  <2>1. /\ k \in 1 .. m /\ k - 1 \in 1 .. m /\ k \in b + 1 .. n /\ k \in b .. m /\ m \in b .. n
        /\ k - 1 \in Nat
    BY <1>1
  <2>2. lay[k].rands <= lay[m].rands /\ lay[k].rands \in Nat /\ lay[k - 1].rands \in Nat
        /\ lay[m].rands \in Nat
    BY <1>1, <1>2, <2>1
  <2>3. Above(T, M, rands, ops[k - 1], lay[k - 1], ops[k], lay[k])
    BY <1>1, <2>1
  <2>4. lay[k].rands = lay[k - 1].rands + 1 => rands2[lay[k].rands] = rands[lay[k].rands]
    BY <2>2
  <2>5. Above(T, M, rands2, ops[k - 1], lay[k - 1], ops[k], lay[k])
    BY <2>3, <2>4 DEF Above
  <2>6. ops2[k - 1] = ops[k - 1] /\ ops2[k] = ops[k] /\ lay2[k - 1] = lay[k - 1] /\ lay2[k] = lay[k]
    BY <2>1
  <2>. QED
    BY <2>5, <2>6
<1>4. ASSUME NEW k \in b .. m, NEW l \in b .. k
      PROVE  lay2[l].rands <= lay2[k].rands
  <2>1. k \in b .. n /\ k \in 1 .. m /\ l \in 1 .. m
    BY <1>1
  <2>. QED
    BY <1>1, <2>1
<1>5. m \in Nat /\ b \in 1 .. m
  BY <1>1
<1>. QED
  BY <1>1, <1>3, <1>4, <1>5 DEF Laid

LEMMA LaidMore ==
  ASSUME NEW T, NEW M, NEW ops, NEW rands, NEW n, NEW b, NEW lay,
         Laid(T, M, ops, rands, n, b, lay),
         Above(T, M, rands, ops[n], lay[n], ops[n + 1], lay[n + 1])
  PROVE  Laid(T, M, ops, rands, n + 1, b, lay)
<1>1. /\ n \in Nat /\ b \in 1 .. n /\ lay \in [Nat -> Place]
      /\ ops[b].value = "sentinel" /\ lay[b].pos = 0 /\ lay[b].open = 1
      /\ \A k \in b + 1 .. n : Above(T, M, rands, ops[k - 1], lay[k - 1], ops[k], lay[k])
      /\ \A k \in b .. n : \A l \in b .. k : lay[l].rands <= lay[k].rands
  BY DEF Laid
<1>2. \A k \in Nat : lay[k].rands \in Nat
  BY <1>1 DEF Place
<1>3. lay[n].rands <= lay[n + 1].rands
  <2>1. n + 1 \in Nat
    BY <1>1
  <2>. QED
    BY <1>1, <1>2, <2>1 DEF Above
<1>4. ASSUME NEW k \in b + 1 .. n + 1
      PROVE  Above(T, M, rands, ops[k - 1], lay[k - 1], ops[k], lay[k])
  <2>1. k \in b + 1 .. n \/ (k = n + 1 /\ k - 1 = n)
    BY <1>1
  <2>. QED
    BY <1>1, <2>1
<1>5. ASSUME NEW k \in b .. n + 1, NEW l \in b .. k
      PROVE  lay[l].rands <= lay[k].rands
  <2>1. CASE k \in b .. n
    BY <1>1, <2>1
  <2>2. CASE k = n + 1 /\ l \in b .. n
    <3>1. n \in b .. n /\ l \in Nat /\ n + 1 \in Nat
      BY <1>1, <2>2
    <3>2. lay[l].rands <= lay[n].rands
      BY <1>1, <2>2, <3>1
    <3>. QED
      BY <1>1, <1>2, <1>3, <2>2, <3>1, <3>2
  <2>3. CASE k = n + 1 /\ l = n + 1
    <3>1. n + 1 \in Nat
      BY <1>1
    <3>. QED
      BY <1>2, <2>3, <3>1
  <2>4. k \in b .. n \/ (k = n + 1 /\ l \in b .. n) \/ (k = n + 1 /\ l = n + 1)
    BY <1>1
  <2>. QED
    BY <2>1, <2>2, <2>3, <2>4
<1>6. n + 1 \in Nat /\ b \in 1 .. n + 1
  BY <1>1
<1>. QED
  BY <1>1, <1>4, <1>5, <1>6 DEF Laid

(* The top of the stack and what is below it. *)
LEMMA LaidTop ==
  ASSUME NEW T, NEW M, NEW ops, NEW rands, NEW n, NEW b, NEW lay,
         Laid(T, M, ops, rands, n, b, lay)
  PROVE  /\ n \in Nat \ {0} /\ lay[n] \in Place
         /\ n = b => ops[n].value = "sentinel" /\ lay[n].pos = 0 /\ lay[n].open = 1
         /\ n # b => /\ n - 1 \in b .. n /\ n - 1 \in Nat \ {0} /\ lay[n - 1] \in Place
                     /\ Above(T, M, rands, ops[n - 1], lay[n - 1], ops[n], lay[n])
<1>1. /\ n \in Nat /\ b \in 1 .. n /\ lay \in [Nat -> Place]
      /\ ops[b].value = "sentinel" /\ lay[b].pos = 0 /\ lay[b].open = 1
      /\ \A k \in b + 1 .. n : Above(T, M, rands, ops[k - 1], lay[k - 1], ops[k], lay[k])
  BY DEF Laid
<1>2. ASSUME n # b
      PROVE  /\ n - 1 \in b .. n /\ n - 1 \in Nat \ {0} /\ lay[n - 1] \in Place
             /\ Above(T, M, rands, ops[n - 1], lay[n - 1], ops[n], lay[n])
  <2>1. n - 1 \in b .. n /\ n - 1 \in Nat \ {0} /\ n \in b + 1 .. n
    BY <1>1, <1>2
  <2>. QED
    BY <1>1, <2>1
<1>. QED
  BY <1>1, <1>2

----------------------------------------------------------------------------
(* What is popped is the operand of the operator below. *)

LEMMA SignComplete ==
  ASSUME NEW T \in Seq(InputTokens), NEW M, Means(T, M), NEW rands,
         NEW below \in OperatorToken, NEW low \in Place,
         NEW op \in OperatorToken, NEW high \in Place,
         Above(T, M, rands, below, low, op, high), Sign(op),
         NEW len, NEW j, Complete(T, M, op, high, rands, len, j),
         NEW rands2, rands2[len] = Negation(op.value, rands[len])
  PROVE  /\ Complete(T, M, below, low, rands2, len, j) /\ BinaryIn(T, low.pos + 1, j) = {}
         /\ high.open = low.open
<1>1. /\ high.pos \in 1 .. Len(T) /\ T[high.pos].type = "OP" /\ T[high.pos].value = op.value
      /\ IsUnaryAt(T, high.pos)
      /\ high.pos = low.pos + 1 /\ high.rands = low.rands /\ high.open = low.open
  BY Sentineled DEF Above, Sign
<1>2. /\ len = high.rands + 1 /\ Phrase(T, M, high.pos + 1, j, rands[len])
      /\ BinaryIn(T, high.pos + 1, j) = {}
  BY DEF Complete
<1>3. Phrase(T, M, high.pos, j, Negation(op.value, rands[len])) /\ BinaryIn(T, high.pos, j) = {}
  BY <1>1, <1>2, SignPhrase
<1>. QED
  BY <1>1, <1>2, <1>3 DEF Complete, NotLower

LEMMA BracketComplete ==
  ASSUME NEW T \in Seq(InputTokens), NEW M, Means(T, M), NEW rands,
         NEW below \in OperatorToken, NEW low \in Place,
         NEW op \in Sentinels, NEW high \in Place, Above(T, M, rands, below, low, op, high),
         NEW len, NEW e \in Nat, Complete(T, M, op, high, rands, len, e),
         e + 1 \in 1 .. Len(T), T[e + 1].type \in Closing
  PROVE  /\ Complete(T, M, below, low, rands, len, e + 1) /\ BinaryIn(T, low.pos + 1, e + 1) = {}
         /\ high.open = low.open + 1
<1>1. /\ high.pos \in 1 .. Len(T) /\ T[high.pos].type \in Opening
      /\ high.pos = low.pos + 1 /\ high.rands = low.rands /\ high.open = low.open + 1
  BY Sentineled DEF Above, Sentinels
<1>2. PICK j \in 1 .. Len(T) : j = e + 1 /\ j - 1 = e
  OBVIOUS
<1>3. len = high.rands + 1 /\ Phrase(T, M, high.pos + 1, j - 1, rands[len])
  BY <1>2 DEF Complete
<1>4. Phrase(T, M, high.pos, j, rands[len]) /\ BinaryIn(T, high.pos, j) = {}
  BY <1>1, <1>2, <1>3, BracketPhrase
<1>. QED
  BY <1>1, <1>2, <1>3, <1>4 DEF Complete, NotLower

LEMMA BinaryComplete ==
  ASSUME NEW T \in Seq(InputTokens), NEW M, Means(T, M), NEW rands,
         NEW below \in OperatorToken, NEW low \in Place,
         NEW op \in OperatorToken, NEW high \in Place,
         Above(T, M, rands, below, low, op, high), IsBinary(op),
         NEW len, NEW j, Complete(T, M, op, high, rands, len, j),
         NEW rands2, rands2[len - 1] = Node(op.value, <<rands[len - 1], rands[len]>>)
  PROVE  /\ Complete(T, M, below, low, rands2, len - 1, j) /\ high.open = low.open
         /\ high.rands = low.rands + 1
         /\ \A q \in Nat :
              Level(op) > q /\ Higher(T, high.pos + 1, j, q) => Higher(T, low.pos + 1, j, q)
<1>1. PICK k : k = high.pos
  OBVIOUS
<1>2. /\ k \in 1 .. Len(T) /\ T[k].type = "OP" /\ T[k].value = op.value
      /\ high.rands = low.rands + 1 /\ high.open = low.open
      /\ Phrase(T, M, low.pos + 1, k - 1, rands[high.rands])
      /\ ~ Sign(below) /\ Level(below) <= Level(op)
      /\ Higher(T, low.pos + 1, k - 1, Level(op))
  <2>1. op.value # "sentinel" /\ ~ Sign(op)
    BY Sentineled DEF Sign
  <2>. QED
    BY <1>1, <2>1 DEF Above
<1>3. /\ len = high.rands + 1 /\ Phrase(T, M, k + 1, j, rands[len])
      /\ NotLower(T, k + 1, j, Level(op))
  BY <1>1 DEF Complete
<1>4. high.rands \in Nat /\ low.rands \in Nat /\ len - 1 = high.rands /\ len - 1 = low.rands + 1
  BY <1>2, <1>3 DEF Place
<1>5. Level(op) = Precedence[T[k].value] /\ Level(op) \in Nat /\ Level(below) \in Nat
  BY <1>2, Precedences DEF Level, OperatorToken
<1>6. /\ Phrase(T, M, low.pos + 1, j, Node(T[k].value, <<rands[high.rands], rands[len]>>))
      /\ \A l \in BinaryIn(T, low.pos + 1, j) :
           l \in BinaryIn(T, low.pos + 1, k - 1) \/ l = k \/ l \in BinaryIn(T, k + 1, j)
  <2>1. PICK i : i = low.pos + 1
    OBVIOUS
  <2>2. /\ Higher(T, i, k - 1, Precedence[T[k].value])
        /\ NotLower(T, k + 1, j, Precedence[T[k].value])
    BY <1>2, <1>3, <1>5, <2>1
  <2>3. PICK t, u : t = rands[high.rands] /\ u = rands[len]
    OBVIOUS
  <2>4. Phrase(T, M, i, k - 1, t) /\ Phrase(T, M, k + 1, j, u)
    BY <1>2, <1>3, <2>1, <2>3
  <2>5. k \in 1 .. Len(T) /\ T[k].type = "OP"
    BY <1>2
  <2>6. Phrase(T, M, i, j, Node(T[k].value, <<t, u>>))
    BY <2>2, <2>4, <2>5, BinaryPhrase, Zenon
  <2>7. \A l \in BinaryIn(T, i, j) :
          l \in BinaryIn(T, i, k - 1) \/ l = k \/ l \in BinaryIn(T, k + 1, j)
    BY <2>2, <2>4, <2>5, BinaryPhrase, Zenon
  <2>. QED
    BY <2>1, <2>3, <2>6, <2>7
<1>7. low.pos + 1 \in 1 .. Len(T) /\ j \in 1 .. Len(T)
  <2>1. Flat(T, low.pos + 1, j)
    BY <1>6 DEF Phrase
  <2>. QED
    BY <2>1 DEF Flat
<1>8. \A l \in BinaryIn(T, low.pos + 1, j) : Precedence[T[l].value] \in Nat
  BY <1>7, BinaryTyped
<1>9. ASSUME NEW l \in BinaryIn(T, low.pos + 1, j)
      PROVE  Precedence[T[l].value] >= Level(op)
  <2>1. PICK p : p = Precedence[T[l].value] /\ p \in Nat
    BY <1>8
  <2>2. p > Level(op) \/ l = k \/ p >= Level(op)
    BY <1>2, <1>3, <1>6, <2>1 DEF Higher, NotLower
  <2>. QED
    BY <1>5, <2>1, <2>2
<1>10. Complete(T, M, below, low, rands2, len - 1, j)
  <2>1. rands2[len - 1] = Node(T[k].value, <<rands[high.rands], rands[len]>>)
    BY <1>2, <1>4
  <2>2. NotLower(T, low.pos + 1, j, Level(below))
    BY <1>2, <1>5, <1>8, <1>9 DEF NotLower
  <2>. QED
    BY <1>2, <1>4, <1>6, <2>1, <2>2 DEF Complete
<1>11. ASSUME NEW q \in Nat, Level(op) > q, Higher(T, k + 1, j, q)
       PROVE  Higher(T, low.pos + 1, j, q)
  BY <1>2, <1>5, <1>6, <1>8, <1>11 DEF Higher
<1>. QED
  BY <1>1, <1>2, <1>10, <1>11

----------------------------------------------------------------------------
(* Pushing and popping, as changes of the two stacks. *)

LEMMA SignsGiveWay ==
  ASSUME NEW op \in OperatorToken, Sign(op), NEW second, second.binary,
         second.value \in BinaryOperator \cup LogicalBinaryOperator
  PROVE  hasHigherPrecedence(op, second)
<1>1. /\ Precedence["abs"] = 13 /\ Precedence["!"] = 12
      /\ \A name \in BinaryOperator \cup LogicalBinaryOperator : Precedence[name] \in 0 .. 11
  BY DEF Precedence, BinaryOperator, UnaryOperator, LogicalBinaryOperator, LogicalUnaryOperator
<1>2. op.value = "-" => ~ op.binary
  BY DEF Sign, IsBinary, BinaryOperator
<1>3. op.value \in {"-", "abs", "!"}
  BY DEF Sign, UnaryOperator, LogicalUnaryOperator
<1>4. Precedence[second.value] \in 0 .. 11
  BY <1>1
<1>. QED
  BY <1>1, <1>2, <1>3, <1>4 DEF hasHigherPrecedence

(* An operator is pushed at the place p. *)
LEMMA LaidPush ==
  ASSUME NEW T, NEW M, NEW ops \in Seq(OperatorToken), NEW rands, NEW b, NEW lay,
         Laid(T, M, ops, rands, Len(ops), b, lay),
         NEW op \in OperatorToken, NEW p \in Place,
         Above(T, M, rands, Last(ops), lay[Len(ops)], op, p)
  PROVE  LET more == Append(ops, op)
         IN  \E lay2 : /\ Laid(T, M, more, rands, Len(more), b, lay2)
                       /\ lay2[Len(more)] = p /\ Last(more) = op
<1>1. PICK n, more : n = Len(ops) /\ more = Append(ops, op)
  OBVIOUS
<1>2. /\ n \in Nat \ {0} /\ lay \in [Nat -> Place] /\ b \in 1 .. n
  BY <1>1 DEF Laid
<1>3. /\ Len(more) = n + 1 /\ more[n + 1] = op /\ Last(more) = op /\ Last(ops) = ops[n]
      /\ \A k \in 1 .. n : more[k] = ops[k]
  BY <1>1, <1>2 DEF Last
<1>4. PICK lay2 : lay2 = [lay EXCEPT ![n + 1] = p]
  OBVIOUS
<1>5. lay2 \in [Nat -> Place] /\ lay2[n + 1] = p /\ \A k \in 1 .. n : lay2[k] = lay[k]
  BY <1>2, <1>4
<1>6. Laid(T, M, more, rands, n, b, lay2)
  <2>1. n \in b .. n /\ Laid(T, M, ops, rands, n, b, lay)
    BY <1>1, <1>2
  <2>2. \A k \in 1 .. n : more[k] = ops[k] /\ lay2[k] = lay[k]
    BY <1>3, <1>5
  <2>3. \A i \in 1 .. lay[n].rands : rands[i] = rands[i]
    OBVIOUS
  <2>. QED
    BY <1>5, <2>1, <2>2, <2>3, LaidStays
<1>7. Above(T, M, rands, more[n], lay2[n], more[n + 1], lay2[n + 1])
  <2>1. more[n] = ops[n] /\ lay2[n] = lay[n]
    BY <1>2, <1>3, <1>5
  <2>. QED
    BY <1>1, <1>3, <1>5, <2>1
<1>8. Laid(T, M, more, rands, n + 1, b, lay2)
  BY <1>6, <1>7, LaidMore
<1>. QED
  BY <1>1, <1>3, <1>5, <1>8

(* The stack of operands after it has lost the ones from the n-th on and   *)
(* got e.                                                                  *)
LEMMA OperandsAfter ==
  ASSUME OperandRead, NEW n \in 0 .. Len(operands), NEW e, NEW rands,
         rands = Append(SubSeq(operands, 1, n), e)
  PROVE  Len(rands) = n + 1 /\ Last(rands) = e /\ rands[n + 1] = e /\ \A i \in 1 .. n : rands[i] = operands[i]
<1>1. PICK S : S = {operands[i] : i \in 1 .. Len(operands)} \cup {e}
  OBVIOUS
<1>2. operands = [i \in 1 .. Len(operands) |-> operands[i]] /\ Len(operands) \in Nat
  BY DEF OperandRead
<1>3. \A i \in 1 .. n : operands[i] \in S
  BY <1>1, <1>2
<1>4. /\ SubSeq(operands, 1, n) \in Seq(S)
      /\ Len(SubSeq(operands, 1, n)) = IF 1 <= n THEN n - 1 + 1 ELSE 0
      /\ \A i \in 1 .. n - 1 + 1 : SubSeq(operands, 1, n)[i] = operands[1 + i - 1]
  BY <1>3, SubSeqProperties, 1 \in Int, n \in Int
<1>5. PICK s : s = SubSeq(operands, 1, n)
  OBVIOUS
<1>6. s \in Seq(S) /\ Len(s) = n /\ \A i \in 1 .. n : s[i] = operands[i]
  BY <1>2, <1>4, <1>5
<1>7. e \in S
  BY <1>1
<1>. QED
  BY <1>5, <1>6, <1>7 DEF Last

LEMMA OperandsAppended ==
  ASSUME OperandRead, NEW e, NEW rands, rands = Append(operands, e)
  PROVE  /\ Len(rands) = Len(operands) + 1 /\ rands[Len(operands) + 1] = e
         /\ \A i \in 1 .. Len(operands) : rands[i] = operands[i]
<1>1. PICK S : S = {operands[i] : i \in 1 .. Len(operands)} \cup {e}
  OBVIOUS
<1>2. operands = [i \in 1 .. Len(operands) |-> operands[i]] /\ Len(operands) \in Nat
  BY DEF OperandRead
<1>3. operands \in Seq(S) /\ e \in S
  BY <1>1, <1>2
<1>. QED
  BY <1>3

(* The operands that are popped. *)
LEMMA PoppedOperands ==
  ASSUME OperandRead, NEW n, n = Len(operands)
  PROVE  /\ n >= 1 => SubSeq(operands, n, n)[1] = operands[n]
         /\ n >= 2 => SubSeq(operands, n - 1, n) = <<operands[n - 1], operands[n]>>
<1>1. PICK S : S = {operands[i] : i \in 1 .. n}
  OBVIOUS
<1>2. operands = [i \in 1 .. n |-> operands[i]] /\ n \in Nat
  BY DEF OperandRead
<1>3. \A i \in 1 .. n : operands[i] \in S
  BY <1>1, <1>2
<1>4. ASSUME n >= 1
      PROVE  SubSeq(operands, n, n)[1] = operands[n]
  <2>1. \A i \in n .. n : operands[i] \in S
    BY <1>3, <1>4
  <2>2. \A i \in 1 .. n - n + 1 : SubSeq(operands, n, n)[i] = operands[n + i - 1]
    BY <1>2, <2>1, SubSeqProperties, n \in Int
  <2>3. 1 \in 1 .. n - n + 1 /\ n + 1 - 1 = n
    BY <1>2
  <2>. QED
    BY <2>2, <2>3
<1>5. ASSUME n >= 2
      PROVE  SubSeq(operands, n - 1, n) = <<operands[n - 1], operands[n]>>
  <2>1. \A i \in n - 1 .. n : operands[i] \in S
    BY <1>2, <1>3, <1>5
  <2>2. PICK m \in Int : m = n - 1
    BY <1>2
  <2>3. /\ SubSeq(operands, m, n) \in Seq(S)
        /\ Len(SubSeq(operands, m, n)) = IF m <= n THEN n - m + 1 ELSE 0
        /\ \A i \in 1 .. n - m + 1 : SubSeq(operands, m, n)[i] = operands[m + i - 1]
    <3>1. \A i \in m .. n : operands[i] \in S
      BY <2>1, <2>2
    <3>. QED
      BY <1>2, <3>1, SubSeqProperties, n \in Int
  <2>9. PICK s : s = SubSeq(operands, m, n)
    OBVIOUS
  <2>4. Len(s) = 2 /\ s[1] = operands[n - 1] /\ s[2] = operands[n]
    <3>1. n - m + 1 = 2 /\ m <= n /\ m + 1 - 1 = n - 1 /\ m + 2 - 1 = n
      BY <1>2, <2>2
    <3>. QED
      BY <2>3, <2>9, <3>1
  <2>5. PICK t : t = <<operands[n - 1], operands[n]>>
    OBVIOUS
  <2>6. t \in Seq(S) /\ Len(t) = 2 /\ t[1] = operands[n - 1] /\ t[2] = operands[n]
    <3>1. n - 1 \in n - 1 .. n /\ n \in n - 1 .. n
      BY <1>2
    <3>2. operands[n - 1] \in S /\ operands[n] \in S
      BY <2>1, <3>1
    <3>. QED
      BY <2>5, <3>2
  <2>7. \A i \in 1 .. 2 : s[i] = t[i]
    BY <2>4, <2>6
  <2>8. s = t
    BY <2>3, <2>9, <2>4, <2>6, <2>7, SeqEqual
  <2>. QED
    BY <2>2, <2>9, <2>5, <2>8
<1>. QED
  BY <1>4, <1>5

----------------------------------------------------------------------------
(* The place of the operator on top, by where the innermost activation is: *)
(* an operand is missing at what is looked at, or behind the parenthesis;  *)
(* there is one that ends there; or the bracket behind it is closed.       *)
Placed(T, M, top) ==
  /\ top.open = Count(stack, Holding)
  /\ Last(stack).pc = "enter" => Len(operands) = top.rands /\ Done = top.pos
  /\ Last(stack).pc = "open"
       => Len(operands) = top.rands /\ Done = top.pos + 1 /\ T[Done].type = "LPAREN"
  /\ Last(stack).pc \in {"loop", "close", "end"}
       => Complete(T, M, Last(operators), top, operands, Len(operands), Done)
  /\ Last(stack).pc \in {"drain", "closed"}
       => /\ Complete(T, M, Last(operators), top, operands, Len(operands), Done - 1)
          /\ Done \in 1 .. Len(T) /\ T[Done].type \in Closing
  /\ Last(stack).pc = "loop" /\ Pushing
       => Higher(T, top.pos + 1, Done, Precedence[next.value])

(* What is on the stacks stands for the input that is consumed. *)
Built(T, M) ==
  \E b, lay : /\ Laid(T, M, operators, operands, Len(operators), b, lay)
              /\ Placed(T, M, lay[Len(operators)])

(* Whatever tokens may follow, unless a minus stands in front of abs. *)
TermsRight ==
  /\ status = "parsing" /\ ~ AtEnter({"parse"})
       => \A T, M : Extends(T) /\ Means(T, M) => Built(T, M)
  /\ status = "returned" => result = Meaning(read)

TermInv == GrammarInv /\ (~ MinusBeforeAbs => TermsRight)

----------------------------------------------------------------------------
(* Steps, by what they do to the stack of activations. *)

LEMMA CalledAt ==
  ASSUME ParserInv, NEW procs, NEW old, At(procs, old), NEW pc, NEW proc, Call(pc, proc),
         NEW fr \in Procedure, fr = [proc |-> Last(stack).proc, pc |-> pc],
         fr.proc = "parse" => pc = "end", proc \in {"E", "LogicEXP", "P", "LP"}
  PROVE  /\ Last(stack').proc = proc /\ Last(stack').pc = "enter"
         /\ Count(stack', Holding) = Count(stack, Holding) + One(fr, Holding) - One(Last(stack), Holding)
<1>1. ParserTypes /\ ParseOutermost /\ status = "parsing"
  BY DEF ParserInv, At
<1>2. PICK callee : callee = Activation(proc)
  OBVIOUS
<1>3. /\ callee \in Procedure /\ callee.proc = proc /\ callee.pc = "enter"
      /\ callee.proc # "parse" /\ callee \notin Holding
  BY <1>2 DEF Activation, Procedure, Holding
<1>4. stack' = Append(Append(Front(stack), fr), callee)
  BY <1>1, <1>2, Continued
<1>5. fr.proc = Last(stack).proc /\ (fr.proc = "parse" => fr.pc = "end")
  OBVIOUS
<1>6. /\ Last(stack') = callee
      /\ Count(stack', Holding) = Count(stack, Holding) + One(fr, Holding) + One(callee, Holding)
                                    - One(Last(stack), Holding)
  BY <1>1, <1>3, <1>4, <1>5, Called
<1>7. /\ One(callee, Holding) = 0 /\ One(fr, Holding) \in Nat /\ One(Last(stack), Holding) \in Nat
      /\ Count(stack, Holding) \in Nat
  BY <1>1, <1>3, CountsTyped DEF One
<1>. QED
  BY <1>3, <1>6, <1>7

LEMMA ReplacedAt ==
  ASSUME ParserInv, status = "parsing", NEW fr \in Procedure,
         fr.proc # "parse", Last(stack).proc # "parse",
         stack' = Append(Front(stack), fr), fr \in Holding <=> Last(stack) \in Holding
  PROVE  Last(stack') = fr /\ Count(stack', Holding) = Count(stack, Holding)
<1>1. ParserTypes /\ ParseOutermost
  BY DEF ParserInv
<1>2. /\ Last(stack') = fr
      /\ Count(stack', Holding) = Count(stack, Holding) + One(fr, Holding) - One(Last(stack), Holding)
  BY <1>1, Replaced
<1>3. One(fr, Holding) = One(Last(stack), Holding) /\ One(fr, Holding) \in Nat
  BY DEF One
<1>4. Count(stack, Holding) \in Nat
  BY <1>1, CountsTyped
<1>. QED
  BY <1>2, <1>3, <1>4

LEMMA ReturnedAt ==
  ASSUME ParserInv, Enclosed, status = "parsing", Return, Last(stack).proc # "parse"
  PROVE  /\ Last(stack').pc \in {"loop", "close", "end"}
         /\ Count(stack', Holding) = Count(stack, Holding) - One(Last(stack), Holding)
         /\ Count(stack', Holding) \in Nat \ {0}
<1>1. ParserTypes /\ ParseOutermost
  BY DEF ParserInv
<1>2. stack' = Front(stack)
  BY DEF Return
<1>3. /\ stack' \in Seq(Procedure) /\ Outermost(stack')
      /\ Count(stack', Holding) = Count(stack, Holding) - One(Last(stack), Holding)
  BY <1>1, <1>2, Returned
<1>4. Last(stack').pc \in {"loop", "close", "end"}
  BY ReturnsTo
<1>5. Count(stack', Holding) > 0
  <2>1. PICK n : n = Len(stack') /\ n \in Nat \ {0}
    BY <1>3, TopOfStack DEF Outermost
  <2>2. stack'[1] \in Procedure /\ stack'[1].proc = "parse" /\ 1 \in 1 .. Len(stack')
    BY <1>3, <2>1 DEF Outermost
  <2>3. stack'[1].pc = "end"
    <3>1. CASE n = 1
      <4>1. Last(stack') = stack'[1]
        BY <2>1, <3>1 DEF Last
      <4>. QED
        BY <1>4, <2>2, <4>1 DEF Procedure
    <3>2. CASE n # 1
      BY <1>3, <2>1, <3>2 DEF Outermost
    <3>. QED
      BY <3>1, <3>2
  <2>4. stack'[1] \in Holding
    BY <2>2, <2>3 DEF Holding
  <2>. QED
    BY <1>3, <2>2, <2>4, CountFound
<1>6. Count(stack', Holding) \in Nat
  BY <1>3, CountType
<1>. QED
  BY <1>3, <1>4, <1>5, <1>6

(* Where E has been called, the activation that waits is not in a loop. *)
LEMMA ExpressionReturns ==
  ASSUME GrammarInv, status = "parsing", Return, Last(stack).proc = "E", NEW T, Extends(T)
  PROVE  Last(stack').pc # "loop"
<1>1. T \in Seq(InputTokens)
  BY DEF Extends
<1>2. PICK D : Solves(T, D)
  BY <1>1, DerivationsExist
<1>3. PICK x, a : Reading(T, D, x, a)
  BY <1>2 DEF GrammarInv, Progress
<1>4. x = "Expression" /\ Chained(T, D, Front(stack), x, a)
  BY <1>3 DEF Reading, Reads
<1>5. PICK s : s = Front(stack) /\ stack' = s
  BY DEF Return
<1>6. s \in Seq(Procedure) /\ Len(s) = Len(stack) - 1 /\ Len(stack) \in Nat \ {0} /\ Len(stack) # 1
  BY <1>5, InnermostProcedure DEF GrammarInv, InputInv, ParserInv
<1>7. s # <<>>
  BY <1>6
<1>8. s = Append(Front(s), Last(s)) /\ Front(s) \in Seq(Procedure) /\ Last(s) \in Procedure
  BY <1>6, <1>7, PopPush, TopOfStack
<1>9. Chained(T, D, Append(Front(s), Last(s)), x, a)
  BY <1>4, <1>5, <1>8
<1>10. PICK y, b : Waits(T, D, Last(s), y, b, x, a)
  BY <1>8, <1>9, ChainedAppend
<1>11. Last(s).pc \in {"end", "close"}
  BY <1>4, <1>10 DEF Waits
<1>. QED
  BY <1>5, <1>11

(* Steps within a call of parse. *)
LEMMA StepBuilds ==
  ASSUME TermInv, GrammarInv', status = "parsing", status' = "parsing", ~ AtEnter({"parse"}),
         consume \/ UNCHANGED read, \A T : Extends(T)' => Extends(T),
         \A T, M : /\ Extends(T) /\ Means(T, M) /\ ~ MinusBeforeAbs /\ Built(T, M)
                   => Built(T, M)'
  PROVE  TermInv'
<1>1. ParserInv /\ History
  BY DEF TermInv, GrammarInv, InputInv
<1>2. ASSUME ~ MinusBeforeAbs'
      PROVE  TermsRight'
  <2>1. ~ MinusBeforeAbs
    BY <1>1, <1>2, MinusStays
  <2>2. \A T, M : Extends(T) /\ Means(T, M) => Built(T, M)
    BY <2>1 DEF TermInv, TermsRight
  <2>3. ASSUME NEW T, NEW M, Extends(T)', Means(T, M)
        PROVE  Built(T, M)'
    <3>1. Extends(T)
      BY <2>3
    <3>. QED
      BY <2>1, <2>2, <2>3, <3>1
  <2>. QED
    BY <2>3 DEF TermsRight
<1>. QED
  BY <1>2 DEF TermInv

(* Steps that leave the operators and the operands alone. *)
LEMMA StacksStay ==
  ASSUME NEW T, NEW M, Built(T, M), UNCHANGED <<operators, operands>>,
         \A top \in Place : Placed(T, M, top) => Placed(T, M, top)'
  PROVE  Built(T, M)'
<1>1. PICK b, lay : /\ Laid(T, M, operators, operands, Len(operators), b, lay)
                    /\ Placed(T, M, lay[Len(operators)])
  BY DEF Built
<1>2. PICK top : top = lay[Len(operators)]
  OBVIOUS
<1>3. top \in Place
  BY <1>1, <1>2, LaidTop
<1>4. Placed(T, M, top)'
  BY <1>1, <1>2, <1>3
<1>5. Laid(T, M, operators, operands, Len(operators), b, lay)' /\ top = lay[Len(operators)]'
  BY <1>1, <1>2
<1>. QED
  BY <1>4, <1>5 DEF Built

(* Steps that push op. *)
LEMMA PushBuilds ==
  ASSUME ParserInv, NEW T, NEW M, Built(T, M), NEW op \in OperatorToken,
         operators' = Append(operators, op), UNCHANGED operands,
         \A below \in Place : Placed(T, M, below) =>
           \E p \in Place : /\ Above(T, M, operands, Last(operators), below, op, p)
                            /\ (Last(operators)' = op => Placed(T, M, p)')
  PROVE  Built(T, M)'
<1>1. PICK b, lay : /\ Laid(T, M, operators, operands, Len(operators), b, lay)
                    /\ Placed(T, M, lay[Len(operators)])
  BY DEF Built
<1>2. lay[Len(operators)] \in Place
  BY <1>1, LaidTop
<1>3. PICK p \in Place : /\ Above(T, M, operands, Last(operators), lay[Len(operators)], op, p)
                         /\ Last(operators)' = op => Placed(T, M, p)'
  BY <1>1, <1>2
<1>4. operators \in Seq(OperatorToken)
  BY DEF ParserInv, ParserTypes
<1>5. PICK lay2 : /\ Laid(T, M, operators', operands, Len(operators'), b, lay2)
                  /\ lay2[Len(operators')] = p /\ Last(operators') = op
  BY <1>1, <1>3, <1>4, LaidPush
<1>6. Laid(T, M, operators, operands, Len(operators), b, lay2)' /\ p = lay2[Len(operators)]'
  BY <1>5
<1>7. Placed(T, M, p)'
  BY <1>3, <1>5
<1>. QED
  BY <1>6, <1>7 DEF Built

----------------------------------------------------------------------------
(* The actions. *)

LEMMA TermParts ==
  ASSUME TermInv
  PROVE  /\ GrammarInv /\ InputInv /\ ParserInv /\ ParserTypes /\ ParseOutermost
         /\ OperandRead /\ Enclosed /\ History /\ TopBefore
BY DEF TermInv, GrammarInv, InputInv, ParserInv

(* Where the innermost activation goes on at pc, and nothing is popped. *)
LEMMA GoesOnBuilds ==
  ASSUME TermInv, GrammarInv', status = "parsing", status' = "parsing",
         NEW fr \in Procedure, fr.proc # "parse", Last(stack).proc # "parse",
         stack' = Append(Front(stack), fr), fr \in Holding <=> Last(stack) \in Holding,
         UNCHANGED <<operators, operands>>, consume, next.type # "END",
         \/ Last(stack).pc = "enter" /\ fr.pc = "open" /\ next.type = "LPAREN"
         \/ /\ Last(stack).pc \in {"loop", "close"} /\ fr.pc \in {"drain", "closed"}
            /\ next.type \in Closing
  PROVE  TermInv'
<1>1. InputInv /\ ParserInv
  BY TermParts
<1>2. Last(stack') = fr /\ Count(stack', Holding) = Count(stack, Holding)
  BY <1>1, ReplacedAt
<1>3. Done \in Nat /\ Done' = Done + 1 /\ \A T : Extends(T)' => Extends(T)
  BY <1>1, ConsumesOne
<1>4. ASSUME NEW T, NEW M, Extends(T), NEW top \in Place, Placed(T, M, top)
      PROVE  Placed(T, M, top)'
  <2>1. Done' \in 1 .. Len(T) /\ T[Done'] = next /\ Done' - 1 = Done
    BY <1>1, <1>3, <1>4, LookedAt
  <2>2. top.open = Count(stack', Holding)
    BY <1>2, <1>4 DEF Placed
  <2>3. CASE Last(stack).pc = "enter" /\ fr.pc = "open" /\ next.type = "LPAREN"
    <3>1. Len(operands) = top.rands /\ Done = top.pos
      BY <1>4, <2>3 DEF Placed
    <3>. QED
      BY <1>2, <1>3, <2>1, <2>2, <2>3, <3>1 DEF Placed
  <2>4. CASE Last(stack).pc \in {"loop", "close"} /\ fr.pc \in {"drain", "closed"} /\ next.type \in Closing
    <3>1. Complete(T, M, Last(operators), top, operands, Len(operands), Done)
      BY <1>4, <2>4 DEF Placed
    <3>2. Complete(T, M, Last(operators'), top, operands', Len(operands'), Done' - 1)
      BY <2>1, <3>1
    <3>. QED
      BY <1>2, <2>1, <2>2, <2>4, <3>2 DEF Placed
  <2>. QED
    BY <2>3, <2>4
<1>5. \A T, M : Extends(T) /\ Built(T, M) => Built(T, M)'
  BY <1>4, StacksStay
<1>6. ~ AtEnter({"parse"})
  BY DEF AtEnter
<1>. QED
  BY <1>3, <1>5, <1>6, StepBuilds

LEMMA OpenParenthesisBuilds ==
  ASSUME TermInv, GrammarInv', OpenParenthesis
  PROVE  TermInv'
<1>1. /\ At({"P", "LP"}, "enter") /\ next.type = "LPAREN" /\ consume /\ Goto("open")
      /\ UNCHANGED <<operators, operands, status>>
  BY DEF OpenParenthesis
<1>2. ParserTypes /\ ParseOutermost
  BY TermParts
<1>3. /\ status = "parsing" /\ Last(stack) \in Procedure
      /\ Last(stack).proc \in {"P", "LP"} /\ Last(stack).pc = "enter"
  BY <1>1, <1>2, InnermostAt
<1>4. PICK fr : fr = [proc |-> Last(stack).proc, pc |-> "open"]
  OBVIOUS
<1>5. fr \in Procedure /\ fr.proc # "parse" /\ fr.pc = "open" /\ (fr \in Holding <=> Last(stack) \in Holding)
  BY <1>3, <1>4 DEF Procedure, Holding
<1>6. stack' = Append(Front(stack), fr)
  BY <1>1, <1>2, <1>4, Continued
<1>. QED
  BY <1>1, <1>3, <1>5, <1>6, GoesOnBuilds

LEMMA CloseBuilds ==
  ASSUME TermInv, GrammarInv', CloseParenthesis \/ CloseLogicEXP
  PROVE  TermInv'
<1>1. ParserTypes /\ ParseOutermost
  BY TermParts
<1>2. CASE CloseParenthesis
  <2>1. /\ At({"P", "LP"}, "close") /\ next.type = "RPAREN" /\ consume /\ Goto("closed")
        /\ UNCHANGED <<operators, operands, status>>
    BY <1>2 DEF CloseParenthesis
  <2>2. /\ status = "parsing" /\ Last(stack) \in Procedure
        /\ Last(stack).proc \in {"P", "LP"} /\ Last(stack).pc = "close"
    BY <1>1, <2>1, InnermostAt
  <2>3. PICK fr : fr = [proc |-> Last(stack).proc, pc |-> "closed"]
    OBVIOUS
  <2>4. /\ fr \in Procedure /\ fr.proc # "parse" /\ fr.pc = "closed"
        /\ fr \in Holding /\ Last(stack) \in Holding
    BY <2>2, <2>3 DEF Procedure, Holding
  <2>5. stack' = Append(Front(stack), fr)
    BY <1>1, <2>1, <2>3, Continued
  <2>6. next.type \in Closing /\ next.type # "END"
    BY <2>1 DEF Closing
  <2>. QED
    BY <2>1, <2>2, <2>4, <2>5, <2>6, GoesOnBuilds
<1>3. CASE CloseLogicEXP
  <2>1. /\ At({"LogicEXP"}, "loop") /\ next.type = "RSQRBRACK" /\ consume /\ Goto("drain")
        /\ UNCHANGED <<operators, operands, status>>
    BY <1>3 DEF CloseLogicEXP
  <2>2. /\ status = "parsing" /\ Last(stack) \in Procedure
        /\ Last(stack).proc = "LogicEXP" /\ Last(stack).pc = "loop"
    BY <1>1, <2>1, InnermostAt
  <2>3. PICK fr : fr = [proc |-> Last(stack).proc, pc |-> "drain"]
    OBVIOUS
  <2>4. /\ fr \in Procedure /\ fr.proc # "parse" /\ fr.pc = "drain"
        /\ fr \in Holding /\ Last(stack) \in Holding
    BY <2>2, <2>3 DEF Procedure, Holding
  <2>5. stack' = Append(Front(stack), fr)
    BY <1>1, <2>1, <2>3, Continued
  <2>6. next.type \in Closing /\ next.type # "END"
    BY <2>1 DEF Closing
  <2>. QED
    BY <2>1, <2>2, <2>4, <2>5, <2>6, GoesOnBuilds
<1>. QED
  BY <1>2, <1>3

(* Where an operand is missing still, for another activation. *)
LEMMA StillMissing ==
  ASSUME TermInv, GrammarInv', status = "parsing", status' = "parsing", ~ AtEnter({"parse"}),
         UNCHANGED <<next, read, operators, operands>>,
         Last(stack).pc = "enter", Last(stack').pc = "enter",
         Count(stack', Holding) = Count(stack, Holding)
  PROVE  TermInv'
<1>1. Done' = Done /\ \A T : Extends(T)' => Extends(T)
  BY StaysLookedAt
<1>2. \A T, M : \A top \in Place : Placed(T, M, top) => Placed(T, M, top)'
  BY <1>1 DEF Placed
<1>3. \A T, M : Built(T, M) => Built(T, M)'
  BY <1>2, StacksStay
<1>. QED
  BY <1>1, <1>3, StepBuilds

LEMMA EnterEBuilds ==
  ASSUME TermInv, GrammarInv', EnterE
  PROVE  TermInv'
<1>1. /\ At({"E"}, "enter") /\ UNCHANGED <<next, read, operators, operands, status>>
  BY DEF EnterE
<1>2. ParserInv /\ ParserTypes /\ ParseOutermost
  BY TermParts
<1>3. /\ status = "parsing" /\ Last(stack) \in Procedure
      /\ Last(stack).proc = "E" /\ Last(stack).pc = "enter"
  BY <1>1, <1>2, InnermostAt
<1>4. PICK proc : Call("loop", proc) /\ proc \in {"LogicEXP", "P"}
  BY DEF EnterE
<1>5. PICK fr : fr = [proc |-> Last(stack).proc, pc |-> "loop"]
  OBVIOUS
<1>6. /\ fr \in Procedure /\ fr.proc # "parse" /\ fr.pc = "loop"
      /\ fr \notin Holding /\ Last(stack) \notin Holding
  BY <1>3, <1>5 DEF Procedure, Holding
<1>7. /\ Last(stack').pc = "enter"
      /\ Count(stack', Holding) = Count(stack, Holding) + One(fr, Holding) - One(Last(stack), Holding)
  BY <1>1, <1>2, <1>4, <1>5, <1>6, CalledAt
<1>8. One(fr, Holding) = 0 /\ One(Last(stack), Holding) = 0 /\ Count(stack, Holding) \in Nat
  BY <1>2, <1>6, CountsTyped DEF One
<1>9. ~ AtEnter({"parse"})
  BY <1>3 DEF AtEnter
<1>. QED
  BY <1>1, <1>3, <1>7, <1>8, <1>9, StillMissing

LEMMA NestedLogicEXPBuilds ==
  ASSUME TermInv, GrammarInv', NestedLogicEXP
  PROVE  TermInv'
<1>1. /\ At({"P", "LP"}, "enter") /\ TailCall("LogicEXP")
      /\ UNCHANGED <<next, read, operators, operands, status>>
  BY DEF NestedLogicEXP
<1>2. ParserInv /\ ParserTypes /\ ParseOutermost
  BY TermParts
<1>3. /\ status = "parsing" /\ Last(stack) \in Procedure
      /\ Last(stack).proc \in {"P", "LP"} /\ Last(stack).pc = "enter"
  BY <1>1, <1>2, InnermostAt
<1>4. PICK fr : fr = Activation("LogicEXP")
  OBVIOUS
<1>5. /\ fr \in Procedure /\ fr.proc # "parse" /\ fr.pc = "enter"
      /\ fr \notin Holding /\ Last(stack) \notin Holding
  BY <1>3, <1>4 DEF Activation, Procedure, Holding
<1>6. stack' = Append(Front(stack), fr)
  BY <1>1, <1>4 DEF TailCall
<1>7. Last(stack') = fr /\ Count(stack', Holding) = Count(stack, Holding)
  BY <1>2, <1>3, <1>5, <1>6, ReplacedAt
<1>8. ~ AtEnter({"parse"})
  BY <1>3 DEF AtEnter
<1>. QED
  BY <1>1, <1>3, <1>5, <1>7, <1>8, StillMissing

LEMMA LeaveEBuilds ==
  ASSUME TermInv, GrammarInv', LeaveE
  PROVE  TermInv'
<1>1. /\ At({"E"}, "loop") /\ Return
      /\ UNCHANGED <<next, read, operators, operands, status>>
  BY DEF LeaveE, Draining, At
<1>2. GrammarInv /\ ParserInv /\ ParserTypes /\ ParseOutermost /\ Enclosed
  BY TermParts
<1>3. /\ status = "parsing" /\ Last(stack) \in Procedure
      /\ Last(stack).proc = "E" /\ Last(stack).pc = "loop"
  BY <1>1, <1>2, InnermostAt
<1>4. /\ Last(stack').pc \in {"loop", "close", "end"}
      /\ Count(stack', Holding) = Count(stack, Holding) - One(Last(stack), Holding)
  BY <1>1, <1>2, <1>3, ReturnedAt
<1>5. Count(stack', Holding) = Count(stack, Holding)
  <2>1. One(Last(stack), Holding) = 0 /\ Count(stack, Holding) \in Nat
    BY <1>2, <1>3, CountsTyped DEF One, Holding
  <2>. QED
    BY <1>4, <2>1
<1>6. Done' = Done /\ \A T : Extends(T)' => Extends(T)
  BY <1>1, StaysLookedAt
<1>7. ASSUME NEW T, NEW M, Extends(T), NEW top \in Place, Placed(T, M, top)
      PROVE  Placed(T, M, top)'
  <2>1. Last(stack').pc # "loop"
    BY <1>1, <1>2, <1>3, <1>7, ExpressionReturns
  <2>2. Complete(T, M, Last(operators), top, operands, Len(operands), Done)
    BY <1>3, <1>7 DEF Placed
  <2>3. Complete(T, M, Last(operators'), top, operands', Len(operands'), Done')
    BY <1>1, <1>6, <2>2
  <2>4. top.open = Count(stack', Holding)
    BY <1>5, <1>7 DEF Placed
  <2>. QED
    BY <1>4, <2>1, <2>3, <2>4 DEF Placed
<1>8. \A T, M : Extends(T) /\ Built(T, M) => Built(T, M)'
  BY <1>1, <1>7, StacksStay
<1>9. ~ AtEnter({"parse"})
  BY <1>3 DEF AtEnter
<1>. QED
  BY <1>1, <1>3, <1>6, <1>8, <1>9, StepBuilds

(* An operand is read. *)
LEMMA ReadOperandBuilds ==
  ASSUME TermInv, GrammarInv', ReadOperand
  PROVE  TermInv'
<1>1. /\ At({"P", "LP"}, "enter") /\ next.type \in Operand /\ consume /\ Return
      /\ operands' = Append(operands, Leaf(next.type, Len(read)))
      /\ UNCHANGED <<operators, status>>
  BY DEF ReadOperand
<1>2. InputInv /\ ParserInv /\ ParserTypes /\ ParseOutermost /\ Enclosed /\ OperandRead
  BY TermParts
<1>3. /\ status = "parsing" /\ Last(stack) \in Procedure
      /\ Last(stack).proc \in {"P", "LP"} /\ Last(stack).pc = "enter"
  BY <1>1, <1>2, InnermostAt
<1>4. next.type # "END"
  BY <1>1 DEF Operand
<1>5. /\ Done \in Nat /\ Done' = Done + 1 /\ Len(read) = Done + 1
      /\ \A T : Extends(T)' => Extends(T)
  BY <1>1, <1>2, <1>3, <1>4, ConsumesOne, DoneTyped
<1>6. /\ Last(stack').pc \in {"loop", "close", "end"}
      /\ Count(stack', Holding) = Count(stack, Holding)
  <2>1. /\ Last(stack').pc \in {"loop", "close", "end"}
        /\ Count(stack', Holding) = Count(stack, Holding) - One(Last(stack), Holding)
    BY <1>1, <1>2, <1>3, ReturnedAt
  <2>2. One(Last(stack), Holding) = 0 /\ Count(stack, Holding) \in Nat
    BY <1>2, <1>3, CountsTyped DEF One, Holding
  <2>. QED
    BY <2>1, <2>2
<1>7. /\ Len(operands') = Len(operands) + 1
      /\ operands'[Len(operands) + 1] = Leaf(next.type, Len(read))
      /\ \A i \in 1 .. Len(operands) : operands'[i] = operands[i]
  BY <1>1, <1>2, OperandsAppended
<1>8. ASSUME NEW T, NEW M, Extends(T), Means(T, M), Built(T, M)
      PROVE  Built(T, M)'
  <2>1. PICK b, lay : /\ Laid(T, M, operators, operands, Len(operators), b, lay)
                      /\ Placed(T, M, lay[Len(operators)])
    BY <1>8 DEF Built
  <2>2. PICK n, top : n = Len(operators) /\ top = lay[n]
    OBVIOUS
  <2>3. lay \in [Nat -> Place] /\ n \in Nat /\ b \in 1 .. n /\ n \in b .. n /\ top \in Place
    <3>1. lay \in [Nat -> Place] /\ n \in Nat /\ b \in 1 .. n
      BY <2>1, <2>2 DEF Laid
    <3>. QED
      BY <2>2, <3>1
  <2>4. /\ top.open = Count(stack, Holding) /\ Len(operands) = top.rands /\ Done = top.pos
    BY <1>3, <2>1, <2>2 DEF Placed
  <2>5. Laid(T, M, operators, operands', n, b, lay)
    <3>1. \A i \in 1 .. lay[n].rands : operands'[i] = operands[i]
      BY <1>7, <2>2, <2>4
    <3>2. \A k \in 1 .. n : operators[k] = operators[k] /\ lay[k] = lay[k]
      OBVIOUS
    <3>3. Laid(T, M, operators, operands, n, b, lay)
      BY <2>1, <2>2
    <3>. QED
      BY <2>3, <3>1, <3>2, <3>3, LaidStays
  <2>6. PICK c : c = Done + 1
    OBVIOUS
  <2>7. T \in Seq(InputTokens) /\ c \in 1 .. Len(T) /\ T[c] = next
    BY <1>2, <1>3, <1>4, <1>8, <2>6, LookedAt
  <2>8. Phrase(T, M, c, c, Leaf(next.type, c)) /\ BinaryIn(T, c, c) = {}
    BY <1>1, <1>8, <2>7, OperandPhrase
  <2>9. Complete(T, M, Last(operators), top, operands', Len(operands'), Done')
    <3>1. Len(operands') = top.rands + 1 /\ operands'[Len(operands')] = Leaf(next.type, c)
      BY <1>5, <1>7, <2>4, <2>6
    <3>2. top.pos + 1 = c /\ Done' = c
      BY <1>5, <2>4, <2>6
    <3>. QED
      BY <2>8, <3>1, <3>2 DEF Complete, NotLower
  <2>10. Higher(T, top.pos + 1, Done', Precedence[next'.value])
    BY <1>5, <2>4, <2>6, <2>8 DEF Higher
  <2>11. Placed(T, M, top)'
    BY <1>1, <1>6, <2>4, <2>9, <2>10 DEF Placed
  <2>12. Laid(T, M, operators, operands, Len(operators), b, lay)' /\ top = lay[Len(operators)]'
    BY <1>1, <2>2, <2>5
  <2>. QED
    BY <2>11, <2>12 DEF Built
<1>9. ~ AtEnter({"parse"})
  BY <1>3 DEF AtEnter
<1>. QED
  BY <1>1, <1>3, <1>5, <1>8, <1>9, StepBuilds

(* A sentinel is pushed for a bracket. *)
LEMMA EnterLogicEXPBuilds ==
  ASSUME TermInv, GrammarInv', EnterLogicEXP
  PROVE  TermInv'
<1>1. /\ At({"LogicEXP"}, "enter") /\ operators' = Append(operators, Sentinel) /\ consume
      /\ Call("loop", "LP") /\ UNCHANGED <<operands, status>>
  BY DEF EnterLogicEXP
<1>2. InputInv /\ ParserInv /\ ParserTypes /\ ParseOutermost /\ History
  BY TermParts
<1>3. /\ status = "parsing" /\ Last(stack) \in Procedure
      /\ Last(stack).proc = "LogicEXP" /\ Last(stack).pc = "enter"
  BY <1>1, <1>2, InnermostAt
<1>4. next.type = "LSQRBRACK" /\ next.type # "END" /\ next.type \in Opening
  BY <1>2, <1>3 DEF History, AtEnter, Opening
<1>5. Done \in Nat /\ Done' = Done + 1 /\ \A T : Extends(T)' => Extends(T)
  BY <1>1, <1>2, <1>3, <1>4, ConsumesOne
<1>6. PICK fr : fr = [proc |-> Last(stack).proc, pc |-> "loop"]
  OBVIOUS
<1>7. fr \in Procedure /\ fr.proc # "parse" /\ fr \in Holding /\ Last(stack) \notin Holding
  BY <1>3, <1>6 DEF Procedure, Holding
<1>8. Last(stack').pc = "enter" /\ Count(stack', Holding) = Count(stack, Holding) + 1
  <2>1. /\ Last(stack').pc = "enter"
        /\ Count(stack', Holding) = Count(stack, Holding) + One(fr, Holding) - One(Last(stack), Holding)
    BY <1>1, <1>2, <1>6, <1>7, CalledAt
  <2>2. One(fr, Holding) = 1 /\ One(Last(stack), Holding) = 0 /\ Count(stack, Holding) \in Nat
    BY <1>2, <1>7, CountsTyped DEF One
  <2>. QED
    BY <2>1, <2>2
<1>9. Sentinel \in OperatorToken /\ Sentinel.value = "sentinel"
  BY Precedences DEF Sentinel, OpToken, OperatorToken
<1>10. ASSUME NEW T, NEW M, Extends(T), NEW below \in Place, Placed(T, M, below)
       PROVE  \E p \in Place : /\ Above(T, M, operands, Last(operators), below, Sentinel, p)
                               /\ Placed(T, M, p)'
  <2>1. below.open = Count(stack, Holding) /\ Len(operands) = below.rands /\ Done = below.pos
    BY <1>3, <1>10 DEF Placed
  <2>2. PICK p : p = [pos |-> Done + 1, rands |-> below.rands, open |-> below.open + 1]
    OBVIOUS
  <2>3. /\ p \in Place /\ p.pos = below.pos + 1 /\ p.rands = below.rands /\ p.open = below.open + 1
    BY <1>5, <2>1, <2>2 DEF Place
  <2>4. T \in Seq(InputTokens) /\ Done + 1 \in 1 .. Len(T) /\ T[Done + 1] = next
    BY <1>2, <1>3, <1>4, <1>10, LookedAt
  <2>5. Above(T, M, operands, Last(operators), below, Sentinel, p)
    BY <1>4, <1>9, <2>1, <2>3, <2>4 DEF Above
  <2>6. Placed(T, M, p)'
    BY <1>1, <1>5, <1>8, <2>1, <2>3 DEF Placed
  <2>. QED
    BY <2>3, <2>5, <2>6
<1>11. \A T, M : Extends(T) /\ Built(T, M) => Built(T, M)'
  BY <1>1, <1>2, <1>9, <1>10, PushBuilds
<1>12. ~ AtEnter({"parse"})
  BY <1>3 DEF AtEnter
<1>. QED
  BY <1>1, <1>3, <1>5, <1>11, <1>12, StepBuilds

LEMMA EnterParenthesisBuilds ==
  ASSUME TermInv, GrammarInv', EnterParenthesis
  PROVE  TermInv'
<1>1. /\ At({"P", "LP"}, "open") /\ operators' = Append(operators, Sentinel)
      /\ Call("close", "E") /\ UNCHANGED <<next, read, operands, status>>
  BY DEF EnterParenthesis
<1>2. InputInv /\ ParserInv /\ ParserTypes /\ ParseOutermost
  BY TermParts
<1>3. /\ status = "parsing" /\ Last(stack) \in Procedure
      /\ Last(stack).proc \in {"P", "LP"} /\ Last(stack).pc = "open"
  BY <1>1, <1>2, InnermostAt
<1>4. Done' = Done /\ \A T : Extends(T)' => Extends(T)
  BY <1>1, StaysLookedAt
<1>5. PICK fr : fr = [proc |-> Last(stack).proc, pc |-> "close"]
  OBVIOUS
<1>6. fr \in Procedure /\ fr.proc # "parse" /\ fr \in Holding /\ Last(stack) \notin Holding
  BY <1>3, <1>5 DEF Procedure, Holding
<1>7. Last(stack').pc = "enter" /\ Count(stack', Holding) = Count(stack, Holding) + 1
  <2>1. /\ Last(stack').pc = "enter"
        /\ Count(stack', Holding) = Count(stack, Holding) + One(fr, Holding) - One(Last(stack), Holding)
    BY <1>1, <1>2, <1>5, <1>6, CalledAt
  <2>2. One(fr, Holding) = 1 /\ One(Last(stack), Holding) = 0 /\ Count(stack, Holding) \in Nat
    BY <1>2, <1>6, CountsTyped DEF One
  <2>. QED
    BY <2>1, <2>2
<1>8. Sentinel \in OperatorToken /\ Sentinel.value = "sentinel"
  BY Precedences DEF Sentinel, OpToken, OperatorToken
<1>9. ASSUME NEW T, NEW M, Extends(T), NEW below \in Place, Placed(T, M, below)
      PROVE  \E p \in Place : /\ Above(T, M, operands, Last(operators), below, Sentinel, p)
                              /\ Placed(T, M, p)'
  <2>1. /\ below.open = Count(stack, Holding) /\ Len(operands) = below.rands
        /\ Done = below.pos + 1 /\ T[Done].type = "LPAREN"
    BY <1>3, <1>9 DEF Placed
  <2>2. PICK p : p = [pos |-> Done, rands |-> below.rands, open |-> below.open + 1]
    OBVIOUS
  <2>3. T \in Seq(InputTokens) /\ Len(T) \in Nat /\ Done \in Nat /\ Done <= Len(T)
    BY <1>2, <1>3, <1>9, LookedAt
  <2>4. /\ p \in Place /\ p.pos = below.pos + 1 /\ p.rands = below.rands /\ p.open = below.open + 1
        /\ p.pos \in 1 .. Len(T)
    BY <2>1, <2>2, <2>3 DEF Place
  <2>5. Above(T, M, operands, Last(operators), below, Sentinel, p)
    BY <1>8, <2>1, <2>4 DEF Above, Opening
  <2>6. Placed(T, M, p)'
    BY <1>1, <1>4, <1>7, <2>1, <2>4 DEF Placed
  <2>. QED
    BY <2>4, <2>5, <2>6
<1>10. \A T, M : Extends(T) /\ Built(T, M) => Built(T, M)'
  BY <1>1, <1>2, <1>8, <1>9, PushBuilds
<1>11. ~ AtEnter({"parse"})
  BY <1>3 DEF AtEnter
<1>. QED
  BY <1>1, <1>3, <1>4, <1>10, <1>11, StepBuilds

(* An operator is pushed. *)
LEMMA PushBinaryBuilds ==
  ASSUME TermInv, GrammarInv', pushOperator, Last(stack).proc \in {"E", "LogicEXP"}
  PROVE  TermInv'
<1>1. /\ Pushing /\ ~ hasHigherPrecedence(Last(operators), Pending)
      /\ operators' = Append(operators, Pending) /\ consume /\ UNCHANGED <<operands, status>>
  BY DEF pushOperator
<1>2. InputInv /\ ParserInv /\ ParserTypes /\ ParseOutermost
  BY TermParts
<1>3. PICK proc \in {"E", "LogicEXP"}, x \in {"P", "LP"} :
        /\ At({proc}, "loop") /\ Call("loop", x) /\ Last(stack).proc = proc
        /\ next.value \in BinaryOperator \cup LogicalBinaryOperator
  BY <1>1 DEF pushOperator, Pushing, At
<1>4. /\ status = "parsing" /\ Last(stack) \in Procedure
      /\ Last(stack).proc = proc /\ Last(stack).pc = "loop"
  BY <1>2, <1>3, InnermostAt
<1>5. next \in OperatorToken /\ next.type = "OP" /\ next.type # "END" /\ Pending = next
  BY <1>1, <1>2, <1>4, PendingIs DEF Pending, OperatorToken
<1>6. next.binary /\ IsBinary(next)
  <2>1. next \in InputTokens \cup {NoTerm} /\ next.value \in DOMAIN Precedence
    BY <1>2, <1>5 DEF ParserTypes, OperatorToken
  <2>2. next.binary = TRUE
    BY <2>1, TokenTypes
  <2>. QED
    BY <1>3, <2>2 DEF IsBinary
<1>7. Done \in Nat /\ Done' = Done + 1 /\ \A T : Extends(T)' => Extends(T)
  BY <1>1, <1>2, <1>4, <1>5, ConsumesOne
<1>8. PICK fr : fr = [proc |-> Last(stack).proc, pc |-> "loop"]
  OBVIOUS
<1>9. fr \in Procedure /\ fr.proc # "parse" /\ fr = Last(stack)
  BY <1>4, <1>8 DEF Procedure
<1>10. Last(stack').pc = "enter" /\ Count(stack', Holding) = Count(stack, Holding)
  <2>1. /\ Last(stack').pc = "enter"
        /\ Count(stack', Holding) = Count(stack, Holding) + One(fr, Holding) - One(Last(stack), Holding)
    BY <1>2, <1>3, <1>8, <1>9, CalledAt
  <2>2. One(fr, Holding) \in Nat /\ Count(stack, Holding) \in Nat
    BY <1>2, CountsTyped
  <2>. QED
    BY <1>9, <2>1, <2>2
<1>11. PICK top : top = Last(operators)
  OBVIOUS
<1>12. top \in OperatorToken
  BY <1>1, <1>2, <1>11, AtLoop, Popped
<1>13. ~ Sign(top) /\ Level(top) <= Level(next)
  <2>1. ~ Sign(top)
    BY <1>1, <1>3, <1>5, <1>6, <1>11, <1>12, SignsGiveWay
  <2>2. Level(top) \in Nat /\ Level(next) \in Nat
    BY <1>5, <1>12, Precedences DEF Level, OperatorToken
  <2>3. ~ (Precedence[top.value] > Precedence[next.value])
    BY <1>1, <1>5, <1>6, <1>11 DEF hasHigherPrecedence
  <2>. QED
    BY <2>1, <2>2, <2>3 DEF Level
<1>14. ASSUME NEW T, NEW M, Extends(T), NEW below \in Place, Placed(T, M, below)
       PROVE  \E p \in Place : /\ Above(T, M, operands, top, below, next, p)
                               /\ Placed(T, M, p)'
  <2>1. /\ below.open = Count(stack, Holding)
        /\ Complete(T, M, top, below, operands, Len(operands), Done)
        /\ Higher(T, below.pos + 1, Done, Precedence[next.value])
    BY <1>1, <1>4, <1>11, <1>14 DEF Placed
  <2>2. /\ Len(operands) = below.rands + 1
        /\ Phrase(T, M, below.pos + 1, Done, operands[Len(operands)])
    BY <2>1 DEF Complete
  <2>3. PICK p : p = [pos |-> Done + 1, rands |-> below.rands + 1, open |-> below.open]
    OBVIOUS
  <2>4. /\ p \in Place /\ p.pos - 1 = Done /\ p.pos = Done + 1
        /\ p.rands = below.rands + 1 /\ p.open = below.open
    BY <1>7, <2>3 DEF Place
  <2>5. T \in Seq(InputTokens) /\ Done + 1 \in 1 .. Len(T) /\ T[Done + 1] = next
    BY <1>2, <1>4, <1>5, <1>14, LookedAt
  <2>6. Above(T, M, operands, top, below, next, p)
    BY <1>5, <1>6, <1>13, <2>1, <2>2, <2>4, <2>5 DEF Above, Level
  <2>7. Placed(T, M, p)'
    BY <1>1, <1>7, <1>10, <2>1, <2>2, <2>4 DEF Placed
  <2>. QED
    BY <2>4, <2>6, <2>7
<1>15. \A T, M : Extends(T) /\ Built(T, M) => Built(T, M)'
  BY <1>1, <1>2, <1>5, <1>11, <1>14, PushBuilds
<1>16. ~ AtEnter({"parse"})
  BY <1>4 DEF AtEnter
<1>. QED
  BY <1>1, <1>4, <1>7, <1>15, <1>16, StepBuilds

LEMMA PushUnaryBuilds ==
  ASSUME TermInv, GrammarInv', pushOperator, Last(stack).proc \in {"P", "LP"}
  PROVE  TermInv'
<1>1. /\ Pushing /\ operators' = Append(operators, Pending) /\ consume
      /\ UNCHANGED <<operands, status, stack>>
  BY DEF pushOperator
<1>2. InputInv /\ ParserInv /\ ParserTypes /\ ParseOutermost /\ History
  BY TermParts
<1>3. /\ status = "parsing" /\ Last(stack).pc = "enter"
      /\ next.value \in UnaryOperator \cup LogicalUnaryOperator
  BY <1>1 DEF Pushing, At
<1>4. next \in OperatorToken /\ next.type = "OP" /\ next.type # "END"
  BY <1>1, <1>2, PendingIs DEF OperatorToken
<1>5. PICK op : op = Pending
  OBVIOUS
<1>6. op \in OperatorToken /\ op.value = next.value /\ Sign(op)
  <2>1. op = [next EXCEPT !.binary = FALSE] /\ op \in OperatorToken
    BY <1>1, <1>2, <1>5, PendingIs DEF Pending
  <2>2. op.value = next.value /\ ~ op.binary
    BY <1>4, <2>1 DEF OperatorToken
  <2>. QED
    BY <1>3, <2>1, <2>2 DEF Sign, IsBinary
<1>7. Done \in Nat /\ Done' = Done + 1 /\ \A T : Extends(T)' => Extends(T)
  BY <1>1, <1>2, <1>3, <1>4, ConsumesOne
<1>8. Len(read) \in Nat /\ Done + 1 = Len(read)
  BY <1>2, <1>3, <1>4, DoneTyped
<1>9. Done + 1 > 1 => read[Done].type \notin Operand \cup Closing
  <2>1. Len(read) > 1 => read[Len(read) - 1].type \notin Operand \cup Closing
    BY <1>2, <1>3, <1>4 DEF History, BeforeOperand
  <2>2. Len(read) - 1 = Done
    BY <1>7, <1>8
  <2>. QED
    BY <1>8, <2>1, <2>2
<1>10. ASSUME NEW T, NEW M, Extends(T), NEW below \in Place, Placed(T, M, below)
       PROVE  \E p \in Place : /\ Above(T, M, operands, Last(operators), below, op, p)
                               /\ Placed(T, M, p)'
  <2>1. below.open = Count(stack, Holding) /\ Len(operands) = below.rands /\ Done = below.pos
    BY <1>3, <1>10 DEF Placed
  <2>2. PICK p : p = [pos |-> Done + 1, rands |-> below.rands, open |-> below.open]
    OBVIOUS
  <2>3. /\ p \in Place /\ p.pos = below.pos + 1 /\ p.pos = Done + 1
        /\ p.rands = below.rands /\ p.open = below.open
    BY <1>7, <2>1, <2>2 DEF Place
  <2>4. T \in Seq(InputTokens) /\ Done + 1 \in 1 .. Len(T) /\ T[Done + 1] = next
    BY <1>2, <1>3, <1>4, <1>10, LookedAt
  <2>5. IsUnaryAt(T, Done + 1)
    <3>1. (Done + 1) - 1 = Done /\ (Done + 1 = 1 \/ Done \in 1 .. Len(read))
      BY <1>7, <1>8
    <3>2. Done + 1 # 1 => T[Done] = read[Done]
      BY <1>10, <3>1 DEF Extends
    <3>3. Done + 1 # 1 => T[Done].type \notin Operand \cup Closing
      BY <1>7, <1>9, <3>2
    <3>. QED
      BY <1>4, <2>4, <3>1, <3>3 DEF IsUnaryAt
  <2>6. Above(T, M, operands, Last(operators), below, op, p)
    BY <1>4, <1>6, <2>3, <2>4, <2>5 DEF Above
  <2>7. Placed(T, M, p)'
    BY <1>1, <1>3, <1>7, <2>1, <2>3 DEF Placed
  <2>. QED
    BY <2>3, <2>6, <2>7
<1>11. \A T, M : Extends(T) /\ Built(T, M) => Built(T, M)'
  BY <1>1, <1>2, <1>5, <1>6, <1>10, PushBuilds
<1>12. ~ AtEnter({"parse"})
  BY DEF AtEnter
<1>. QED
  BY <1>1, <1>3, <1>7, <1>11, <1>12, StepBuilds

(* The operator on top is applied to its operands. *)
LEMMA PoppedComplete ==
  ASSUME TermInv, popOperator, NEW T \in Seq(InputTokens), NEW M, Means(T, M),
         NEW low \in Place, NEW top \in Place, NEW below \in OperatorToken,
         Above(T, M, operands, below, low, Last(operators), top),
         NEW j, Complete(T, M, Last(operators), top, operands, Len(operands), j)
  PROVE  /\ Complete(T, M, below, low, operands', Len(operands'), j)
         /\ top.open = low.open
         /\ \A i \in 1 .. low.rands : operands'[i] = operands[i]
         /\ \A q \in Nat :
              /\ IsBinary(Last(operators)) => Level(Last(operators)) > q
              /\ Higher(T, top.pos + 1, j, q)
              => Higher(T, low.pos + 1, j, q)
<1>1. ParserInv /\ OperandRead
  BY TermParts
<1>2. PICK op, len : op = Last(operators) /\ len = Len(operands)
  OBVIOUS
<1>3. Popping /\ op \in OperatorToken /\ op.value # "sentinel"
  <2>1. Popping
    BY DEF popOperator
  <2>2. operators # <<>>
    BY <1>1, <2>1, AtLoop DEF Popping
  <2>. QED
    BY <1>1, <1>2, <2>1, <2>2, PopsOperator, Popped DEF ParserInv
<1>4. Sign(op) \/ IsBinary(op)
  BY <1>2, <1>3 DEF Above
<1>5. len \in Nat /\ len = top.rands + 1 /\ top.rands \in Nat /\ low.rands \in Nat
  BY <1>1, <1>2 DEF OperandRead, Complete, Place
<1>6. PICK rest : rest = len - Arity(op)
  OBVIOUS
<1>7. /\ rest >= 0
      /\ operands' = Append(SubSeq(operands, 1, rest),
                            CreateExpression(op, SubSeq(operands, rest + 1, len)))
  BY <1>2, <1>6 DEF popOperator
<1>10. PICK rands : rands = operands'
  OBVIOUS
<1>11. /\ Above(T, M, operands, below, low, op, top)
       /\ Complete(T, M, op, top, operands, len, j)
  BY <1>2
<1>8. CASE Sign(op)
  <2>1. ~ IsBinary(op) /\ Arity(op) = 1
    BY <1>8 DEF Sign, Arity
  <2>2. rest = len - 1 /\ rest + 1 = len /\ rest \in 0 .. len /\ len >= 1
    BY <1>5, <1>6, <1>7, <2>1
  <2>3. CreateExpression(op, SubSeq(operands, rest + 1, len)) = Negation(op.value, operands[len])
    BY <1>1, <1>2, <2>1, <2>2, PoppedOperands DEF CreateExpression
  <2>4. /\ Len(operands') = len /\ operands'[len] = Negation(op.value, operands[len])
        /\ \A i \in 1 .. rest : operands'[i] = operands[i]
    BY <1>1, <1>2, <1>7, <2>2, <2>3, OperandsAfter
  <2>8. rands[len] = Negation(op.value, operands[len])
    BY <1>10, <2>4
  <2>5. /\ Complete(T, M, below, low, rands, len, j) /\ BinaryIn(T, low.pos + 1, j) = {}
        /\ top.open = low.open
    BY <1>3, <1>8, <1>11, <2>8, SignComplete
  <2>6. low.rands <= rest
    <3>1. low.rands = top.rands
      BY <1>2, <1>3, <2>1 DEF Above
    <3>. QED
      BY <1>5, <2>2, <3>1
  <2>7. \A i \in 1 .. low.rands : operands'[i] = operands[i]
    BY <1>5, <2>2, <2>4, <2>6
  <2>. QED
    BY <1>10, <2>4, <2>5, <2>7 DEF Higher
<1>9. CASE IsBinary(op)
  <2>1. Arity(op) = 2 /\ rest = len - 2
    BY <1>6, <1>9 DEF Arity
  <2>2. rest = len - 2 /\ rest + 1 = len - 1 /\ rest \in 0 .. len /\ len >= 2
    BY <1>5, <1>7, <2>1
  <2>3. CreateExpression(op, SubSeq(operands, rest + 1, len))
          = Node(op.value, <<operands[len - 1], operands[len]>>)
    BY <1>1, <1>2, <1>9, <2>2, PoppedOperands DEF CreateExpression
  <2>4. /\ Len(operands') = len - 1
        /\ operands'[len - 1] = Node(op.value, <<operands[len - 1], operands[len]>>)
        /\ \A i \in 1 .. rest : operands'[i] = operands[i]
    BY <1>1, <1>2, <1>7, <2>2, <2>3, OperandsAfter
  <2>8. rands[len - 1] = Node(op.value, <<operands[len - 1], operands[len]>>)
    BY <1>10, <2>4
  <2>5. /\ Complete(T, M, below, low, rands, len - 1, j) /\ top.open = low.open
        /\ top.rands = low.rands + 1
        /\ \A q \in Nat :
             Level(op) > q /\ Higher(T, top.pos + 1, j, q) => Higher(T, low.pos + 1, j, q)
    BY <1>3, <1>9, <1>11, <2>8, BinaryComplete
  <2>6. low.rands <= rest
    <3>1. top.rands = low.rands + 1
      BY <2>5
    <3>. QED
      BY <1>5, <2>2, <3>1
  <2>7. \A i \in 1 .. low.rands : operands'[i] = operands[i]
    BY <1>5, <2>2, <2>4, <2>6
  <2>. QED
    BY <1>2, <1>9, <1>10, <2>4, <2>5, <2>7
<1>. QED
  BY <1>4, <1>8, <1>9

(* The top of the stack of operators, with its place, and what is below. *)
LEMMA TopIsPopped ==
  ASSUME NEW ops \in Seq(OperatorToken), NEW T, NEW M, NEW rands, NEW b, NEW lay, NEW n, n = Len(ops),
         Laid(T, M, ops, rands, n, b, lay), n # b,
         NEW rands2, \A i \in 1 .. lay[n - 1].rands : rands2[i] = rands[i]
  PROVE  /\ Last(ops) = ops[n] /\ ops[n] \in OperatorToken /\ ops[n - 1] \in OperatorToken
         /\ lay[n] \in Place /\ lay[n - 1] \in Place
         /\ Above(T, M, rands, ops[n - 1], lay[n - 1], ops[n], lay[n])
         /\ Len(Front(ops)) = n - 1 /\ Last(Front(ops)) = ops[n - 1]
         /\ Laid(T, M, Front(ops), rands2, n - 1, b, lay)
<1>1. /\ n \in Nat \ {0} /\ lay[n] \in Place
      /\ n - 1 \in b .. n /\ n - 1 \in Nat \ {0} /\ lay[n - 1] \in Place
      /\ Above(T, M, rands, ops[n - 1], lay[n - 1], ops[n], lay[n])
  BY LaidTop
<1>2. ops # <<>>
  BY <1>1
<1>3. PICK s : s = Front(ops)
  OBVIOUS
<1>4. /\ Last(ops) = ops[n] /\ s \in Seq(OperatorToken) /\ Len(s) = n - 1
      /\ \A k \in 1 .. n - 1 : s[k] = ops[k]
  BY <1>2, <1>3, TopOfStack
<1>5. Last(s) = ops[n - 1]
  <2>1. n - 1 \in 1 .. n - 1
    BY <1>1
  <2>. QED
    BY <1>4, <2>1 DEF Last
<1>6. lay \in [Nat -> Place] /\ n - 1 \in b .. n - 1 /\ b \in Nat
  BY <1>1 DEF Laid
<1>7. Laid(T, M, s, rands2, n - 1, b, lay)
  <2>1. \A k \in 1 .. n - 1 : s[k] = ops[k] /\ lay[k] = lay[k]
    BY <1>4
  <2>2. PICK m : m = n - 1 /\ m \in b .. n
    BY <1>1
  <2>3. Laid(T, M, s, rands2, m, b, lay)
    BY <1>6, <2>1, <2>2, LaidStays
  <2>. QED
    BY <2>2, <2>3
<1>8. ops[n] \in OperatorToken /\ ops[n - 1] \in OperatorToken
  BY <1>1
<1>. QED
  BY <1>1, <1>3, <1>4, <1>5, <1>7, <1>8

LEMMA PopBuilds ==
  ASSUME TermInv, GrammarInv', popOperator
  PROVE  TermInv'
<1>1. /\ Popping /\ operators' = Front(operators) /\ UNCHANGED <<next, stack, status, read>>
  BY DEF popOperator
<1>2. ParserInv /\ TopBefore /\ ParserTypes /\ OperandRead
  BY TermParts
<1>3. status = "parsing" /\ Last(operators).value # "sentinel"
  BY <1>1, <1>2, AtLoop, PopsOperator DEF Popping
<1>4. Done' = Done /\ \A T : Extends(T)' => Extends(T)
  BY <1>1, StaysLookedAt
<1>5. \/ Pushing /\ hasHigherPrecedence(Last(operators), Pending)
         /\ Last(stack).pc = "loop" /\ Last(stack).proc \in {"E", "LogicEXP"}
      \/ Last(stack).pc = "loop" /\ ~ Pushing
      \/ Last(stack).pc = "drain" /\ ~ Pushing
      \/ MinusBeforeAbs
  <2>1. CASE Pushing /\ hasHigherPrecedence(Last(operators), Pending)
    <3>1. \/ Last(stack).pc = "loop" /\ Last(stack).proc \in {"E", "LogicEXP"}
          \/ AtEnter({"P", "LP"})
      BY <2>1 DEF Pushing, At, AtEnter
    <3>. QED
      BY <1>2, <2>1, <3>1, PopsBeforeOperand
  <2>2. CASE Draining /\ Last(operators).value # "sentinel"
    <3>1. Last(stack).pc = "loop" \/ Last(stack).pc = "drain"
      BY <2>2 DEF Draining, At
    <3>2. ~ Pushing
      BY <2>2 DEF Draining, Pushing, At
    <3>. QED
      BY <3>1, <3>2
  <2>. QED
    BY <1>1, <2>1, <2>2 DEF Popping
<1>6. ASSUME NEW T, NEW M, Extends(T), Means(T, M), ~ MinusBeforeAbs, Built(T, M)
      PROVE  Built(T, M)'
  <2>1. PICK b, lay : /\ Laid(T, M, operators, operands, Len(operators), b, lay)
                      /\ Placed(T, M, lay[Len(operators)])
    BY <1>6 DEF Built
  <2>2. PICK n, top, low, j : /\ n = Len(operators) /\ top = lay[n] /\ low = lay[n - 1]
                              /\ j = IF Last(stack).pc = "loop" THEN Done ELSE Done - 1
    OBVIOUS
  <2>3. Laid(T, M, operators, operands, n, b, lay) /\ operators \in Seq(OperatorToken)
    BY <1>2, <2>1, <2>2 DEF ParserTypes
  <2>4. n # b
    <3>1. n \in Nat \ {0} /\ (n = b => operators[n].value = "sentinel")
      BY <2>3, LaidTop
    <3>2. operators # <<>>
      BY <2>2, <3>1
    <3>3. Last(operators) = operators[n]
      BY <2>2, <2>3, <3>2, TopOfStack
    <3>. QED
      BY <1>3, <3>1, <3>3
  <2>5. /\ Last(operators) = operators[n] /\ operators[n - 1] \in OperatorToken
        /\ top \in Place /\ low \in Place /\ operators[n] \in OperatorToken
        /\ Above(T, M, operands, operators[n - 1], low, operators[n], top)
    BY <2>2, <2>3, <2>4, TopIsPopped
  <2>6. /\ top.open = Count(stack, Holding)
        /\ Complete(T, M, Last(operators), top, operands, Len(operands), j)
        /\ Last(stack).pc = "loop" /\ Pushing => Higher(T, top.pos + 1, Done, Precedence[next.value])
    BY <1>5, <1>6, <2>1, <2>2 DEF Placed
  <2>7. T \in Seq(InputTokens)
    BY <1>6 DEF Extends
  <2>8. /\ Complete(T, M, operators[n - 1], low, operands', Len(operands'), j)
        /\ top.open = low.open
        /\ \A i \in 1 .. low.rands : operands'[i] = operands[i]
        /\ \A q \in Nat :
             /\ IsBinary(Last(operators)) => Level(Last(operators)) > q
             /\ Higher(T, top.pos + 1, j, q)
             => Higher(T, low.pos + 1, j, q)
    <3>1. Above(T, M, operands, operators[n - 1], low, Last(operators), top)
      BY <2>5
    <3>. QED
      BY <1>6, <2>5, <2>6, <2>7, <3>1, PoppedComplete
  <2>9. Last(stack).pc = "loop" /\ Pushing => Higher(T, low.pos + 1, Done, Precedence[next.value])
    <3> SUFFICES ASSUME Last(stack).pc = "loop", Pushing
                 PROVE  Higher(T, low.pos + 1, Done, Precedence[next.value])
      OBVIOUS
    <3>1. /\ hasHigherPrecedence(Last(operators), Pending)
          /\ Last(stack).proc \in {"E", "LogicEXP"}
      BY <1>5, <1>6
    <3>2. next \in OperatorToken /\ Pending = next
      BY <1>2, <3>1, PendingIs DEF Pending
    <3>3. Precedence[next.value] \in Nat
      BY <3>2, Precedences DEF OperatorToken
    <3>4. IsBinary(Last(operators)) => Level(Last(operators)) > Precedence[next.value]
      BY <3>1, <3>2 DEF hasHigherPrecedence, IsBinary, Level
    <3>5. j = Done
      BY <2>2
    <3>. QED
      BY <2>6, <2>8, <3>3, <3>4, <3>5
  <2>10. PICK rands : rands = operands'
    OBVIOUS
  <2>11. /\ Len(operators') = n - 1 /\ Last(operators') = operators[n - 1]
         /\ Laid(T, M, operators', rands, n - 1, b, lay)
    <3>1. \A i \in 1 .. lay[n - 1].rands : rands[i] = operands[i]
      BY <2>2, <2>8, <2>10
    <3>. QED
      BY <1>1, <2>2, <2>3, <2>4, <3>1, TopIsPopped
  <2>12. Pushing' <=> Pushing
    BY <1>1 DEF Pushing, At
  <2>13. Placed(T, M, low)'
    <3>1. CASE Last(stack).pc = "loop"
      BY <1>1, <1>4, <2>2, <2>6, <2>8, <2>9, <2>11, <2>12, <3>1 DEF Placed
    <3>2. CASE Last(stack).pc = "drain"
      <4>1. j = Done - 1 /\ Done \in 1 .. Len(T) /\ T[Done].type \in Closing
        BY <2>1, <2>2, <3>2 DEF Placed
      <4>. QED
        BY <1>1, <1>4, <2>6, <2>8, <2>11, <3>2, <4>1 DEF Placed
    <3>. QED
      BY <1>5, <1>6, <3>1, <3>2
  <2>14. Laid(T, M, operators, operands, Len(operators), b, lay)' /\ low = lay[Len(operators)]'
    BY <2>2, <2>10, <2>11
  <2>. QED
    BY <2>13, <2>14 DEF Built
<1>7. ASSUME ~ MinusBeforeAbs
      PROVE  ~ AtEnter({"parse"})
  BY <1>5, <1>7 DEF AtEnter
<1>8. CASE MinusBeforeAbs
  <2>1. MinusBeforeAbs'
    BY <1>1, <1>8 DEF MinusBeforeAbs
  <2>. QED
    BY <2>1 DEF TermInv
<1>. QED
  BY <1>1, <1>3, <1>4, <1>6, <1>7, <1>8, StepBuilds

(* A bracket has been closed. *)
LEMMA LeaveBracketBuilds ==
  ASSUME TermInv, GrammarInv', LeaveLogicEXP \/ LeaveParenthesis
  PROVE  TermInv'
<1>1. /\ operators' = Front(operators) /\ Return /\ UNCHANGED <<next, read, operands, status>>
  BY DEF LeaveLogicEXP, LeaveParenthesis
<1>2. InputInv /\ ParserInv /\ ParserTypes /\ ParseOutermost /\ Enclosed
  BY TermParts
<1>3. At({"LogicEXP"}, "drain") \/ At({"P", "LP"}, "closed")
  <2>1. CASE LeaveLogicEXP
    BY <2>1 DEF LeaveLogicEXP, Draining, At
  <2>2. CASE LeaveParenthesis
    BY <2>2 DEF LeaveParenthesis
  <2>. QED
    BY <2>1, <2>2
<1>4. /\ status = "parsing" /\ Last(stack) \in Procedure /\ Last(stack).pc \in {"drain", "closed"}
      /\ Last(stack).proc # "parse" /\ Last(stack) \in Holding
  <2>1. CASE At({"LogicEXP"}, "drain")
    BY <1>2, <2>1, InnermostAt DEF Holding
  <2>2. CASE At({"P", "LP"}, "closed")
    BY <1>2, <2>2, InnermostAt DEF Holding
  <2>. QED
    BY <1>3, <2>1, <2>2
<1>5. Last(operators).value = "sentinel"
  <2>1. CASE LeaveLogicEXP
    BY <2>1 DEF LeaveLogicEXP
  <2>2. CASE LeaveParenthesis
    <3>1. At({"P", "LP"}, "closed")
      BY <2>2 DEF LeaveParenthesis
    <3>. QED
      BY <1>2, <3>1 DEF Enclosed, At
  <2>. QED
    BY <2>1, <2>2
<1>6. /\ Last(stack').pc \in {"loop", "close", "end"}
      /\ Count(stack, Holding) = Count(stack', Holding) + 1
      /\ Count(stack', Holding) \in Nat \ {0}
  <2>1. /\ Last(stack').pc \in {"loop", "close", "end"}
        /\ Count(stack', Holding) = Count(stack, Holding) - One(Last(stack), Holding)
        /\ Count(stack', Holding) \in Nat \ {0}
    BY <1>1, <1>2, <1>4, ReturnedAt
  <2>2. One(Last(stack), Holding) = 1 /\ Count(stack, Holding) \in Nat
    BY <1>2, <1>4, CountsTyped DEF One
  <2>. QED
    BY <2>1, <2>2
<1>7. Done' = Done /\ \A T : Extends(T)' => Extends(T)
  BY <1>1, StaysLookedAt
<1>8. ASSUME NEW T, NEW M, Extends(T), Means(T, M), Built(T, M)
      PROVE  Built(T, M)'
  <2>1. PICK b, lay : /\ Laid(T, M, operators, operands, Len(operators), b, lay)
                      /\ Placed(T, M, lay[Len(operators)])
    BY <1>8 DEF Built
  <2>2. PICK n, top, low : n = Len(operators) /\ top = lay[n] /\ low = lay[n - 1]
    OBVIOUS
  <2>3. Laid(T, M, operators, operands, n, b, lay) /\ operators \in Seq(OperatorToken)
    BY <1>2, <2>1, <2>2 DEF ParserTypes
  <2>4. /\ top.open = Count(stack, Holding)
        /\ Complete(T, M, Last(operators), top, operands, Len(operands), Done - 1)
        /\ Done \in 1 .. Len(T) /\ T[Done].type \in Closing
    BY <1>4, <2>1, <2>2 DEF Placed
  <2>5. n # b
    <3>1. n = b => top.open = 1
      BY <2>2, <2>3, LaidTop
    <3>. QED
      BY <1>6, <2>4, <3>1
  <2>6. /\ Last(operators) = operators[n] /\ operators[n - 1] \in OperatorToken
        /\ top \in Place /\ low \in Place /\ operators[n] \in OperatorToken
        /\ Above(T, M, operands, operators[n - 1], low, operators[n], top)
        /\ Len(operators') = n - 1 /\ Last(operators') = operators[n - 1]
        /\ Laid(T, M, operators', operands, n - 1, b, lay)
    BY <1>1, <2>2, <2>3, <2>5, TopIsPopped
  <2>7. /\ Complete(T, M, operators[n - 1], low, operands, Len(operands), Done)
        /\ BinaryIn(T, low.pos + 1, Done) = {} /\ top.open = low.open + 1
    <3>1. T \in Seq(InputTokens) /\ Means(T, M)
      BY <1>8 DEF Extends
    <3>2. PICK len, e, op, below :
            /\ len = Len(operands) /\ e = Done - 1
            /\ op = operators[n] /\ below = operators[n - 1]
      OBVIOUS
    <3>3. /\ Complete(T, M, op, top, operands, len, e)
          /\ Above(T, M, operands, below, low, op, top)
      BY <2>4, <2>6, <3>2
    <3>4. op \in Sentinels /\ below \in OperatorToken /\ low \in Place /\ top \in Place
      BY <1>5, <2>6, <3>2 DEF Sentinels
    <3>5. e \in Nat /\ e + 1 = Done /\ e + 1 \in 1 .. Len(T)
      BY <2>4, <3>1, <3>2
    <3>6. T[e + 1].type \in Closing
      BY <2>4, <3>5
    <3>7. e \in Nat /\ e + 1 \in 1 .. Len(T)
      BY <3>5
    <3>8. Complete(T, M, below, low, operands, len, e + 1)
      BY <3>1, <3>3, <3>4, <3>6, <3>7, BracketComplete, Zenon
    <3>9. BinaryIn(T, low.pos + 1, e + 1) = {}
      BY <3>1, <3>3, <3>4, <3>6, <3>7, BracketComplete, Zenon
    <3>10. top.open = low.open + 1
      BY <3>3, <3>4, Sentineled DEF Above, Sentinels
    <3>. QED
      BY <3>2, <3>5, <3>8, <3>9, <3>10
  <2>8. Placed(T, M, low)'
    <3>1. low.open = Count(stack', Holding)
      BY <1>6, <2>4, <2>6, <2>7 DEF Place
    <3>2. Higher(T, low.pos + 1, Done', Precedence[next'.value])
      BY <1>7, <2>7 DEF Higher
    <3>3. Complete(T, M, Last(operators'), low, operands', Len(operands'), Done')
      BY <1>1, <1>7, <2>6, <2>7
    <3>. QED
      BY <1>6, <3>1, <3>2, <3>3 DEF Placed
  <2>9. Laid(T, M, operators, operands, Len(operators), b, lay)' /\ low = lay[Len(operators)]'
    BY <1>1, <2>2, <2>6
  <2>. QED
    BY <2>8, <2>9 DEF Built
<1>9. ~ AtEnter({"parse"})
  BY <1>4 DEF AtEnter
<1>. QED
  BY <1>1, <1>4, <1>7, <1>8, <1>9, StepBuilds

----------------------------------------------------------------------------
(* The beginning and the end of a call. *)

(* parse is the only activation. *)
LEMMA ParseHolds ==
  ASSUME ParserTypes, ParseOutermost, status = "parsing", Last(stack).proc = "parse"
  PROVE  Count(stack, Holding) = IF Last(stack).pc = "end" THEN 1 ELSE 0
<1>1. /\ Len(stack) = 1 /\ Last(stack) \in Procedure /\ stack \in Seq(Procedure) /\ stack # <<>>
      /\ Front(stack) \in Seq(Procedure) /\ Len(Front(stack)) = 0
  BY InnermostProcedure DEF ParserTypes, ParseOutermost
<1>2. Count(stack, Holding) = Count(Front(stack), Holding) + One(Last(stack), Holding)
  BY <1>1, CountFront
<1>3. Count(Front(stack), Holding) = 0
  <2>1. PICK s : s = Front(stack) /\ s \in Seq(Procedure) /\ Len(s) = 0
    BY <1>1
  <2>2. s = <<>>
    BY <2>1
  <2>. QED
    BY <2>1, <2>2, CountEmpty
<1>4. Last(stack) \in Holding <=> Last(stack).pc = "end"
  BY <1>1 DEF Holding
<1>. QED
  BY <1>2, <1>3, <1>4 DEF One

(* The sentinel of parse is pushed before anything has been consumed. *)
LEMMA ParseExpressionBuilds ==
  ASSUME TermInv, GrammarInv', ParseExpression
  PROVE  TermInv'
<1>1. /\ At({"parse"}, "enter") /\ operators' = Append(operators, Sentinel)
      /\ Call("end", "E") /\ UNCHANGED <<next, read, operands, status>>
  BY DEF ParseExpression
<1>2. GrammarInv /\ InputInv /\ ParserInv /\ ParserTypes /\ ParseOutermost /\ OperandRead
  BY TermParts
<1>3. /\ status = "parsing" /\ Last(stack) \in Procedure
      /\ Last(stack).proc = "parse" /\ Last(stack).pc = "enter"
  BY <1>1, <1>2, InnermostAt
<1>4. Done' = Done /\ \A T : Extends(T)' => Extends(T)
  BY <1>1, StaysLookedAt
<1>5. PICK fr : fr = [proc |-> Last(stack).proc, pc |-> "end"]
  OBVIOUS
<1>6. fr \in Procedure /\ fr.pc = "end" /\ fr \in Holding /\ Last(stack) \notin Holding
  BY <1>3, <1>5 DEF Procedure, Holding
<1>7. Last(stack').pc = "enter" /\ Count(stack', Holding) = 1
  <2>1. /\ Last(stack').pc = "enter"
        /\ Count(stack', Holding) = Count(stack, Holding) + One(fr, Holding) - One(Last(stack), Holding)
    BY <1>1, <1>2, <1>5, <1>6, CalledAt
  <2>2. One(fr, Holding) = 1 /\ One(Last(stack), Holding) = 0 /\ Count(stack, Holding) = 0
    BY <1>2, <1>3, <1>6, ParseHolds DEF One
  <2>. QED
    BY <2>1, <2>2
<1>8. PICK ops, n : ops = operators' /\ n = Len(operators) + 1
  OBVIOUS
<1>9. n \in Nat \ {0} /\ Len(ops) = n /\ ops[n].value = "sentinel" /\ Len(operands) \in Nat
  <2>1. operators \in Seq(OperatorToken)
    BY <1>2 DEF ParserTypes
  <2>2. Sentinel \in OperatorToken /\ Sentinel.value = "sentinel"
    BY Precedences DEF Sentinel, OpToken, OperatorToken
  <2>3. ops = Append(operators, Sentinel) /\ n = Len(operators) + 1
    BY <1>1, <1>8
  <2>4. Len(ops) = n /\ ops[n] = Sentinel /\ n \in Nat \ {0}
    BY <2>1, <2>2, <2>3
  <2>. QED
    BY <1>2, <2>2, <2>4 DEF OperandRead
<1>10. PICK p, lay : p = [pos |-> 0, rands |-> Len(operands), open |-> 1] /\ lay = [k \in Nat |-> p]
  OBVIOUS
<1>11. /\ lay \in [Nat -> Place] /\ p.pos = 0 /\ p.rands = Len(operands) /\ p.open = 1
       /\ \A k \in Nat : lay[k] = p
  BY <1>9, <1>10 DEF Place
<1>12. ASSUME NEW T, NEW M, Extends(T)
       PROVE  Built(T, M)'
  <2>1. Done = 0
    <3>1. T \in Seq(InputTokens)
      BY <1>12 DEF Extends
    <3>2. PICK D : Solves(T, D)
      BY <3>1, DerivationsExist
    <3>3. PICK y, b : Reading(T, D, y, b)
      BY <1>2, <1>3, <1>12, <3>2 DEF GrammarInv, Progress
    <3>4. Done + 1 = 1
      BY <1>3, <3>3 DEF Reading, Reads
    <3>5. Done \in Nat
      BY <1>2, <1>3, DoneTyped
    <3>. QED
      BY <3>4, <3>5
  <2>2. Laid(T, M, ops, operands, n, n, lay)
    <3>1. \A k \in n + 1 .. n : FALSE
      BY <1>9
    <3>2. \A k \in n .. n : \A l \in n .. k : lay[l].rands <= lay[k].rands
      BY <1>9, <1>11
    <3>3. n \in Nat /\ n \in 1 .. n /\ lay[n] = p
      BY <1>9, <1>11
    <3>. QED
      BY <1>9, <1>11, <3>1, <3>2, <3>3 DEF Laid
  <2>3. Placed(T, M, p)'
    BY <1>1, <1>4, <1>7, <1>11, <2>1 DEF Placed
  <2>4. Laid(T, M, operators, operands, Len(operators), n, lay)' /\ p = lay[Len(operators)]'
    BY <1>1, <1>8, <1>9, <1>11, <2>2
  <2>. QED
    BY <2>3, <2>4 DEF Built
<1>13. TermsRight'
  BY <1>1, <1>3, <1>4, <1>12 DEF TermsRight
<1>. QED
  BY <1>13 DEF TermInv

(* The operand that is left stands for all of the input. *)
LEMMA ParseReturnsBuilds ==
  ASSUME TermInv, GrammarInv', ParseReturns
  PROVE  TermInv'
<1>1. /\ At({"parse"}, "end") /\ next.type = "END" /\ status' = "returned"
      /\ result' = Last(operands) /\ UNCHANGED read
  BY DEF ParseReturns
<1>2. /\ InputInv /\ ParserInv /\ ParserTypes /\ ParseOutermost /\ OperandRead /\ Enclosed /\ History
  BY TermParts
<1>3. /\ status = "parsing" /\ Last(stack) \in Procedure
      /\ Last(stack).proc = "parse" /\ Last(stack).pc = "end"
  BY <1>1, <1>2, InnermostAt
<1>4. ASSUME ~ MinusBeforeAbs
      PROVE  Last(operands) = Meaning(read)
  <2>1. read \in Seq(InputTokens) /\ Done = Len(read)
    BY <1>1, <1>2, <1>3, DoneTyped DEF History
  <2>2. PICK T : T = read
    OBVIOUS
  <2>3. PICK M : Means(T, M) /\ Meaning(T) = M[<<1, Len(T)>>]
    BY <2>1, <2>2, MeaningIs
  <2>4. Extends(T)
    BY <2>1, <2>2 DEF Extends
  <2>5. ~ AtEnter({"parse"})
    BY <1>3 DEF AtEnter
  <2>6. Built(T, M)
    BY <1>3, <1>4, <2>3, <2>4, <2>5 DEF TermInv, TermsRight
  <2>7. PICK b, lay : /\ Laid(T, M, operators, operands, Len(operators), b, lay)
                      /\ Placed(T, M, lay[Len(operators)])
    BY <2>6 DEF Built
  <2>8. PICK n, top, low : n = Len(operators) /\ top = lay[n] /\ low = lay[n - 1]
    OBVIOUS
  <2>9. Laid(T, M, operators, operands, n, b, lay) /\ operators \in Seq(OperatorToken)
    BY <1>2, <2>7, <2>8 DEF ParserTypes
  <2>10. /\ top.open = 1
         /\ Complete(T, M, Last(operators), top, operands, Len(operands), Done)
    BY <1>2, <1>3, <2>7, <2>8, ParseHolds DEF Placed
  <2>11. Last(operators).value = "sentinel"
    BY <1>2, <1>3 DEF Enclosed
  <2>12. n = b
    <3> SUFFICES ASSUME n # b
                 PROVE  FALSE
      OBVIOUS
    <3>1. PICK rands : rands = operands
      OBVIOUS
    <3>2. \A i \in 1 .. lay[n - 1].rands : rands[i] = operands[i]
      BY <3>1
    <3>3. /\ Last(operators) = operators[n] /\ low \in Place
          /\ Above(T, M, operands, operators[n - 1], low, operators[n], top)
      BY <2>8, <2>9, <3>2, TopIsPopped
    <3>4. top.open = low.open + 1 /\ low.open \in Nat \ {0}
      BY <2>11, <3>3, Sentineled DEF Above, Place
    <3>. QED
      BY <2>10, <3>4
  <2>13. top.pos = 0
    BY <2>8, <2>9, <2>12, LaidTop
  <2>14. operands[Len(operands)] = M[<<1, Len(T)>>]
    BY <2>1, <2>2, <2>10, <2>13 DEF Complete, Phrase
  <2>. QED
    BY <2>2, <2>3, <2>14 DEF Last
<1>5. MinusBeforeAbs' <=> MinusBeforeAbs
  BY <1>1 DEF MinusBeforeAbs
<1>6. Meaning(read)' = Meaning(read)
  BY <1>1
<1>7. ASSUME ~ MinusBeforeAbs'
      PROVE  TermsRight'
  BY <1>1, <1>4, <1>5, <1>6, <1>7 DEF TermsRight
<1>. QED
  BY <1>7 DEF TermInv

LEMMA StutterBuilds ==
  ASSUME TermInv, GrammarInv', UNCHANGED vars
  PROVE  TermInv'
<1>1. UNCHANGED <<next, operators, operands, stack, status, read, result>>
  BY DEF vars
<1>2. CASE status = "parsing" /\ ~ AtEnter({"parse"})
  <2>1. Done' = Done /\ \A T : Extends(T)' => Extends(T)
    BY <1>1, StaysLookedAt
  <2>2. Pushing' <=> Pushing
    BY <1>1 DEF Pushing, At
  <2>3. \A T, M : \A top \in Place : Placed(T, M, top) => Placed(T, M, top)'
    BY <1>1, <2>1, <2>2 DEF Placed
  <2>4. \A T, M : Built(T, M) => Built(T, M)'
    BY <1>1, <2>3, StacksStay
  <2>. QED
    BY <1>1, <1>2, <2>1, <2>4, StepBuilds
<1>3. CASE ~ (status = "parsing" /\ ~ AtEnter({"parse"}))
  <2>1. ~ (status' = "parsing" /\ ~ AtEnter({"parse"})')
    BY <1>1, <1>3 DEF AtEnter
  <2>2. MinusBeforeAbs' <=> MinusBeforeAbs
    BY <1>1 DEF MinusBeforeAbs
  <2>3. ~ MinusBeforeAbs => TermsRight'
    BY <1>1, <2>1 DEF TermInv, TermsRight
  <2>. QED
    BY <2>2, <2>3 DEF TermInv
<1>. QED
  BY <1>2, <1>3

LEMMA TermInvIsKept ==
  ASSUME TermInv, [Next]_vars
  PROVE  TermInv'
<1>1. GrammarInv'
  BY GrammarInvIsKept DEF TermInv
<1>2. CASE parse
  <2>1. /\ status' = "parsing" /\ stack' = <<Activation("parse")>>
    BY <1>2 DEF parse
  <2>2. Last(stack') = Activation("parse")
    BY <2>1 DEF Last
  <2>3. AtEnter({"parse"})'
    BY <2>1, <2>2 DEF AtEnter, Activation
  <2>. QED
    BY <1>1, <2>1, <2>3 DEF TermInv, TermsRight
<1>3. CASE popOperatorUndefined \/ Throw
  <2>1. status' = "undefined" \/ status' = "threw"
    BY <1>3 DEF popOperatorUndefined, Throw
  <2>. QED
    BY <1>1, <2>1 DEF TermInv, TermsRight
<1>4. CASE pushOperator
  <2>1. Pushing
    BY <1>4 DEF pushOperator
  <2>2. Last(stack).proc \in {"E", "LogicEXP"} \/ Last(stack).proc \in {"P", "LP"}
    BY <2>1 DEF Pushing, At
  <2>. QED
    BY <1>1, <1>4, <2>2, PushBinaryBuilds, PushUnaryBuilds
<1>5. CASE popOperator
  BY <1>1, <1>5, PopBuilds
<1>6. CASE ParseExpression
  BY <1>1, <1>6, ParseExpressionBuilds
<1>7. CASE ParseReturns
  BY <1>1, <1>7, ParseReturnsBuilds
<1>8. CASE EnterE
  BY <1>1, <1>8, EnterEBuilds
<1>9. CASE LeaveE
  BY <1>1, <1>9, LeaveEBuilds
<1>10. CASE EnterLogicEXP
  BY <1>1, <1>10, EnterLogicEXPBuilds
<1>11. CASE CloseLogicEXP \/ CloseParenthesis
  BY <1>1, <1>11, CloseBuilds
<1>12. CASE LeaveLogicEXP \/ LeaveParenthesis
  BY <1>1, <1>12, LeaveBracketBuilds
<1>13. CASE ReadOperand
  BY <1>1, <1>13, ReadOperandBuilds
<1>14. CASE OpenParenthesis
  BY <1>1, <1>14, OpenParenthesisBuilds
<1>15. CASE EnterParenthesis
  BY <1>1, <1>15, EnterParenthesisBuilds
<1>16. CASE NestedLogicEXP
  BY <1>1, <1>16, NestedLogicEXPBuilds
<1>17. CASE UNCHANGED vars
  BY <1>1, <1>17, StutterBuilds
<1>. QED
  BY <1>2, <1>3, <1>4, <1>5, <1>6, <1>7, <1>8, <1>9, <1>10, <1>11, <1>12, <1>13, <1>14,
     <1>15, <1>16, <1>17 DEF Next, Step

LEMMA TermInvHolds == Spec => []TermInv
<1>1. Init => TermInv
  <2>1. Init => status = "idle"
    BY DEF Init
  <2>2. Init => GrammarInv
    BY <2>1, InputInvInitially DEF GrammarInv, Progress
  <2>. QED
    BY <2>1, <2>2 DEF TermInv, TermsRight
<1>2. TermInv /\ [Next]_vars => TermInv'
  BY TermInvIsKept
<1>. QED
  BY <1>1, <1>2, PTL DEF Spec

(* On every input, and whatever earlier calls have left on the stacks,     *)
(* parse accepts only expressions, and returns the term that the           *)
(* precedences in parser.h give to what was read, unless a unary minus     *)
(* stands in front of abs.                                                 *)
THEOREM ExpressionsReadAsWritten == Spec => []ReadsAsWritten
<1>1. TermInv /\ (status = "returned" => IsExpression(read)) => ReadsAsWritten
  BY DEF TermInv, TermsRight, ReadsAsWritten
<1>. QED
  BY <1>1, TermInvHolds, OnlyExpressionsAccepted, PTL
=============================================================================
