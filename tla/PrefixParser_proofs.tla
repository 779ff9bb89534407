------------------------ MODULE PrefixParser_proofs ------------------------
(***************************************************************************)
(* Proofs about class Parser, with a lexer that takes tokens back: the     *)
(* discipline of its recursion on every input, that the brackets of what   *)
(* it accepts balance, that it returns the one term that the grammar gives *)
(* the tokens, and that it throws only where there is none.                *)
(*                                                                         *)
(* A token that is taken back has been read and is not consumed.  Of the   *)
(* tokens that are consumed, the opening brackets of a kind are as many as *)
(* the closing ones and the activations that wait for one: a bracket that  *)
(* is looked at by parseOpExpression is closed by its caller only.  The    *)
(* outermost activation waits for the parenthesis that parse has put       *)
(* behind the input.                                                       *)
(*                                                                         *)
(* Each activation has consumed a part of the tokens, behind that of its   *)
(* caller, which reads as the operands it has.  Whatever tokens may still  *)
(* follow, if all of them are a term, then the part of an activation is    *)
(* the beginning of a term: the grammar is not ambiguous, so what has been *)
(* read cannot be read in another way.                                     *)
(***************************************************************************)
EXTENDS PrefixParser, ParserLemmas

----------------------------------------------------------------------------
(* The invariant. *)

(* Activation records whose operands are in T. *)
Records(T) ==
  [proc : {"parseExpression"}, pc : {"enter"} \cup Closing, op : {""}, exprs : Seq(T)]
    \cup [proc : {"parseOpExpression"}, pc : {"enter", "loop"},
          op : {""} \cup Operators, exprs : Seq(T)]

PrefixTypes ==
  /\ status \in {"parsing", "returned", "threw"}
  /\ input \in {"(", "input", "end"}
  /\ reverted \in BOOLEAN
  /\ previous \in Tokens
  /\ read \in Seq(Tokens)
  /\ \E T : stack \in Seq(Records(T))

(* An activation that waits for another has not got its operand yet, if it *)
(* is one of parseExpression; the innermost has.                           *)
Waits(fr) ==
  /\ fr.pc # "enter"
  /\ fr.proc = "parseExpression" => fr.exprs = <<>>

Runs(fr) ==
  fr.proc = "parseExpression" => Len(fr.exprs) = IF fr.pc = "enter" THEN 0 ELSE 1

AllWait(s) == \A i \in 1 .. Len(s) : Waits(s[i])

Disciplined(s) == AllWait(Front(s)) /\ Runs(Last(s))

Opened(s) == s[1].proc = "parseExpression" /\ s[1].pc = "RPAREN"

(* The outermost activation waits for the last parenthesis, once it has    *)
(* read the first one.                                                     *)
OutermostWaits ==
  \/ /\ stack = <<Activation("parseExpression")>>
     /\ input = "(" /\ ~ reverted
  \/ Opened(stack) /\ input # "("

(* The operator that parseOpExpression is called for is taken back. *)
OperatorTakenBack ==
  Last(stack).proc = "parseOpExpression" /\ Last(stack).pc = "enter"
    => reverted /\ previous.type = "OP"

Consumed(type) ==
  Count(read, {Token(type)}) - (IF reverted THEN One(previous, {Token(type)}) ELSE 0)

WaitsFor(fr, type) == IF fr.pc = type THEN 1 ELSE 0

Waiting(s, type) == Cardinality({i \in 1 .. Len(s) : s[i].pc = type})

Balanced ==
  \A type \in Opening :
    Consumed(type) = Consumed(ClosingOf(type)) + Waiting(stack, ClosingOf(type))

PrefixInv ==
  /\ PrefixTypes
  /\ stack = <<>> <=> status # "parsing"
  /\ status = "parsing" => Disciplined(stack) /\ OutermostWaits /\ OperatorTakenBack
  /\ status = "returned" => ~ reverted
  /\ status # "threw" => Balanced

----------------------------------------------------------------------------
(* Stacks of activation records. *)

LEMMA WaitingType ==
  ASSUME NEW T, NEW s \in Seq(Records(T)), NEW type
  PROVE  Waiting(s, type) \in Nat
<1>1. IsFiniteSet(1 .. Len(s))
  BY FS_Interval
<1>2. IsFiniteSet({i \in 1 .. Len(s) : s[i].pc = type})
  BY <1>1, FS_Subset
<1>. QED
  BY <1>2, FS_CardinalityType DEF Waiting

LEMMA WaitingAppend ==
  ASSUME NEW T, NEW s \in Seq(Records(T)), NEW fr \in Records(T), NEW type
  PROVE  Waiting(Append(s, fr), type) = Waiting(s, type) + WaitsFor(fr, type)
<1>1. PICK t, n : t = Append(s, fr) /\ n = Len(s)
  OBVIOUS
<1>2. n \in Nat /\ Len(t) = n + 1 /\ t[n + 1] = fr /\ \A i \in 1 .. n : t[i] = s[i]
  BY <1>1
<1>3. PICK A : A = {i \in 1 .. n : s[i].pc = type}
  OBVIOUS
<1>4. PICK B : B = {i \in 1 .. n + 1 : t[i].pc = type}
  OBVIOUS
<1>5. IsFiniteSet(A) /\ n + 1 \notin A /\ Cardinality(A) \in Nat
  <2>1. IsFiniteSet(1 .. n) /\ A \subseteq 1 .. n
    BY <1>2, <1>3, FS_Interval
  <2>2. IsFiniteSet(A)
    BY <2>1, FS_Subset
  <2>. QED
    BY <1>2, <2>1, <2>2, FS_CardinalityType
<1>6. Waiting(s, type) = Cardinality(A) /\ Waiting(t, type) = Cardinality(B)
  BY <1>1, <1>2, <1>3, <1>4 DEF Waiting
<1>7. CASE fr.pc = type
  <2>1. B = A \cup {n + 1}
    BY <1>2, <1>3, <1>4, <1>7
  <2>2. Cardinality(B) = Cardinality(A) + 1
    BY <1>5, <2>1, FS_AddElement
  <2>. QED
    BY <1>1, <1>6, <1>7, <2>2 DEF WaitsFor
<1>8. CASE fr.pc # type
  <2>1. B = A
    BY <1>2, <1>3, <1>4, <1>8
  <2>. QED
    BY <1>1, <1>5, <1>6, <1>8, <2>1 DEF WaitsFor
<1>. QED
  BY <1>7, <1>8

(* The outermost activation stays. *)
LEMMA OpenedAppend ==
  ASSUME NEW T, NEW r \in Seq(Records(T)), NEW fr \in Records(T)
  PROVE  Opened(Append(r, fr)) <=> IF r = <<>> THEN Opened(<<fr>>) ELSE Opened(r)
<1>1. Len(r) \in Nat /\ (r = <<>> <=> Len(r) = 0)
  BY EmptySeq
<1>2. Append(r, fr)[1] = IF r = <<>> THEN <<fr>>[1] ELSE r[1]
  BY <1>1
<1>. QED
  BY <1>2 DEF Opened

(* An activation record on top of others that wait for it. *)
LEMMA Pushed ==
  ASSUME NEW T, NEW r \in Seq(Records(T)), AllWait(r), NEW fr \in Records(T),
         NEW s, s = Append(r, fr)
  PROVE  /\ s \in Seq(Records(T)) /\ s # <<>> /\ Last(s) = fr
         /\ Runs(fr) => Disciplined(s)
         /\ Waits(fr) => AllWait(s)
<1>1. s # <<>> /\ Front(s) = r /\ Last(s) = fr
  BY PushPop
<1>2. Len(r) \in Nat /\ Len(s) = Len(r) + 1 /\ s[Len(r) + 1] = fr /\ \A i \in 1 .. Len(r) : s[i] = r[i]
  OBVIOUS
<1>3. Waits(fr) => AllWait(s)
  BY <1>2 DEF AllWait
<1>. QED
  BY <1>1, <1>3 DEF Disciplined

(* The innermost activation and those that wait for it. *)
LEMMA Innermost ==
  ASSUME NEW T, NEW s \in Seq(Records(T)), s # <<>>
  PROVE  /\ Len(s) \in Nat \ {0} /\ Front(s) \in Seq(Records(T)) /\ Last(s) \in Records(T)
         /\ Last(s) = s[Len(s)]
         /\ s = Append(Front(s), Last(s))
         /\ Len(Front(s)) = Len(s) - 1
         /\ \A i \in 1 .. Len(s) - 1 : Front(s)[i] = s[i]
         /\ Front(s) = <<>> <=> Len(s) = 1
         /\ Front(s) # <<>> => (Opened(s) <=> Opened(Front(s)))
         /\ Front(s) = <<>> => s[1] = Last(s)
         /\ \A type : /\ Waiting(s, type) = Waiting(Front(s), type) + WaitsFor(Last(s), type)
                      /\ Waiting(Front(s), type) \in Nat
<1>1. PICK r : r = Front(s)
  OBVIOUS
<1>2. /\ Len(s) \in Nat \ {0} /\ r \in Seq(Records(T)) /\ Last(s) \in Records(T)
      /\ Last(s) = s[Len(s)] /\ Len(r) = Len(s) - 1 /\ \A i \in 1 .. Len(s) - 1 : r[i] = s[i]
  BY <1>1, TopOfStack
<1>3. s = Append(r, Last(s))
  BY <1>1, PopPush
<1>4. r = <<>> <=> Len(r) = 0
  BY <1>2, EmptySeq
<1>5. /\ (r = <<>> <=> Len(s) = 1) /\ (r = <<>> => s[1] = Last(s))
      /\ r # <<>> => (Opened(s) <=> Opened(r))
  BY <1>2, <1>4 DEF Opened
<1>6. \A type : /\ Waiting(s, type) = Waiting(r, type) + WaitsFor(Last(s), type)
                 /\ Waiting(r, type) \in Nat
  <2>. TAKE type
  <2>1. \A fr \in Records(T) : Waiting(Append(r, fr), type) = Waiting(r, type) + WaitsFor(fr, type)
    <3>. TAKE fr \in Records(T)
    <3>. QED
      BY ONLY <1>2, WaitingAppend
  <2>2. Waiting(r, type) \in Nat
    BY <1>2, WaitingType
  <2>. QED
    BY <1>2, <1>3, <2>1, <2>2
<1>. QED
  BY <1>1, <1>2, <1>3, <1>5, <1>6

----------------------------------------------------------------------------
(* The lexer. *)

LEMMA BracketToken ==
  ASSUME NEW t \in Tokens, NEW type \in Opening \cup Closing
  PROVE  t.type = type <=> t = Token(type)
<1>1. Token(type).type = type
  BY DEF Token
<1>2. CASE \E name \in Operators : t = OpToken(name)
  <2>1. t.type = "OP" /\ type # "OP"
    BY <1>2 DEF OpToken, Opening, Closing
  <2>. QED
    BY <1>1, <2>1
<1>3. ASSUME NEW other, t = Token(other)
      PROVE  t.type = type <=> t = Token(type)
  <2>1. t.type = other
    BY <1>3 DEF Token
  <2>. QED
    BY <1>1, <1>3, <2>1
<1>. QED
  BY <1>2, <1>3 DEF Tokens, InputTokens

LEMMA Lexed ==
  ASSUME PrefixTypes, NEW t \in Tokens, NEW back \in BOOLEAN, Lex(t, back)
  PROVE  /\ input' \in {"(", "input", "end"} /\ reverted' = back
         /\ previous' = t /\ previous' \in Tokens /\ read' \in Seq(Tokens)
         /\ input # "(" \/ ~ reverted => input' # "("
         /\ input = "(" /\ ~ reverted => t = Token("LPAREN")
<1>1. CASE reverted
  BY <1>1 DEF Lex, PrefixTypes
<1>2. CASE ~ reverted
  <2>1. /\ previous' = t /\ reverted' = back /\ input' \in {"input", "end"}
        /\ read' = IF t.type = "END" THEN read ELSE Append(read, t)
    BY <1>2 DEF Lex
  <2>2. read' \in Seq(Tokens)
    BY <2>1 DEF PrefixTypes
  <2>3. ASSUME input = "("
        PROVE  t = Token("LPAREN")
    BY <1>2, <2>3 DEF Lex, Following
  <2>. QED
    BY <2>1, <2>2, <2>3
<1>. QED
  BY <1>1, <1>2

(* A token is consumed if it is not taken back. *)
LEMMA Consumes ==
  ASSUME PrefixTypes, NEW t \in Tokens, NEW back \in BOOLEAN, Lex(t, back),
         NEW type \in Opening \cup Closing
  PROVE  /\ Consumed(type) \in Int
         /\ Consumed(type)' = Consumed(type) + IF ~ back /\ t.type = type THEN 1 ELSE 0
<1>1. PICK S : S = {Token(type)}
  OBVIOUS
<1>2. Count(read, S) \in Nat /\ One(previous, S) \in Nat /\ One(t, S) \in Nat
  <2>1. Count(read, S) \in Nat
    BY CountType DEF PrefixTypes
  <2>. QED
    BY <2>1 DEF One
<1>3. One(t, S) = IF t.type = type THEN 1 ELSE 0
  BY <1>1, BracketToken DEF One
<1>4. Consumed(type) = Count(read, S) - (IF reverted THEN One(previous, S) ELSE 0)
  BY <1>1 DEF Consumed
<1>5. Consumed(type)' = Count(read', S) - (IF back THEN One(t, S) ELSE 0)
  BY <1>1, Lexed DEF Consumed
<1>6. CASE reverted
  <2>1. previous = t /\ read' = read
    BY <1>6 DEF Lex
  <2>. QED
    BY <1>2, <1>3, <1>4, <1>5, <1>6, <2>1
<1>7. CASE ~ reverted
  <2>1. Count(read', S) = Count(read, S) + One(t, S)
    <3>1. CASE t.type = "END"
      <4>1. read' = read
        BY <1>7, <3>1 DEF Lex
      <4>2. One(t, S) = 0
        BY <1>3, <3>1 DEF Opening, Closing
      <4>. QED
        BY <1>2, <4>1, <4>2
    <3>2. CASE t.type # "END"
      <4>1. read' = Append(read, t)
        BY <1>7, <3>2 DEF Lex
      <4>2. Count(Append(read, t), S) = Count(read, S) + One(t, S)
        BY CountAppend DEF PrefixTypes
      <4>. QED
        BY <4>1, <4>2
    <3>. QED
      BY <3>1, <3>2
  <2>. QED
    BY <1>2, <1>3, <1>4, <1>5, <1>7, <2>1
<1>. QED
  BY <1>6, <1>7

----------------------------------------------------------------------------
(* What keeps the invariant. *)

(* How many brackets of a type are consumed with t. *)
Brackets(t, back, type) == IF ~ back /\ t.type = type THEN 1 ELSE 0

LEMMA BalanceKept ==
  ASSUME PrefixTypes, Balanced, NEW t \in Tokens, NEW back \in BOOLEAN, Lex(t, back),
         NEW T, stack \in Seq(Records(T)), NEW U, stack' \in Seq(Records(U)),
         \A type \in Opening :
           Brackets(t, back, type) + Waiting(stack, ClosingOf(type))
             = Brackets(t, back, ClosingOf(type)) + Waiting(stack', ClosingOf(type))
  PROVE  Balanced'
<1> SUFFICES ASSUME NEW type \in Opening
             PROVE  Consumed(type)'
                      = Consumed(ClosingOf(type))' + Waiting(stack', ClosingOf(type))
  BY DEF Balanced
<1>1. PICK c : c = ClosingOf(type) /\ c \in Closing
  BY DEF ClosingOf, Opening, Closing
<1>2. Waiting(stack, c) \in Nat /\ Waiting(stack', c) \in Nat
  BY WaitingType
<1>3. /\ Consumed(type) \in Int
      /\ Consumed(type)' = Consumed(type) + Brackets(t, back, type)
  BY Consumes DEF Brackets
<1>4. /\ Consumed(c) \in Int
      /\ Consumed(c)' = Consumed(c) + Brackets(t, back, c)
  BY <1>1, Consumes DEF Brackets
<1>5. Brackets(t, back, type) \in Int /\ Brackets(t, back, c) \in Int
  BY DEF Brackets
<1>6. Consumed(type) = Consumed(c) + Waiting(stack, c)
  BY <1>1 DEF Balanced
<1>7. Brackets(t, back, type) + Waiting(stack, c) = Brackets(t, back, c) + Waiting(stack', c)
  BY <1>1
<1>8. Consumed(type)' = Consumed(c)' + Waiting(stack', c)
  <2>1. PICK m, n, o, l, w, v : /\ m = Consumed(type) /\ n = Consumed(c)
                                /\ o = Brackets(t, back, type) /\ l = Brackets(t, back, c)
                                /\ w = Waiting(stack, c) /\ v = Waiting(stack', c)
    OBVIOUS
  <2>2. /\ m \in Int /\ n \in Int /\ o \in Int /\ l \in Int /\ w \in Int /\ v \in Int
        /\ m = n + w /\ o + w = l + v
    BY <1>2, <1>3, <1>4, <1>5, <1>6, <1>7, <2>1
  <2>3. m + o = (n + l) + v
    BY <2>2
  <2>. QED
    BY <1>3, <1>4, <2>1, <2>3
<1>. QED
  BY <1>1, <1>8

(* The outermost activation is the innermost only at the first token and   *)
(* at the parenthesis it waits for.                                        *)
LEMMA NotOutermost ==
  ASSUME PrefixInv, status = "parsing", NEW t \in Tokens, NEW back \in BOOLEAN, Lex(t, back),
         \/ Last(stack).proc # "parseExpression"
         \/ Last(stack).pc # "RPAREN" /\ t.type # "LPAREN"
  PROVE  /\ Front(stack) # <<>>
         /\ Opened(stack) /\ input' # "("
<1>1. PICK T : stack \in Seq(Records(T))
  BY DEF PrefixInv, PrefixTypes
<1>2. stack # <<>> /\ OutermostWaits /\ PrefixTypes
  BY DEF PrefixInv
<1>3. /\ Front(stack) = <<>> <=> Len(stack) = 1
      /\ Front(stack) = <<>> => stack[1] = Last(stack)
  BY <1>1, <1>2, Innermost
<1>4. ASSUME stack = <<Activation("parseExpression")>>, input = "(", ~ reverted
      PROVE  FALSE
  <2>1. t = Token("LPAREN")
    BY <1>2, <1>4, Lexed
  <2>2. t.type = "LPAREN"
    BY <2>1 DEF Token
  <2>3. PICK fr : fr = Activation("parseExpression") /\ fr.proc = "parseExpression"
    <3>1. Activation("parseExpression").proc = "parseExpression"
      BY DEF Activation
    <3>. QED
      BY <3>1
  <2>4. stack = <<fr>>
    BY <1>4, <2>3
  <2>5. Len(stack) = 1 /\ stack[1] = fr
    BY <2>4
  <2>6. Last(stack) = fr
    BY <1>3, <2>5
  <2>. QED
    BY <2>2, <2>3, <2>6
<1>5. Opened(stack) /\ input # "("
  BY <1>2, <1>4 DEF OutermostWaits
<1>6. Front(stack) # <<>>
  BY <1>3, <1>5 DEF Opened
<1>7. input' # "("
  BY <1>2, <1>5, Lexed
<1>. QED
  BY <1>5, <1>6, <1>7

LEMMA Parsing ==
  ASSUME PrefixInv, status = "parsing"
  PROVE  PrefixTypes /\ stack # <<>> /\ Disciplined(stack) /\ OutermostWaits /\ OperatorTakenBack
           /\ Balanced
BY DEF PrefixInv

(* The innermost activation goes on as fr, or calls fr in its place. *)
LEMMA ReplacedKeeps ==
  ASSUME PrefixInv, status = "parsing", NEW t \in Tokens, NEW back \in BOOLEAN, Lex(t, back),
         NEW T, stack \in Seq(Records(T)), NEW fr \in Records(T), Runs(fr),
         stack' = Append(Front(stack), fr), status' = status,
         Last(stack).pc \notin Closing, fr.pc \notin Closing, t.type = "OP",
         fr.proc = "parseOpExpression" /\ fr.pc = "enter" => back
  PROVE  PrefixInv'
<1>1. PrefixTypes /\ stack # <<>> /\ Disciplined(stack) /\ Balanced
  BY Parsing
<1>2. PICK r : r = Front(stack)
  OBVIOUS
<1>3. r # <<>> /\ Opened(stack) /\ input' # "("
  BY <1>2, NotOutermost, <1>1 DEF Closing
<1>4. /\ r \in Seq(Records(T)) /\ AllWait(r) /\ Opened(r)
      /\ \A type : /\ Waiting(stack, type) = Waiting(r, type) + WaitsFor(Last(stack), type)
                   /\ Waiting(r, type) \in Nat
  BY <1>1, <1>2, <1>3, Innermost DEF Disciplined
<1>5. /\ stack' \in Seq(Records(T)) /\ stack' # <<>> /\ Disciplined(stack') /\ Last(stack') = fr
      /\ Opened(stack')
      /\ \A type : Waiting(stack', type) = Waiting(r, type) + WaitsFor(fr, type)
  <2>1. r \in Seq(Records(T)) /\ AllWait(r) /\ fr \in Records(T) /\ stack' = Append(r, fr)
    BY <1>2, <1>4
  <2>2. /\ stack' \in Seq(Records(T)) /\ stack' # <<>> /\ Last(stack') = fr
        /\ Runs(fr) => Disciplined(stack')
    BY ONLY <2>1, Pushed
  <2>3. Opened(stack')
    BY <1>3, <1>4, <2>1, OpenedAppend
  <2>4. \A type : Waiting(stack', type) = Waiting(r, type) + WaitsFor(fr, type)
    <3>. TAKE type
    <3>. QED
      BY ONLY <2>1, WaitingAppend
  <2>. QED
    BY <2>2, <2>3, <2>4
<1>6. PrefixTypes'
  BY <1>1, <1>5, Lexed DEF PrefixTypes
<1>7. OutermostWaits' /\ OperatorTakenBack'
  BY <1>1, <1>3, <1>4, <1>5, Lexed DEF OutermostWaits, OperatorTakenBack
<1>8. Balanced'
  <2>1. ASSUME NEW type \in Opening
        PROVE  Brackets(t, back, type) + Waiting(stack, ClosingOf(type))
                 = Brackets(t, back, ClosingOf(type)) + Waiting(stack', ClosingOf(type))
    <3>1. ClosingOf(type) \in Closing
      BY DEF ClosingOf, Closing
    <3>2. Waiting(stack, ClosingOf(type)) = Waiting(stack', ClosingOf(type))
      BY <1>4, <1>5, <3>1 DEF WaitsFor
    <3>3. Brackets(t, back, type) = 0 /\ Brackets(t, back, ClosingOf(type)) = 0
      BY <3>1 DEF Brackets, Opening, Closing
    <3>. QED
      BY <3>2, <3>3
  <2>. QED
    BY <1>1, <1>5, <2>1, BalanceKept
<1>. QED
  BY <1>5, <1>6, <1>7, <1>8 DEF PrefixInv

(* The innermost activation goes on as fr, once the one it calls returns. *)
LEMMA CalledKeeps ==
  ASSUME PrefixInv, status = "parsing", NEW t \in Tokens, NEW back \in BOOLEAN, Lex(t, back),
         NEW T, stack \in Seq(Records(T)), NEW fr \in Records(T), Waits(fr),
         stack' = Append(Append(Front(stack), fr), Activation("parseExpression")),
         status' = status, input' # "(",
         IF Front(stack) = <<>> THEN Opened(<<fr>>) ELSE Opened(stack),
         \A type \in Opening :
           Brackets(t, back, type) + WaitsFor(Last(stack), ClosingOf(type))
             = Brackets(t, back, ClosingOf(type)) + WaitsFor(fr, ClosingOf(type))
  PROVE  PrefixInv'
<1>1. PrefixTypes /\ stack # <<>> /\ Disciplined(stack) /\ Balanced
  BY Parsing
<1>2. PICK r : r = Front(stack)
  OBVIOUS
<1>3. /\ r \in Seq(Records(T)) /\ AllWait(r) /\ (r # <<>> => Opened(r))
      /\ \A type : /\ Waiting(stack, type) = Waiting(r, type) + WaitsFor(Last(stack), type)
                   /\ Waiting(r, type) \in Nat
  BY <1>1, <1>2, Innermost DEF Disciplined
<1>4. PICK callee : callee = Activation("parseExpression")
  OBVIOUS
<1>5. callee \in Records(T) /\ callee.proc = "parseExpression" /\ callee.pc = "enter" /\ callee.exprs = <<>>
  <2>1. callee = [proc |-> "parseExpression", pc |-> "enter", op |-> "", exprs |-> <<>>]
    BY <1>4 DEF Activation
  <2>2. callee.proc = "parseExpression" /\ callee.pc = "enter" /\ callee.exprs = <<>>
    BY <2>1
  <2>3. <<>> \in Seq(T)
    OBVIOUS
  <2>4. callee \in Records(T)
    BY <2>1, <2>3 DEF Records
  <2>. QED
    BY <2>2, <2>4
<1>6. PICK s : s = Append(r, fr)
  OBVIOUS
<1>7. r \in Seq(Records(T)) /\ AllWait(r) /\ fr \in Records(T) /\ s = Append(r, fr)
  BY <1>3, <1>6
<1>8. s \in Seq(Records(T)) /\ s # <<>> /\ AllWait(s)
  BY ONLY <1>7, Pushed, Waits(fr)
<1>9. Opened(s)
  BY <1>2, <1>3, <1>7, OpenedAppend
<1>10. stack' = Append(s, callee)
  BY <1>2, <1>4, <1>6
<1>11. Runs(callee)
  BY <1>5 DEF Runs
<1>12. stack' \in Seq(Records(T)) /\ stack' # <<>> /\ Last(stack') = callee /\ Disciplined(stack')
  BY ONLY <1>5, <1>8, <1>10, <1>11, Pushed
<1>13. Opened(stack')
  BY <1>5, <1>8, <1>9, <1>10, OpenedAppend
<1>14. PrefixTypes'
  BY <1>1, <1>12, Lexed DEF PrefixTypes
<1>15. OutermostWaits' /\ OperatorTakenBack'
  BY <1>5, <1>12, <1>13 DEF OutermostWaits, OperatorTakenBack
<1>16. Balanced'
  <2>1. ASSUME NEW type \in Opening
        PROVE  Brackets(t, back, type) + Waiting(stack, ClosingOf(type))
                 = Brackets(t, back, ClosingOf(type)) + Waiting(stack', ClosingOf(type))
    <3>1. PICK c : c = ClosingOf(type) /\ c \in Closing
      BY DEF ClosingOf, Closing
    <3>2. Waiting(s, c) = Waiting(r, c) + WaitsFor(fr, c)
      BY ONLY <1>7, WaitingAppend
    <3>3. Waiting(stack', c) = Waiting(s, c) + WaitsFor(callee, c)
      BY ONLY <1>5, <1>8, <1>10, WaitingAppend
    <3>4. WaitsFor(callee, c) = 0
      BY <1>5, <3>1 DEF WaitsFor, Closing
    <3>5. Waiting(stack, c) = Waiting(r, c) + WaitsFor(Last(stack), c) /\ Waiting(r, c) \in Nat
      BY <1>3
    <3>6. Brackets(t, back, type) + WaitsFor(Last(stack), c) = Brackets(t, back, c) + WaitsFor(fr, c)
      BY <3>1
    <3>7. /\ Brackets(t, back, type) \in Nat /\ Brackets(t, back, c) \in Nat
          /\ WaitsFor(fr, c) \in Nat /\ WaitsFor(Last(stack), c) \in Nat
      BY DEF Brackets, WaitsFor
    <3>8. Waiting(stack', c) = Waiting(r, c) + WaitsFor(fr, c)
      BY <3>2, <3>3, <3>4, <3>5, <3>7
    <3>9. Brackets(t, back, type) + Waiting(stack, c) = Brackets(t, back, c) + Waiting(stack', c)
      <4>1. PICK o, l, u, f, w :
              /\ o = Brackets(t, back, type) /\ l = Brackets(t, back, c)
              /\ u = WaitsFor(Last(stack), c) /\ f = WaitsFor(fr, c) /\ w = Waiting(r, c)
        OBVIOUS
      <4>2. o \in Nat /\ l \in Nat /\ u \in Nat /\ f \in Nat /\ w \in Nat /\ o + u = l + f
        BY <3>5, <3>6, <3>7, <4>1
      <4>3. o + (w + u) = l + (w + f)
        BY <4>2
      <4>. QED
        BY <3>5, <3>8, <4>1, <4>3
    <3>. QED
      BY <3>1, <3>9
  <2>. QED
    BY <1>1, <1>12, <2>1, BalanceKept
<1>. QED
  BY <1>12, <1>14, <1>15, <1>16 DEF PrefixInv

(* More operands. *)
LEMMA RecordsGrow ==
  ASSUME NEW T, NEW U, T \subseteq U
  PROVE  Records(T) \subseteq Records(U)
<1>1. Seq(T) \subseteq Seq(U)
  OBVIOUS
<1>. QED
  BY <1>1 DEF Records

(* What an activation that waits becomes when it is given an operand. *)
LEMMA GivenOperand ==
  ASSUME NEW T, NEW U, T \subseteq U, NEW fr \in Records(T), Waits(fr), NEW e \in U,
         NEW new, new = [fr EXCEPT !.exprs = Append(@, e)]
  PROVE  /\ new \in Records(U) /\ new.proc = fr.proc /\ new.pc = fr.pc
         /\ Runs(new)
<1>1. PICK es : es = fr.exprs /\ es \in Seq(T)
  BY DEF Records
<1>2. Append(es, e) \in Seq(U) /\ Len(Append(es, e)) = Len(es) + 1
  BY <1>1
<1>3. new.proc = fr.proc /\ new.pc = fr.pc /\ new.exprs = Append(es, e)
  BY <1>1 DEF Records
<1>4. new \in Records(U)
  BY <1>1, <1>2 DEF Records
<1>5. fr.proc = "parseExpression" => Len(new.exprs) = 1
  BY <1>1, <1>2, <1>3 DEF Waits
<1>. QED
  BY <1>3, <1>4, <1>5 DEF Runs, Waits

(* The innermost activation returns e. *)
LEMMA ReturnKeeps ==
  ASSUME PrefixInv, status = "parsing", NEW t \in Tokens, NEW back \in BOOLEAN, Lex(t, back),
         NEW e, Return(e), Front(stack) = <<>> => ~ back,
         Front(stack) # <<>> => input' # "(",
         \A type \in Opening :
           Brackets(t, back, type) + WaitsFor(Last(stack), ClosingOf(type))
             = Brackets(t, back, ClosingOf(type))
  PROVE  PrefixInv'
<1>1. PrefixTypes /\ stack # <<>> /\ Disciplined(stack) /\ Balanced
  BY Parsing
<1>2. PICK T : stack \in Seq(Records(T))
  BY <1>1 DEF PrefixTypes
<1>3. PICK r, n : r = Front(stack) /\ n = Len(stack) - 1
  OBVIOUS
<1>4. /\ r \in Seq(Records(T)) /\ AllWait(r) /\ (r # <<>> => Opened(stack) /\ Opened(r))
      /\ n \in Nat /\ Len(r) = n /\ (r = <<>> <=> n = 0)
      /\ \A type : /\ Waiting(stack, type) = Waiting(r, type) + WaitsFor(Last(stack), type)
                   /\ Waiting(r, type) \in Nat
  <2>1. /\ Len(stack) \in Nat \ {0} /\ r \in Seq(Records(T)) /\ AllWait(r) /\ Len(r) = Len(stack) - 1
        /\ r # <<>> => (Opened(stack) <=> Opened(r))
        /\ r = <<>> <=> Len(stack) = 1
    BY <1>1, <1>2, <1>3, Innermost DEF Disciplined
  <2>2. \A type : /\ Waiting(stack, type) = Waiting(r, type) + WaitsFor(Last(stack), type)
                  /\ Waiting(r, type) \in Nat
    BY <1>1, <1>2, <1>3, Innermost
  <2>3. r # <<>> => Opened(stack)
    <3>1. PICK fr : fr = Activation("parseExpression")
      OBVIOUS
    <3>2. stack = <<fr>> => Len(stack) = 1
      OBVIOUS
    <3>. QED
      BY <2>1, <3>1, <3>2, Parsing DEF OutermostWaits
  <2>. QED
    BY <1>3, <2>1, <2>2, <2>3
<1>5. ASSUME NEW type \in Opening, NEW c, c = ClosingOf(type)
      PROVE  Brackets(t, back, type) + Waiting(stack, c) = Brackets(t, back, c) + Waiting(r, c)
  <2>1. Brackets(t, back, type) \in Nat /\ Brackets(t, back, c) \in Nat /\ WaitsFor(Last(stack), c) \in Nat
    BY DEF Brackets, WaitsFor
  <2>2. Brackets(t, back, type) + WaitsFor(Last(stack), c) = Brackets(t, back, c)
    BY <1>5
  <2>3. Waiting(stack, c) = Waiting(r, c) + WaitsFor(Last(stack), c) /\ Waiting(r, c) \in Nat
    BY <1>4
  <2>. QED
    BY <2>1, <2>2, <2>3
<1>6. CASE n = 0
  <2>1. stack' = <<>> /\ status' = "returned" /\ ~ back /\ r = <<>>
    BY <1>3, <1>4, <1>6 DEF Return
  <2>2. stack' \in Seq(Records(T))
    BY <2>1
  <2>3. Balanced'
    <3>1. r = stack'
      BY <2>1
    <3>2. ASSUME NEW type \in Opening
          PROVE  Brackets(t, back, type) + Waiting(stack, ClosingOf(type))
                   = Brackets(t, back, ClosingOf(type)) + Waiting(stack', ClosingOf(type))
      BY <1>5, <3>1
    <3>. QED
      BY <1>1, <1>2, <2>2, <3>2, BalanceKept
  <2>4. PrefixTypes'
    BY <1>1, <2>1, <2>2, Lexed DEF PrefixTypes
  <2>5. ~ reverted'
    BY <1>1, <2>1, Lexed
  <2>. QED
    BY <2>1, <2>3, <2>4, <2>5 DEF PrefixInv
<1>7. CASE n # 0
  <2>1. PICK fr, new, U : /\ fr = Last(r) /\ new = [fr EXCEPT !.exprs = Append(@, e)]
                          /\ U = T \cup {e}
    OBVIOUS
  <2>2. r # <<>> /\ stack' = [r EXCEPT ![n].exprs = Append(@, e)] /\ status' = status
    BY <1>3, <1>4, <1>7 DEF Return
  <2>3. PICK b : b = Front(r)
    OBVIOUS
  <2>4. /\ b \in Seq(Records(T)) /\ fr \in Records(T) /\ fr = r[n]
        /\ Len(b) = n - 1 /\ (\A i \in 1 .. n - 1 : b[i] = r[i])
    BY <1>2, <1>4, <2>1, <2>2, <2>3, Innermost
  <2>5. Waits(fr) /\ AllWait(b)
    BY <1>4, <1>7, <2>4 DEF AllWait
  <2>6. new \in Records(U) /\ new.proc = fr.proc /\ new.pc = fr.pc /\ Runs(new)
    <3>1. /\ fr \in Records(T) /\ Waits(fr) /\ T \subseteq U /\ e \in U
          /\ new = [fr EXCEPT !.exprs = Append(@, e)]
      BY <2>1, <2>4, <2>5
    <3>. QED
      BY ONLY <3>1, GivenOperand
  <2>7. Records(T) \subseteq Records(U)
    BY <2>1, RecordsGrow
  <2>8. r \in Seq(Records(U)) /\ b \in Seq(Records(U))
    BY <1>4, <2>4, <2>7
  <2>9. stack' = Append(b, new)
    <3>1. stack' = [r EXCEPT ![n] = new]
      BY <1>4, <1>7, <2>1, <2>2, <2>4
    <3>2. [r EXCEPT ![Len(r)] = new] = Append(Front(r), new)
      BY <2>2, <2>6, <2>8, TopChanged
    <3>. QED
      BY <1>4, <2>3, <3>1, <3>2
  <2>10. /\ stack' \in Seq(Records(U)) /\ stack' # <<>> /\ Last(stack') = new
         /\ Disciplined(stack')
    BY ONLY <2>5, <2>6, <2>8, <2>9, Pushed
  <2>11. Opened(stack')
    <3>1. Opened(stack') <=> IF b = <<>> THEN Opened(<<new>>) ELSE Opened(b)
      BY <2>6, <2>8, <2>9, OpenedAppend
    <3>2. Opened(r)
      BY <1>4, <2>2
    <3>3. CASE b = <<>>
      <4>1. n = 1
        BY <1>4, <2>4, <3>3
      <4>2. Opened(<<new>>)
        BY <2>4, <2>6, <3>2, <4>1 DEF Opened
      <4>. QED
        BY <3>1, <3>3, <4>2
    <3>4. CASE b # <<>>
      <4>1. Opened(b)
        BY <2>2, <2>3, <1>4, <3>2, <3>4, Innermost
      <4>. QED
        BY <3>1, <3>4, <4>1
    <3>. QED
      BY <3>3, <3>4
  <2>12. \A type : Waiting(stack', type) = Waiting(r, type)
    <3>. TAKE type
    <3>1. Waiting(stack', type) = Waiting(b, type) + WaitsFor(new, type)
      BY ONLY <2>6, <2>8, <2>9, WaitingAppend
    <3>2. Waiting(r, type) = Waiting(b, type) + WaitsFor(fr, type)
      BY <1>4, <2>1, <2>2, <2>3, Innermost
    <3>3. WaitsFor(new, type) = WaitsFor(fr, type)
      BY <2>6 DEF WaitsFor
    <3>. QED
      BY <3>1, <3>2, <3>3
  <2>13. Balanced'
    <3>1. ASSUME NEW type \in Opening
          PROVE  Brackets(t, back, type) + Waiting(stack, ClosingOf(type))
                   = Brackets(t, back, ClosingOf(type)) + Waiting(stack', ClosingOf(type))
      BY <1>5, <2>12
    <3>. QED
      BY <1>1, <1>2, <2>10, <3>1, BalanceKept
  <2>14. PrefixTypes'
    BY <1>1, <2>2, <2>10, Lexed DEF PrefixTypes
  <2>15. OutermostWaits' /\ OperatorTakenBack'
    <3>1. new.pc # "enter" /\ input' # "("
      BY <1>3, <2>2, <2>5, <2>6 DEF Waits
    <3>. QED
      BY <2>10, <2>11, <3>1 DEF OutermostWaits, OperatorTakenBack
  <2>. QED
    BY <2>2, <2>10, <2>13, <2>14, <2>15 DEF PrefixInv
<1>. QED
  BY <1>6, <1>7

LEMMA ThrowKeeps ==
  ASSUME PrefixInv, status = "parsing", NEW t \in Tokens, NEW back \in BOOLEAN, Lex(t, back), Throw
  PROVE  PrefixInv'
<1>1. PrefixTypes /\ stack' = <<>> /\ status' = "threw"
  BY Parsing DEF Throw
<1>2. \E T : stack' \in Seq(Records(T))
  <2>1. stack' \in Seq(Records({}))
    BY <1>1
  <2>. QED
    BY <2>1
<1>. QED
  BY <1>1, <1>2, Lexed DEF PrefixInv, PrefixTypes

----------------------------------------------------------------------------
(* The actions keep the invariant. *)

LEMMA ReadOperandKeeps ==
  ASSUME PrefixInv, ReadOperand
  PROVE  PrefixInv'
<1>1. PICK t \in Tokens : Lex(t, FALSE) /\ t.type \in Operand
  BY DEF ReadOperand, getNextToken
<1>2. /\ status = "parsing" /\ Last(stack).proc = "parseExpression" /\ Last(stack).pc = "enter"
      /\ Return(Leaf(previous'.type, Len(read')))
  BY DEF ReadOperand, At
<1>3. t.type \notin Opening \cup Closing
  BY <1>1 DEF Operand, Opening, Closing
<1>4. Front(stack) # <<>> /\ input' # "("
  BY <1>1, <1>2, <1>3, NotOutermost DEF Opening
<1>5. ASSUME NEW type \in Opening
      PROVE  Brackets(t, FALSE, type) + WaitsFor(Last(stack), ClosingOf(type))
               = Brackets(t, FALSE, ClosingOf(type))
  BY <1>2, <1>3 DEF Brackets, WaitsFor, ClosingOf, Opening, Closing
<1>. QED
  BY <1>1, <1>2, <1>4, <1>5, ReturnKeeps

LEMMA ReadOperatorKeeps ==
  ASSUME PrefixInv, ReadOperator
  PROVE  PrefixInv'
<1>1. PICK t \in Tokens : Lex(t, TRUE) /\ t.type = "OP"
  BY DEF ReadOperator, lookAhead
<1>2. /\ status = "parsing" /\ Last(stack).proc = "parseExpression" /\ Last(stack).pc = "enter"
      /\ stack' = Append(Front(stack), Activation("parseOpExpression")) /\ status' = status
  BY DEF ReadOperator, At
<1>3. PICK T : stack \in Seq(Records(T))
  BY DEF PrefixInv, PrefixTypes
<1>4. PICK fr : fr = Activation("parseOpExpression")
  OBVIOUS
<1>5. fr \in Records(T) /\ fr.pc = "enter" /\ Runs(fr)
  <2>1. fr = [proc |-> "parseOpExpression", pc |-> "enter", op |-> "", exprs |-> <<>>]
    BY <1>4 DEF Activation
  <2>2. <<>> \in Seq(T)
    OBVIOUS
  <2>3. fr.pc = "enter" /\ fr.proc = "parseOpExpression"
    BY <2>1
  <2>4. fr \in Records(T)
    BY <2>1, <2>2 DEF Records
  <2>. QED
    BY <2>3, <2>4 DEF Runs
<1>6. Last(stack).pc \notin Closing /\ fr.pc \notin Closing
  BY <1>2, <1>5 DEF Closing
<1>. QED
  BY <1>1, <1>2, <1>3, <1>4, <1>5, <1>6, ReplacedKeeps

LEMMA EnterOpExpressionKeeps ==
  ASSUME PrefixInv, EnterOpExpression
  PROVE  PrefixInv'
<1>1. PICK t \in Tokens :
        /\ Lex(t, FALSE)
        /\ stack' = [stack EXCEPT ![Len(stack)].pc = "loop", ![Len(stack)].op = t.value]
  BY DEF EnterOpExpression, getNextToken
<1>2. /\ status = "parsing" /\ Last(stack).proc = "parseOpExpression" /\ Last(stack).pc = "enter"
      /\ status' = status
  BY DEF EnterOpExpression, At
<1>3. PrefixTypes /\ stack # <<>> /\ reverted /\ previous.type = "OP"
  BY <1>2, Parsing DEF OperatorTakenBack
<1>4. t.type = "OP"
  BY <1>1, <1>3 DEF Lex
<1>5. t.value \in {""} \cup Operators
  <2>1. \A type : Token(type).value = ""
    BY DEF Token
  <2>2. \A name : OpToken(name).value = name
    BY DEF OpToken
  <2>. QED
    BY <2>1, <2>2 DEF Tokens, InputTokens
<1>6. PICK T : stack \in Seq(Records(T))
  BY <1>3 DEF PrefixTypes
<1>7. PICK fr : fr = [Last(stack) EXCEPT !.pc = "loop", !.op = t.value]
  OBVIOUS
<1>8. Last(stack) \in Records(T)
  BY <1>3, <1>6, Innermost
<1>9. fr \in Records(T)
  BY <1>2, <1>5, <1>7, <1>8 DEF Records
<1>10. stack' = Append(Front(stack), fr) /\ fr.proc = "parseOpExpression" /\ fr.pc = "loop"
  <2>1. Len(stack) \in Nat \ {0} /\ Last(stack) = stack[Len(stack)]
    BY <1>3, <1>6, Innermost
  <2>2. stack' = [stack EXCEPT ![Len(stack)] = fr]
    BY <1>1, <1>6, <1>7, <2>1
  <2>3. [stack EXCEPT ![Len(stack)] = fr] = Append(Front(stack), fr)
    BY ONLY <1>3, <1>6, <1>9, TopChanged
  <2>4. fr.proc = "parseOpExpression" /\ fr.pc = "loop"
    BY <1>2, <1>7, <1>8 DEF Records
  <2>. QED
    BY <2>2, <2>3, <2>4
<1>11. Runs(fr) /\ Last(stack).pc \notin Closing /\ fr.pc \notin Closing
  BY <1>2, <1>10 DEF Runs, Closing
<1>. QED
  BY <1>1, <1>2, <1>4, <1>6, <1>9, <1>10, <1>11, ReplacedKeeps

LEMMA CallIs ==
  ASSUME NEW T, stack \in Seq(Records(T)), stack # <<>>, NEW pc, NEW proc,
         NEW fr, fr = [Last(stack) EXCEPT !.pc = pc], fr \in Records(T)
  PROVE  /\ Call(pc, proc) = Append(Append(Front(stack), fr), Activation(proc))
         /\ fr.proc = Last(stack).proc /\ fr.pc = pc /\ fr.exprs = Last(stack).exprs
<1>1. Len(stack) \in Nat \ {0} /\ Last(stack) \in Records(T) /\ Last(stack) = stack[Len(stack)]
  BY Innermost
<1>2. fr.proc = Last(stack).proc /\ fr.pc = pc /\ fr.exprs = Last(stack).exprs
  BY <1>1 DEF Records
<1>3. [stack EXCEPT ![Len(stack)].pc = pc] = [stack EXCEPT ![Len(stack)] = fr]
  BY <1>1
<1>4. stack \in Seq(Records(T)) /\ stack # <<>> /\ fr \in Records(T)
  OBVIOUS
<1>5. [stack EXCEPT ![Len(stack)] = fr] = Append(Front(stack), fr)
  BY ONLY <1>4, TopChanged
<1>. QED
  BY <1>2, <1>3, <1>5 DEF Call

LEMMA OpenBracketKeeps ==
  ASSUME PrefixInv, OpenBracket
  PROVE  PrefixInv'
<1>1. PICK t \in Tokens :
        /\ Lex(t, FALSE) /\ t.type \in Opening
        /\ stack' = Call(ClosingOf(t.type), "parseExpression")
  BY DEF OpenBracket, getNextToken
<1>2. /\ status = "parsing" /\ Last(stack).proc = "parseExpression" /\ Last(stack).pc = "enter"
      /\ status' = status
  BY DEF OpenBracket, At
<1>3. PrefixTypes /\ stack # <<>> /\ Disciplined(stack) /\ OutermostWaits
  BY <1>2, Parsing
<1>4. PICK T : stack \in Seq(Records(T))
  BY <1>3 DEF PrefixTypes
<1>5. PICK c, fr : c = ClosingOf(t.type) /\ fr = [Last(stack) EXCEPT !.pc = c]
  OBVIOUS
<1>6. c \in Closing
  BY <1>5 DEF ClosingOf, Closing
<1>7. Last(stack) \in Records(T) /\ Last(stack).exprs = <<>>
  <2>1. Last(stack) \in Records(T)
    BY <1>3, <1>4, Innermost
  <2>2. PICK es : es = Last(stack).exprs /\ es \in Seq(T)
    BY <2>1 DEF Records
  <2>3. Len(es) = 0
    BY <1>2, <1>3, <2>2 DEF Disciplined, Runs
  <2>4. es = <<>>
    BY <2>2, <2>3, EmptySeq
  <2>. QED
    BY <2>1, <2>2, <2>4
<1>8. fr \in Records(T)
  BY <1>2, <1>5, <1>6, <1>7 DEF Records
<1>9. /\ stack' = Append(Append(Front(stack), fr), Activation("parseExpression"))
      /\ fr.proc = "parseExpression" /\ fr.pc = c /\ fr.exprs = <<>>
  BY <1>1, <1>2, <1>3, <1>4, <1>5, <1>7, <1>8, CallIs
<1>10. Waits(fr)
  BY <1>6, <1>9 DEF Waits, Closing
<1>11. /\ input' # "("
       /\ IF Front(stack) = <<>> THEN Opened(<<fr>>) ELSE Opened(stack)
  <2>1. CASE input = "(" /\ ~ reverted /\ stack = <<Activation("parseExpression")>>
    <3>1. t = Token("LPAREN") /\ input' # "("
      BY <1>1, <1>3, <2>1, Lexed
    <3>2. fr.pc = "RPAREN"
      BY <1>5, <1>9, <3>1 DEF Token, ClosingOf
    <3>3. Opened(<<fr>>)
      BY <1>9, <3>2 DEF Opened
    <3>4. Front(stack) = <<>>
      <4>1. PICK a : a = Activation("parseExpression")
        OBVIOUS
      <4>2. stack = <<a>>
        BY <2>1, <4>1
      <4>3. Len(stack) = 1
        BY <4>2
      <4>. QED
        BY <1>3, <1>4, <4>3, Innermost
    <3>. QED
      BY <3>1, <3>3, <3>4
  <2>2. CASE Opened(stack) /\ input # "("
    <3>1. input' # "("
      BY <1>1, <1>3, <2>2, Lexed
    <3>2. Front(stack) # <<>>
      BY <1>2, <1>3, <1>4, <2>2, Innermost DEF Opened
    <3>. QED
      BY <2>2, <3>1, <3>2
  <2>. QED
    BY <1>3, <2>1, <2>2 DEF OutermostWaits
<1>12. ASSUME NEW type \in Opening
       PROVE  Brackets(t, FALSE, type) + WaitsFor(Last(stack), ClosingOf(type))
                = Brackets(t, FALSE, ClosingOf(type)) + WaitsFor(fr, ClosingOf(type))
  BY <1>1, <1>2, <1>5, <1>9 DEF Brackets, WaitsFor, ClosingOf, Opening, Closing
<1>. QED
  BY <1>1, <1>2, <1>4, <1>8, <1>9, <1>10, <1>11, <1>12, CalledKeeps

LEMMA NextOperandKeeps ==
  ASSUME PrefixInv, NextOperand
  PROVE  PrefixInv'
<1>1. PICK t \in Tokens : Lex(t, TRUE)
  BY DEF NextOperand, lookAhead
<1>2. /\ status = "parsing" /\ Last(stack).proc = "parseOpExpression" /\ Last(stack).pc = "loop"
      /\ stack' = Call("loop", "parseExpression") /\ status' = status
  BY DEF NextOperand, At
<1>3. PrefixTypes /\ stack # <<>>
  BY <1>2, Parsing
<1>4. PICK T : stack \in Seq(Records(T))
  BY <1>3 DEF PrefixTypes
<1>5. PICK fr : fr = [Last(stack) EXCEPT !.pc = "loop"]
  OBVIOUS
<1>6. Last(stack) \in Records(T)
  BY <1>3, <1>4, Innermost
<1>7. fr \in Records(T)
  BY <1>2, <1>5, <1>6 DEF Records
<1>8. /\ stack' = Append(Append(Front(stack), fr), Activation("parseExpression"))
      /\ fr.proc = "parseOpExpression" /\ fr.pc = "loop"
  BY <1>2, <1>3, <1>4, <1>5, <1>7, CallIs
<1>9. Waits(fr)
  BY <1>8 DEF Waits
<1>10. Front(stack) # <<>> /\ Opened(stack) /\ input' # "("
  BY <1>1, <1>2, NotOutermost
<1>11. ASSUME NEW type \in Opening
       PROVE  Brackets(t, TRUE, type) + WaitsFor(Last(stack), ClosingOf(type))
                = Brackets(t, TRUE, ClosingOf(type)) + WaitsFor(fr, ClosingOf(type))
  BY <1>2, <1>8 DEF Brackets, WaitsFor
<1>. QED
  BY <1>1, <1>2, <1>4, <1>7, <1>8, <1>9, <1>10, <1>11, CalledKeeps

LEMMA CloseBracketKeeps ==
  ASSUME PrefixInv, CloseBracket
  PROVE  PrefixInv'
<1>1. PICK closing \in Closing :
        /\ At("parseExpression", closing)
        /\ \E t \in Tokens : getNextToken(t) /\ t.type = closing
        /\ Return(Last(stack).exprs[1])
  BY DEF CloseBracket
<1>2. PICK t \in Tokens : Lex(t, FALSE) /\ t.type = closing
  BY <1>1 DEF getNextToken
<1>3. status = "parsing" /\ Last(stack).proc = "parseExpression" /\ Last(stack).pc = closing
  BY <1>1 DEF At
<1>4. Front(stack) # <<>> => input' # "("
  <2>1. PrefixTypes /\ OutermostWaits /\ stack # <<>>
    BY <1>3, Parsing
  <2>2. input # "(" \/ ~ reverted
    BY <2>1 DEF OutermostWaits
  <2>. QED
    BY <1>2, <2>1, <2>2, Lexed
<1>5. ASSUME NEW type \in Opening
      PROVE  Brackets(t, FALSE, type) + WaitsFor(Last(stack), ClosingOf(type))
               = Brackets(t, FALSE, ClosingOf(type))
  BY <1>2, <1>3 DEF Brackets, WaitsFor, ClosingOf, Opening, Closing
<1>. QED
  BY <1>1, <1>2, <1>3, <1>4, <1>5, ReturnKeeps

LEMMA OpExpressionReturnsKeeps ==
  ASSUME PrefixInv, OpExpressionReturns
  PROVE  PrefixInv'
<1>1. PICK t \in Tokens : Lex(t, TRUE)
  BY DEF OpExpressionReturns, lookAhead
<1>2. /\ status = "parsing" /\ Last(stack).proc = "parseOpExpression" /\ Last(stack).pc = "loop"
      /\ Return(Node(Last(stack).op, Last(stack).exprs))
  BY DEF OpExpressionReturns, At
<1>3. Front(stack) # <<>> /\ input' # "("
  BY <1>1, <1>2, NotOutermost
<1>4. ASSUME NEW type \in Opening
      PROVE  Brackets(t, TRUE, type) + WaitsFor(Last(stack), ClosingOf(type))
               = Brackets(t, TRUE, ClosingOf(type))
  BY <1>2 DEF Brackets, WaitsFor, ClosingOf
<1>. QED
  BY <1>1, <1>2, <1>3, <1>4, ReturnKeeps

LEMMA ThrowsKeep ==
  ASSUME PrefixInv, NoExpression \/ MissingBracket \/ OpExpressionThrows
  PROVE  PrefixInv'
<1>1. status = "parsing" /\ Throw /\ \E t \in Tokens, back \in BOOLEAN : Lex(t, back)
  BY DEF NoExpression, MissingBracket, OpExpressionThrows, At, getNextToken, lookAhead
<1>. QED
  BY <1>1, ThrowKeeps

LEMMA PrefixInvKept ==
  ASSUME PrefixInv, [Next]_vars
  PROVE  PrefixInv'
<1>1. ASSUME UNCHANGED vars
      PROVE  PrefixInv'
  BY <1>1 DEF PrefixInv, PrefixTypes, Disciplined, OutermostWaits, OperatorTakenBack, Opened,
              Balanced, Consumed, Waiting, vars
<1>. QED
  BY <1>1, ReadOperandKeeps, ReadOperatorKeeps, OpenBracketKeeps, CloseBracketKeeps, ThrowsKeep,
     EnterOpExpressionKeeps, NextOperandKeeps, OpExpressionReturnsKeeps DEF Next

LEMMA PrefixInvHolds == Spec => []PrefixInv
<1>1. Init => PrefixInv
  <2>. SUFFICES ASSUME Init PROVE PrefixInv
    OBVIOUS
  <2>1. PICK a : a = Activation("parseExpression")
    OBVIOUS
  <2>2. a = [proc |-> "parseExpression", pc |-> "enter", op |-> "", exprs |-> <<>>]
    BY <2>1 DEF Activation
  <2>3. PICK T : T = {""}
    OBVIOUS
  <2>4. a.proc = "parseExpression" /\ a.pc = "enter" /\ a.exprs = <<>>
    BY <2>2
  <2>5. a \in Records(T)
    <3>1. <<>> \in Seq(T)
      OBVIOUS
    <3>. QED
      BY <2>2, <3>1 DEF Records
  <2>6. <<>> \in Seq(Records(T)) /\ AllWait(<<>>)
    BY DEF AllWait
  <2>7. stack = Append(<<>>, a)
    BY <2>1 DEF Init
  <2>8. Runs(a)
    BY <2>4 DEF Runs
  <2>9. stack \in Seq(Records(T)) /\ stack # <<>> /\ Last(stack) = a /\ Disciplined(stack)
    BY ONLY <2>5, <2>6, <2>7, <2>8, Pushed
  <2>10. PrefixTypes
    <3>1. \E S : stack \in Seq(Records(S))
      BY <2>9
    <3>2. previous \in Tokens /\ read \in Seq(Tokens)
      BY DEF Init, Tokens
    <3>. QED
      BY <3>1, <3>2 DEF Init, PrefixTypes
  <2>11. OutermostWaits
    BY DEF Init, OutermostWaits
  <2>12. OperatorTakenBack
    BY <2>4, <2>9 DEF OperatorTakenBack
  <2>13. Balanced
    <3>1. ASSUME NEW type
          PROVE  Consumed(type) = 0 /\ (type \in Closing => Waiting(stack, type) = 0)
      <4>1. Consumed(type) = 0
        <5>1. Count(read, {Token(type)}) = 0 /\ ~ reverted
          BY CountEmpty DEF Init
        <5>. QED
          BY <5>1 DEF Consumed
      <4>2. ASSUME type \in Closing
            PROVE  Waiting(stack, type) = 0
        <5>1. Waiting(Append(<<>>, a), type) = Waiting(<<>>, type) + WaitsFor(a, type)
          BY ONLY <2>5, <2>6, WaitingAppend
        <5>2. WaitsFor(a, type) = 0
          BY <2>4, <4>2 DEF WaitsFor, Closing
        <5>3. Waiting(<<>>, type) = 0
          <6>1. {i \in 1 .. Len(<<>>) : <<>>[i].pc = type} = {}
            OBVIOUS
          <6>. QED
            BY <6>1, FS_EmptySet DEF Waiting
        <5>. QED
          BY <2>7, <5>1, <5>2, <5>3
      <4>. QED
        BY <4>1, <4>2
    <3>2. \A type \in Opening : ClosingOf(type) \in Closing
      BY DEF ClosingOf, Closing
    <3>. QED
      BY <3>1, <3>2 DEF Balanced
  <2>. QED
    BY <2>9, <2>10, <2>11, <2>12, <2>13 DEF Init, PrefixInv
<1>2. PrefixInv /\ [Next]_vars => PrefixInv'
  BY PrefixInvKept
<1>. QED
  BY <1>1, <1>2, PTL DEF Spec

----------------------------------------------------------------------------
(* The recursion keeps its discipline on every input, for every set of     *)
(* operators and every length: what parseExpression returns is its one     *)
(* operand, and parseOpExpression is called with the operator taken back.  *)
THEOREM PrefixTypeCorrect == Spec => []PrefixTypeOK
<1>1. PrefixInv => PrefixTypeOK
  <2>. SUFFICES ASSUME PrefixInv PROVE PrefixTypeOK
    OBVIOUS
  <2>1. status \in {"parsing", "returned", "threw"} /\ (stack = <<>> <=> status # "parsing")
    BY DEF PrefixInv, PrefixTypes
  <2>2. ASSUME status = "parsing"
        PROVE  PrefixTypeOK
    <3>1. PICK T : stack \in Seq(Records(T))
      BY DEF PrefixInv, PrefixTypes
    <3>2. stack # <<>> /\ Disciplined(stack) /\ OperatorTakenBack
      BY <2>2, Parsing
    <3>3. /\ Len(stack) \in Nat \ {0} /\ Last(stack) = stack[Len(stack)]
          /\ Len(Front(stack)) = Len(stack) - 1
          /\ \A i \in 1 .. Len(stack) - 1 : Front(stack)[i] = stack[i]
      BY <3>1, <3>2, Innermost
    <3>4. \A i \in 1 .. Len(stack) - 1 : Waits(stack[i])
      BY <3>2, <3>3 DEF Disciplined, AllWait
    <3>5. Runs(stack[Len(stack)])
      BY <3>2, <3>3 DEF Disciplined
    <3>6. ASSUME NEW i \in DOMAIN stack, i < Len(stack)
          PROVE  /\ stack[i].pc # "enter"
                 /\ stack[i].proc = "parseExpression" => Len(stack[i].exprs) = 0
      <4>1. i \in 1 .. Len(stack) - 1
        BY <3>1, <3>3, <3>6
      <4>. QED
        BY <3>4, <4>1 DEF Waits
    <3>7. ASSUME NEW i \in DOMAIN stack, ~ i < Len(stack), stack[i].proc = "parseExpression"
          PROVE  Len(stack[i].exprs) = IF stack[i].pc = "enter" THEN 0 ELSE 1
      <4>1. i = Len(stack)
        BY <3>1, <3>3, <3>7
      <4>. QED
        BY <3>5, <3>7, <4>1 DEF Runs
    <3>. QED
      BY <2>1, <3>2, <3>6, <3>7 DEF PrefixTypeOK, OperatorTakenBack
  <2>3. ASSUME status # "parsing"
        PROVE  PrefixTypeOK
    <3>1. stack = <<>> /\ DOMAIN stack = {}
      BY <2>1, <2>3
    <3>. QED
      BY <2>1, <2>3, <3>1 DEF PrefixTypeOK
  <2>. QED
    BY <2>2, <2>3
<1>. QED
  BY <1>1, PrefixInvHolds, PTL

(* In what parse accepts, every kind of bracket is closed as often as it   *)
(* is opened, whatever operators and tokens there are: the parenthesis     *)
(* that parseOpExpression looks at is consumed once, by its caller.        *)
BracketsBalance ==
  status = "returned" =>
    \A type \in Opening :
      Count(read, {Token(type)}) = Count(read, {Token(ClosingOf(type))})

THEOREM AcceptedBracketsBalance == Spec => []BracketsBalance
<1>1. PrefixInv => BracketsBalance
  <2>. SUFFICES ASSUME PrefixInv, status = "returned", NEW type \in Opening
                PROVE  Count(read, {Token(type)}) = Count(read, {Token(ClosingOf(type))})
    BY DEF BracketsBalance
  <2>1. stack = <<>> /\ ~ reverted /\ Balanced /\ read \in Seq(Tokens)
    BY DEF PrefixInv, PrefixTypes
  <2>2. \A c : Waiting(stack, c) = 0
    <3>. TAKE c
    <3>1. {i \in 1 .. Len(stack) : stack[i].pc = c} = {}
      BY <2>1
    <3>. QED
      BY <3>1, FS_EmptySet DEF Waiting
  <2>3. \A c : Consumed(c) = Count(read, {Token(c)}) /\ Count(read, {Token(c)}) \in Nat
    BY <2>1, CountType DEF Consumed
  <2>. QED
    BY <2>1, <2>2, <2>3 DEF Balanced
<1>. QED
  BY <1>1, PrefixInvHolds, PTL

----------------------------------------------------------------------------
(* The grammar that parse follows, without signed operands and division.   *)
TakenFrom(tokens, R, i, j) ==
  LET is(k, type) == k \in DOMAIN tokens /\ tokens[k].type = type
  IN  IF tokens[i].type \in Operand
      THEN IF i = j THEN {Leaf(tokens[i].type, i)} ELSE {}
      ELSE IF tokens[i].value \in PrefixOperator
      THEN IF is(j + 1, "RPAREN")
           THEN {Node(tokens[i].value, es) : es \in R[<<"terms", i + 1, j>>]}
           ELSE {}
      ELSE IF tokens[i].type \in Opening /\ is(j, ClosingOf(tokens[i].type))
      THEN R[<<"term", i + 1, j - 1>>]
      ELSE {}

(* The equation of the recursive function in Readings, and the same for    *)
(* the grammar that parse follows.                                         *)
Spans(tokens) == {"term", "terms"} \X (1 .. Len(tokens) + 1) \X (0 .. Len(tokens))

StepGrammar(tokens, R, p) ==
  IF p[2] > p[3] THEN {}
  ELSE IF p[1] = "terms" THEN TermsFrom(R, p[2], p[3])
  ELSE TermFrom(tokens, R, p[2], p[3])

StepReadings(tokens, R, p) ==
  IF p[2] > p[3] THEN {}
  ELSE IF p[1] = "terms" THEN TermsFrom(R, p[2], p[3])
  ELSE TakenFrom(tokens, R, p[2], p[3])

SolvesGrammar(tokens, R) == R = [p \in Spans(tokens) |-> StepGrammar(tokens, R, p)]

Solves(tokens, R) == R = [p \in Spans(tokens) |-> StepReadings(tokens, R, p)]

LEMMA ReadingsSolve ==
  ASSUME NEW tokens, \E R : SolvesGrammar(tokens, R)
  PROVE \E R : SolvesGrammar(tokens, R) /\ Readings(tokens) = R[<<"term", 1, Len(tokens)>>]
<1> DEFINE Chosen == CHOOSE R : SolvesGrammar(tokens, R)
<1>1. Readings(tokens) = Chosen[<<"term", 1, Len(tokens)>>]
  BY Zenon DEF Readings, SolvesGrammar, Spans, StepGrammar
<1>2. SolvesGrammar(tokens, Chosen)
  OBVIOUS
<1>. HIDE DEF Chosen
<1>. QED
  BY <1>1, <1>2

(* The tokens from i to j read as e. *)
Reads(tokens, R, x, i, j, e) ==
  <<x, i, j>> \in Spans(tokens) /\ e \in R[<<x, i, j>>]

LEMMA SpanOf ==
  ASSUME NEW tokens \in Seq(Tokens), NEW x, NEW i, NEW j
  PROVE  <<x, i, j>> \in Spans(tokens) <=>
           x \in {"term", "terms"} /\ i \in 1 .. Len(tokens) + 1 /\ j \in 0 .. Len(tokens)
BY DEF Spans

LEMMA SolvedAt ==
  ASSUME NEW tokens \in Seq(Tokens), NEW R, Solves(tokens, R), NEW x, NEW i, NEW j,
         <<x, i, j>> \in Spans(tokens)
  PROVE  R[<<x, i, j>>] = StepReadings(tokens, R, <<x, i, j>>)
<1>1. R = [p \in Spans(tokens) |-> StepReadings(tokens, R, p)]
  BY DEF Solves
<1>. QED
  BY <1>1

(* A token is an operand, a bracket or an operator. *)
LEMMA TokenKinds ==
  ASSUME NEW t \in Tokens
  PROVE  /\ t.value \in PrefixOperator => t.type = "OP"
         /\ t.type = "OP" <=> \E name \in Operators : t = OpToken(name)
         /\ t.type = "OP" => t = OpToken(t.value) /\ t.value \in Operators
<1>1. CASE \E name \in Operators : t = OpToken(name)
  <2>1. PICK name \in Operators : t = OpToken(name)
    BY <1>1
  <2>2. t.type = "OP" /\ t.value = name
    BY <2>1 DEF OpToken
  <2>. QED
    BY <2>1, <2>2
<1>2. ASSUME NEW type \in {"VAR", "CONST", "LPAREN", "RPAREN", "LSQRBRACK", "RSQRBRACK",
                           "INVALID", "END"}, t = Token(type)
      PROVE  t.value \notin PrefixOperator /\ t.type # "OP" /\ ~ \E name \in Operators : t = OpToken(name)
  BY <1>2 DEF Token, OpToken, PrefixOperator
<1>. QED
  BY <1>1, <1>2 DEF Tokens, InputTokens

LEMMA TermRule ==
  ASSUME NEW tokens \in Seq(Tokens), NEW R, Solves(tokens, R), NEW i, NEW j, NEW e
  PROVE  Reads(tokens, R, "term", i, j, e) <=>
           /\ i \in 1 .. Len(tokens) /\ j \in i .. Len(tokens)
           /\ \/ tokens[i].type \in Operand /\ i = j /\ e = Leaf(tokens[i].type, i)
              \/ /\ tokens[i].value \in PrefixOperator
                 /\ j + 1 \in 1 .. Len(tokens) /\ tokens[j + 1].type = "RPAREN"
                 /\ \E es : Reads(tokens, R, "terms", i + 1, j, es) /\ e = Node(tokens[i].value, es)
              \/ /\ tokens[i].type \in Opening /\ tokens[j].type = ClosingOf(tokens[i].type)
                 /\ Reads(tokens, R, "term", i + 1, j - 1, e)
<1>1. Len(tokens) \in Nat /\ DOMAIN tokens = 1 .. Len(tokens) /\ \A k \in 1 .. Len(tokens) : tokens[k] \in Tokens
  OBVIOUS
<1>2. CASE ~ (i \in 1 .. Len(tokens) + 1 /\ j \in 0 .. Len(tokens))
  BY <1>1, <1>2, SpanOf DEF Reads
<1>3. CASE i \in 1 .. Len(tokens) + 1 /\ j \in 0 .. Len(tokens) /\ i > j
  <2>1. <<"term", i, j>> \in Spans(tokens)
    BY <1>3, SpanOf
  <2>2. R[<<"term", i, j>>] = {}
    BY <1>3, <2>1, SolvedAt DEF StepReadings
  <2>. QED
    BY <1>1, <1>3, <2>2 DEF Reads
<1>4. CASE i \in 1 .. Len(tokens) /\ j \in i .. Len(tokens)
  <2>1. /\ <<"term", i, j>> \in Spans(tokens) /\ <<"terms", i + 1, j>> \in Spans(tokens)
        /\ <<"term", i + 1, j - 1>> \in Spans(tokens)
    BY <1>1, <1>4, SpanOf
  <2>2. R[<<"term", i, j>>] = TakenFrom(tokens, R, i, j)
    BY <1>1, <1>4, <2>1, SolvedAt DEF StepReadings
  <2>3. PICK t \in Tokens : t = tokens[i]
    BY <1>1, <1>4
  <2>4. /\ t.type \in Operand => t.value \notin PrefixOperator /\ t.type \notin Opening
        /\ t.value \in PrefixOperator => t.type \notin Opening
    BY TokenKinds DEF Operand, Opening
  <2>5. Reads(tokens, R, "term", i, j, e) <=> e \in TakenFrom(tokens, R, i, j)
    BY <2>1, <2>2 DEF Reads
  <2>6. \A es : Reads(tokens, R, "terms", i + 1, j, es) <=> es \in R[<<"terms", i + 1, j>>]
    BY <2>1 DEF Reads
  <2>7. Reads(tokens, R, "term", i + 1, j - 1, e) <=> e \in R[<<"term", i + 1, j - 1>>]
    BY <2>1 DEF Reads
  <2>8. CASE t.type \in Operand
    BY <1>1, <1>4, <2>3, <2>4, <2>5, <2>8 DEF TakenFrom
  <2>9. CASE t.value \in PrefixOperator
    <3>1. TakenFrom(tokens, R, i, j) = IF j + 1 \in 1 .. Len(tokens) /\ tokens[j + 1].type = "RPAREN"
              THEN {Node(tokens[i].value, es) : es \in R[<<"terms", i + 1, j>>]} ELSE {}
      BY <1>1, <2>3, <2>4, <2>9 DEF TakenFrom
    <3>. QED
      BY <1>4, <2>3, <2>4, <2>5, <2>6, <2>9, <3>1
  <2>10. CASE t.type \notin Operand /\ t.value \notin PrefixOperator
    <3>1. TakenFrom(tokens, R, i, j) = IF tokens[i].type \in Opening /\ tokens[j].type = ClosingOf(tokens[i].type)
              THEN R[<<"term", i + 1, j - 1>>] ELSE {}
      BY <1>1, <1>4, <2>3, <2>10 DEF TakenFrom
    <3>. QED
      BY <1>4, <2>3, <2>5, <2>7, <2>10, <3>1
  <2>. QED
    BY <2>8, <2>9, <2>10
<1>. QED
  BY <1>1, <1>2, <1>3, <1>4

LEMMA PrependedTerms ==
  ASSUME NEW A, NEW B, NEW x
  PROVE  x \in Prepended(A, B) <=> \E e \in A, rest \in B : x = Cons(e, rest)
BY DEF Prepended

LEMMA TermsRule ==
  ASSUME NEW tokens \in Seq(Tokens), NEW R, Solves(tokens, R), NEW i, NEW j, NEW es
  PROVE  Reads(tokens, R, "terms", i, j, es) <=>
           \/ \E e : Reads(tokens, R, "term", i, j, e) /\ es = <<e>>
           \/ \E k, e, rest : /\ k \in Int /\ i <= k /\ k < j
                              /\ Reads(tokens, R, "term", i, k, e)
                              /\ Reads(tokens, R, "terms", k + 1, j, rest)
                              /\ es = Cons(e, rest)
<1> DEFINE Single == \E e : Reads(tokens, R, "term", i, j, e) /\ es = <<e>>
           More == \E k, e, rest : /\ k \in Int /\ i <= k /\ k < j
                                  /\ Reads(tokens, R, "term", i, k, e)
                                  /\ Reads(tokens, R, "terms", k + 1, j, rest)
                                  /\ es = Cons(e, rest)
<1>1. Len(tokens) \in Nat
  OBVIOUS
<1>2. Single => i \in 1 .. Len(tokens) + 1 /\ j \in 0 .. Len(tokens)
  BY SpanOf DEF Reads
<1>3. More => i \in 1 .. Len(tokens) + 1 /\ j \in i .. Len(tokens)
  BY <1>1, SpanOf DEF Reads
<1>4. Reads(tokens, R, "terms", i, j, es) => i \in 1 .. Len(tokens) + 1 /\ j \in 0 .. Len(tokens)
  BY SpanOf DEF Reads
<1>5. ASSUME i \in 1 .. Len(tokens) + 1, j \in 0 .. Len(tokens), i > j
      PROVE  ~ Single /\ ~ Reads(tokens, R, "terms", i, j, es)
  <2>1. <<"terms", i, j>> \in Spans(tokens) /\ <<"term", i, j>> \in Spans(tokens)
    BY <1>5, SpanOf
  <2>2. R[<<"terms", i, j>>] = {} /\ R[<<"term", i, j>>] = {}
    BY <1>5, <2>1, SolvedAt DEF StepReadings
  <2>. QED
    BY <2>2 DEF Reads
<1>6. ASSUME i \in 1 .. Len(tokens) + 1, j \in i .. Len(tokens)
      PROVE  Reads(tokens, R, "terms", i, j, es) <=> Single \/ More
  <2>1. <<"terms", i, j>> \in Spans(tokens) /\ <<"term", i, j>> \in Spans(tokens)
    BY <1>1, <1>6, SpanOf
  <2>2. R[<<"terms", i, j>>] = TermsFrom(R, i, j)
    BY <1>1, <1>6, <2>1, SolvedAt DEF StepReadings
  <2>3. \A k \in i .. j - 1 : <<"term", i, k>> \in Spans(tokens) /\ <<"terms", k + 1, j>> \in Spans(tokens)
    BY <1>1, <1>6, SpanOf
  <2>4. Single <=> es \in {<<e>> : e \in R[<<"term", i, j>>]}
    BY <2>1 DEF Reads
  <2> DEFINE F == [k \in i .. j - 1 |-> Prepended(R[<<"term", i, k>>], R[<<"terms", k + 1, j>>])]
  <2>6. \A k \in i .. j - 1 : F[k] = Prepended(R[<<"term", i, k>>], R[<<"terms", k + 1, j>>])
    OBVIOUS
  <2>7. TermsFrom(R, i, j) = {<<e>> : e \in R[<<"term", i, j>>]} \cup UNION {F[k] : k \in i .. j - 1}
    BY DEF TermsFrom
  <2>. HIDE DEF F
  <2>8. ASSUME NEW k \in i .. j - 1
         PROVE  es \in F[k] <=> \E e \in R[<<"term", i, k>>], rest \in R[<<"terms", k + 1, j>>] :
                                   es = Cons(e, rest)
    <3>1. PICK A, B : A = R[<<"term", i, k>>] /\ B = R[<<"terms", k + 1, j>>]
      OBVIOUS
    <3>2. F[k] = Prepended(A, B)
      BY <2>6, <3>1
    <3>3. es \in Prepended(A, B) <=> \E e \in A, rest \in B : es = Cons(e, rest)
      BY PrependedTerms
    <3>. QED
      BY <3>1, <3>2, <3>3
  <2>9. ASSUME More
        PROVE  es \in UNION {F[k] : k \in i .. j - 1}
    <3>1. PICK k, e, rest : /\ k \in Int /\ i <= k /\ k < j
                            /\ Reads(tokens, R, "term", i, k, e)
                            /\ Reads(tokens, R, "terms", k + 1, j, rest)
                            /\ es = Cons(e, rest)
      BY <2>9
    <3>2. k \in i .. j - 1 /\ e \in R[<<"term", i, k>>] /\ rest \in R[<<"terms", k + 1, j>>]
      BY <1>1, <1>6, <3>1 DEF Reads
    <3>3. es \in F[k]
      BY <2>8, <3>1, <3>2
    <3>. QED
      BY <3>2, <3>3
  <2>10. ASSUME es \in UNION {F[k] : k \in i .. j - 1}
        PROVE  More
    <3>1. PICK k \in i .. j - 1 : es \in F[k]
      BY <2>10
    <3>2. PICK e \in R[<<"term", i, k>>], rest \in R[<<"terms", k + 1, j>>] : es = Cons(e, rest)
      BY <2>8, <3>1
    <3>3. k \in Int /\ i <= k /\ k < j
      BY <1>1, <1>6, <3>1
    <3>4. Reads(tokens, R, "term", i, k, e) /\ Reads(tokens, R, "terms", k + 1, j, rest)
      BY <2>3, <3>1, <3>2 DEF Reads
    <3>. QED
      BY <3>2, <3>3, <3>4
  <2>11. Reads(tokens, R, "terms", i, j, es) <=> es \in TermsFrom(R, i, j)
    BY <2>1, <2>2 DEF Reads
  <2>. HIDE DEF Single, More
  <2>. QED
    BY <2>4, <2>7, <2>9, <2>10, <2>11
<1>. HIDE DEF Single, More
<1>7. Reads(tokens, R, "terms", i, j, es) <=> Single \/ More
  BY <1>1, <1>2, <1>3, <1>4, <1>5, <1>6
<1>. QED
  BY <1>7 DEF Single, More

(* The recursion of Readings is well founded: a reading of a span depends  *)
(* on shorter spans, and that as terms on the same span as one term.       *)
Rank(p) == 2 * (p[3] - p[2]) + (IF p[1] = "term" THEN 0 ELSE 1)

LEMMA Ranks ==
  ASSUME NEW tokens \in Seq(Tokens), NEW p \in Spans(tokens)
  PROVE  /\ Rank(p) \in Int /\ Rank(p) <= 2 * Len(tokens)
         /\ p[1] \in {"term", "terms"} /\ p[2] \in 1 .. Len(tokens) + 1 /\ p[3] \in 0 .. Len(tokens)
         /\ p = <<p[1], p[2], p[3]>>
         /\ p[2] > p[3] => Rank(p) < 0
BY DEF Rank, Spans

LEMMA DependsOnLowerRank ==
  ASSUME NEW tokens \in Seq(Tokens), NEW p \in Spans(tokens), NEW R, NEW S,
         \A q \in Spans(tokens) : Rank(q) < Rank(p) => R[q] = S[q]
  PROVE  /\ StepReadings(tokens, R, p) = StepReadings(tokens, S, p)
         /\ StepGrammar(tokens, R, p) = StepGrammar(tokens, S, p)
<1>1. PICK i, j : i = p[2] /\ j = p[3]
  OBVIOUS
<1>2. /\ Len(tokens) \in Nat /\ DOMAIN tokens = 1 .. Len(tokens)
      /\ i \in 1 .. Len(tokens) + 1 /\ j \in 0 .. Len(tokens) /\ p[1] \in {"term", "terms"}
      /\ Rank(p) = 2 * (j - i) + (IF p[1] = "term" THEN 0 ELSE 1)
  BY <1>1, Ranks DEF Rank
<1>3. CASE i > j
  BY <1>1, <1>3 DEF StepReadings, StepGrammar
<1>4. CASE i <= j /\ p[1] = "term"
  <2>1. PICK q, r : q = <<"terms", i + 1, j>> /\ r = <<"term", i + 1, j - 1>>
    OBVIOUS
  <2>2. q \in Spans(tokens) /\ r \in Spans(tokens)
    BY <1>2, <1>4, <2>1, SpanOf
  <2>3. Rank(q) < Rank(p) /\ Rank(r) < Rank(p)
    BY <1>2, <1>4, <2>1 DEF Rank
  <2>4. R[q] = S[q] /\ R[r] = S[r]
    BY <2>2, <2>3
  <2>5. TakenFrom(tokens, R, i, j) = TakenFrom(tokens, S, i, j)
    BY <2>1, <2>4 DEF TakenFrom
  <2>6. UnsignedFrom(tokens, R, i, j) = UnsignedFrom(tokens, S, i, j)
    BY <2>1, <2>4 DEF UnsignedFrom
  <2>7. TermFrom(tokens, R, i, j) = TermFrom(tokens, S, i, j)
    BY <2>6 DEF TermFrom
  <2>. QED
    BY <1>1, <1>4, <2>5, <2>7 DEF StepReadings, StepGrammar
<1>5. CASE i <= j /\ p[1] = "terms"
  <2>1. R[<<"term", i, j>>] = S[<<"term", i, j>>]
    <3>1. PICK q : q = <<"term", i, j>>
      OBVIOUS
    <3>2. q \in Spans(tokens) /\ Rank(q) < Rank(p)
      BY <1>2, <1>5, <3>1, SpanOf DEF Rank
    <3>. QED
      BY <3>1, <3>2
  <2>2. ASSUME NEW k \in i .. j - 1
        PROVE  R[<<"term", i, k>>] = S[<<"term", i, k>>] /\ R[<<"terms", k + 1, j>>] = S[<<"terms", k + 1, j>>]
    <3>1. PICK q, r : q = <<"term", i, k>> /\ r = <<"terms", k + 1, j>>
      OBVIOUS
    <3>2. q \in Spans(tokens) /\ r \in Spans(tokens)
      BY <1>2, <1>5, <3>1, SpanOf
    <3>3. Rank(q) < Rank(p) /\ Rank(r) < Rank(p)
      BY <1>2, <1>5, <3>1 DEF Rank
    <3>. QED
      BY <3>1, <3>2, <3>3
  <2>3. TermsFrom(R, i, j) = TermsFrom(S, i, j)
    <3> DEFINE F(X) == [k \in i .. j - 1 |-> Prepended(X[<<"term", i, k>>], X[<<"terms", k + 1, j>>])]
    <3>1. F(R) = F(S)
      BY <2>2
    <3>2. TermsFrom(R, i, j) = {<<e>> : e \in R[<<"term", i, j>>]} \cup UNION {F(R)[k] : k \in i .. j - 1}
      BY DEF TermsFrom
    <3>3. TermsFrom(S, i, j) = {<<e>> : e \in S[<<"term", i, j>>]} \cup UNION {F(S)[k] : k \in i .. j - 1}
      BY DEF TermsFrom
    <3>. HIDE DEF F
    <3>. QED
      BY <2>1, <3>1, <3>2, <3>3
  <2>. QED
    BY <1>1, <1>5, <2>3 DEF StepReadings, StepGrammar
<1>. QED
  BY <1>2, <1>3, <1>4, <1>5

StepEither(tokens, asWritten, R, p) ==
  IF asWritten THEN StepGrammar(tokens, R, p) ELSE StepReadings(tokens, R, p)

SolvesBelow(tokens, asWritten, R, n) ==
  /\ R = [p \in Spans(tokens) |-> R[p]]
  /\ \A p \in Spans(tokens) : Rank(p) < n => R[p] = StepEither(tokens, asWritten, R, p)

LEMMA EitherExists ==
  ASSUME NEW tokens \in Seq(Tokens), NEW asWritten \in BOOLEAN
  PROVE  \E R : R = [p \in Spans(tokens) |-> StepEither(tokens, asWritten, R, p)]
<1>1. PICK D : D = {n \in Nat : \E R : SolvesBelow(tokens, asWritten, R, n)}
  OBVIOUS
<1>2. 0 \in D
  <2>1. PICK R : R = [p \in Spans(tokens) |-> {}]
    OBVIOUS
  <2>2. \A p \in Spans(tokens) : Rank(p) < 0 => StepEither(tokens, asWritten, R, p) = {}
    <3>. SUFFICES ASSUME NEW p \in Spans(tokens), Rank(p) < 0
                  PROVE  p[2] > p[3]
      BY DEF StepEither, StepGrammar, StepReadings
    <3>. QED
      BY Ranks DEF Rank
  <2>3. SolvesBelow(tokens, asWritten, R, 0)
    BY <2>1, <2>2 DEF SolvesBelow
  <2>. QED
    BY <1>1, <2>3
<1>3. ASSUME NEW n \in Nat, n \in D
      PROVE  n + 1 \in D
  <2>1. PICK R : SolvesBelow(tokens, asWritten, R, n)
    BY <1>1, <1>3
  <2>2. PICK S : S = [p \in Spans(tokens) |-> IF Rank(p) < n THEN R[p] ELSE StepEither(tokens, asWritten, R, p)]
    OBVIOUS
  <2>3. ASSUME NEW p \in Spans(tokens), Rank(p) < n + 1
        PROVE  S[p] = StepEither(tokens, asWritten, S, p)
    <3>1. Rank(p) \in Int
      BY Ranks
    <3>2. \A q \in Spans(tokens) : Rank(q) < Rank(p) => R[q] = S[q]
      BY <2>2, <2>3, <3>1, Ranks
    <3>3. StepEither(tokens, asWritten, R, p) = StepEither(tokens, asWritten, S, p)
      BY <3>2, DependsOnLowerRank DEF StepEither
    <3>4. S[p] = StepEither(tokens, asWritten, R, p)
      BY <2>1, <2>2, <3>1 DEF SolvesBelow
    <3>. QED
      BY <3>3, <3>4
  <2>4. SolvesBelow(tokens, asWritten, S, n + 1)
    BY <2>2, <2>3 DEF SolvesBelow
  <2>. QED
    BY <1>1, <2>4
<1>4. Nat \subseteq D
  BY <1>2, <1>3, NaturalInduction
<1>5. PICK n \in Nat : n = 2 * Len(tokens) + 1
  OBVIOUS
<1>6. PICK R : SolvesBelow(tokens, asWritten, R, n)
  BY <1>1, <1>4, <1>5
<1>7. \A p \in Spans(tokens) : R[p] = StepEither(tokens, asWritten, R, p)
  BY <1>5, <1>6, Ranks DEF SolvesBelow
<1>. QED
  BY <1>6, <1>7 DEF SolvesBelow

LEMMA ReadingsExist ==
  ASSUME NEW tokens \in Seq(Tokens)
  PROVE  /\ \E R : Solves(tokens, R)
         /\ \E R : SolvesGrammar(tokens, R)
<1>1. PICK R : R = [p \in Spans(tokens) |-> StepEither(tokens, FALSE, R, p)]
  BY EitherExists
<1>2. Solves(tokens, R)
  BY <1>1, Zenon DEF Solves, StepEither
<1>3. PICK S : S = [p \in Spans(tokens) |-> StepEither(tokens, TRUE, S, p)]
  BY EitherExists
<1>4. SolvesGrammar(tokens, S)
  BY <1>3, Zenon DEF SolvesGrammar, StepEither
<1>. QED
  BY <1>2, <1>4

(* Where a reading begins and ends, and the token it begins with. *)
LEMMA ReadingSpan ==
  ASSUME NEW tokens \in Seq(Tokens), NEW R, Solves(tokens, R), NEW x, NEW i, NEW j, NEW e,
         Reads(tokens, R, x, i, j, e)
  PROVE  /\ x \in {"term", "terms"} /\ Len(tokens) \in Nat
         /\ i \in 1 .. Len(tokens) /\ j \in i .. Len(tokens)
<1>1. /\ x \in {"term", "terms"} /\ i \in 1 .. Len(tokens) + 1 /\ j \in 0 .. Len(tokens)
      /\ <<x, i, j>> \in Spans(tokens) /\ R[<<x, i, j>>] # {}
  BY SpanOf DEF Reads
<1>2. ~ (i > j)
  BY <1>1, SolvedAt DEF StepReadings
<1>. QED
  BY <1>1, <1>2

(* What a term is depends on its first token. *)
OfItsKind(tokens, R, i, j, e) ==
  /\ tokens[i].type \in Operand \/ tokens[i].value \in PrefixOperator \/ tokens[i].type \in Opening
  /\ tokens[i].type \in Operand => i = j /\ e = Leaf(tokens[i].type, i)
  /\ tokens[i].value \in PrefixOperator =>
       /\ j + 1 \in 1 .. Len(tokens) /\ tokens[j + 1].type = "RPAREN"
       /\ \E es : Reads(tokens, R, "terms", i + 1, j, es) /\ e = Node(tokens[i].value, es)
  /\ tokens[i].type \in Opening =>
       tokens[j].type = ClosingOf(tokens[i].type) /\ Reads(tokens, R, "term", i + 1, j - 1, e)

LEMMA TermByKind ==
  ASSUME NEW tokens \in Seq(Tokens), NEW R, Solves(tokens, R), NEW i, NEW j, NEW e,
         Reads(tokens, R, "term", i, j, e)
  PROVE  OfItsKind(tokens, R, i, j, e)
<1>1. i \in 1 .. Len(tokens)
  BY ReadingSpan
<1>2. tokens[i] \in Tokens
  BY <1>1
<1>3. /\ tokens[i].type \in Operand => tokens[i].value \notin PrefixOperator /\ tokens[i].type \notin Opening
      /\ tokens[i].value \in PrefixOperator => tokens[i].type \notin Opening
  BY <1>2, TokenKinds DEF Operand, Opening
<1>4. \/ tokens[i].type \in Operand /\ i = j /\ e = Leaf(tokens[i].type, i)
      \/ /\ tokens[i].value \in PrefixOperator
         /\ j + 1 \in 1 .. Len(tokens) /\ tokens[j + 1].type = "RPAREN"
         /\ \E es : Reads(tokens, R, "terms", i + 1, j, es) /\ e = Node(tokens[i].value, es)
      \/ /\ tokens[i].type \in Opening /\ tokens[j].type = ClosingOf(tokens[i].type)
         /\ Reads(tokens, R, "term", i + 1, j - 1, e)
  BY TermRule
<1>. QED
  BY <1>2, <1>3, <1>4 DEF OfItsKind

LEMMA FirstToken ==
  ASSUME NEW tokens \in Seq(Tokens), NEW R, Solves(tokens, R), NEW i, NEW j, NEW e,
         Reads(tokens, R, "term", i, j, e)
  PROVE  tokens[i].type \in Operand \cup Opening \cup {"OP"}
<1>1. i \in 1 .. Len(tokens) /\ tokens[i] \in Tokens
  BY ReadingSpan
<1>. QED
  BY <1>1, TermRule, TokenKinds

LEMMA TermsAreSequences ==
  ASSUME NEW tokens \in Seq(Tokens), NEW R, Solves(tokens, R)
  PROVE  \A i, j, es : Reads(tokens, R, "terms", i, j, es) => \E T : es \in Seq(T)
<1>1. PICK D : D = {n \in Nat : \A i, j, es : Reads(tokens, R, "terms", i, j, es) /\ j - i < n
                                             => \E T : es \in Seq(T)}
  OBVIOUS
<1>2. 0 \in D
  BY <1>1, ReadingSpan
<1>3. ASSUME NEW n \in Nat, n \in D
      PROVE  n + 1 \in D
  <2> SUFFICES ASSUME NEW i, NEW j, NEW es, Reads(tokens, R, "terms", i, j, es), j - i < n + 1
               PROVE  \E T : es \in Seq(T)
    BY <1>1
  <2>1. CASE \E e : Reads(tokens, R, "term", i, j, e) /\ es = <<e>>
    <3>1. PICK e : es = <<e>>
      BY <2>1
    <3>2. es \in Seq({e})
      BY <3>1
    <3>. QED
      BY <3>2
  <2>2. ASSUME NEW k \in Int, NEW e, NEW rest, i <= k, k < j,
               Reads(tokens, R, "terms", k + 1, j, rest), es = Cons(e, rest)
        PROVE  \E T : es \in Seq(T)
    <3>1. i \in Int /\ j \in Int
      BY ReadingSpan
    <3>2. PICK T : rest \in Seq(T)
      BY <1>1, <1>3, <2>2, <3>1
    <3>3. rest \in Seq(T \cup {e}) /\ <<e>> \in Seq(T \cup {e})
      BY <3>2
    <3>4. es \in Seq(T \cup {e})
      BY <2>2, <3>3 DEF Cons
    <3>. QED
      BY <3>4
  <2>. QED
    BY <2>1, <2>2, TermsRule
<1>4. Nat \subseteq D
  BY <1>2, <1>3, NaturalInduction
<1> SUFFICES ASSUME NEW i, NEW j, NEW es, Reads(tokens, R, "terms", i, j, es)
             PROVE  \E T : es \in Seq(T)
  OBVIOUS
<1>5. PICK n \in Nat : j - i < n
  <2>1. i \in Int /\ j \in Int /\ i <= j
    BY ReadingSpan
  <2>2. j - i + 1 \in Nat /\ j - i < j - i + 1
    BY <2>1
  <2>. QED
    BY <2>2
<1>. QED
  BY <1>1, <1>4, <1>5

(* A term more behind some terms. *)
LEMMA AppendedTerm ==
  ASSUME NEW tokens \in Seq(Tokens), NEW R, Solves(tokens, R)
  PROVE  \A i, k, j, es, e : Reads(tokens, R, "terms", i, k, es) /\ Reads(tokens, R, "term", k + 1, j, e)
                              => Reads(tokens, R, "terms", i, j, Append(es, e))
<1>1. PICK D : D = {n \in Nat :
                     \A i, k, j, es, e : /\ Reads(tokens, R, "terms", i, k, es) /\ k - i < n
                                         /\ Reads(tokens, R, "term", k + 1, j, e)
                                         => Reads(tokens, R, "terms", i, j, Append(es, e))}
  OBVIOUS
<1>2. 0 \in D
  BY <1>1, ReadingSpan
<1>3. ASSUME NEW n \in Nat, n \in D
      PROVE  n + 1 \in D
  <2> SUFFICES ASSUME NEW i, NEW k, NEW j, NEW es, NEW e,
                      Reads(tokens, R, "terms", i, k, es), k - i < n + 1,
                      Reads(tokens, R, "term", k + 1, j, e)
               PROVE  Reads(tokens, R, "terms", i, j, Append(es, e))
    BY <1>1
  <2>1. i \in Int /\ k \in Int /\ j \in Int /\ i <= k /\ k < j
    BY ReadingSpan
  <2>2. ASSUME NEW f, Reads(tokens, R, "term", i, k, f), es = <<f>>
        PROVE  Reads(tokens, R, "terms", i, j, Append(es, e))
    <3>1. Reads(tokens, R, "terms", k + 1, j, <<e>>)
      BY TermsRule
    <3>2. Reads(tokens, R, "terms", i, j, Cons(f, <<e>>))
      BY <2>1, <2>2, <3>1, TermsRule
    <3>3. Cons(f, <<e>>) = Append(es, e)
      BY <2>2 DEF Cons
    <3>. QED
      BY <3>2, <3>3
  <2>3. ASSUME NEW m \in Int, NEW f, NEW rest, i <= m, m < k, Reads(tokens, R, "term", i, m, f),
               Reads(tokens, R, "terms", m + 1, k, rest), es = Cons(f, rest)
        PROVE  Reads(tokens, R, "terms", i, j, Append(es, e))
    <3>1. k - (m + 1) < n /\ m < j
      BY <2>1, <2>3
    <3>2. Reads(tokens, R, "terms", m + 1, j, Append(rest, e))
      BY <1>1, <1>3, <2>3, <3>1
    <3>3. Reads(tokens, R, "terms", i, j, Cons(f, Append(rest, e)))
      BY <2>1, <2>3, <3>1, <3>2, TermsRule
    <3>4. Cons(f, Append(rest, e)) = Append(es, e)
      <4>1. PICK T : rest \in Seq(T)
        BY <2>3, TermsAreSequences
      <4>2. PICK S : S = T \cup {e, f}
        OBVIOUS
      <4>3. rest \in Seq(S) /\ e \in S /\ f \in S
        BY <4>1, <4>2
      <4>4. <<f>> \o Append(rest, e) = Append(<<f>> \o rest, e)
        BY <4>3
      <4>. QED
        BY <2>3, <4>4 DEF Cons
    <3>. QED
      BY <3>3, <3>4
  <2>. QED
    BY <2>2, <2>3, TermsRule
<1>4. Nat \subseteq D
  BY <1>2, <1>3, NaturalInduction
<1> SUFFICES ASSUME NEW i, NEW k, NEW j, NEW es, NEW e,
                    Reads(tokens, R, "terms", i, k, es), Reads(tokens, R, "term", k + 1, j, e)
             PROVE  Reads(tokens, R, "terms", i, j, Append(es, e))
  OBVIOUS
<1>5. PICK n \in Nat : k - i < n
  <2>1. i \in Int /\ k \in Int /\ i <= k
    BY ReadingSpan
  <2>2. k - i + 1 \in Nat /\ k - i < k - i + 1
    BY <2>1
  <2>. QED
    BY <2>2
<1>. QED
  BY <1>1, <1>4, <1>5

(* The grammar is not ambiguous: a term ends where it ends, and of two     *)
(* sequences of terms the shorter one is followed by a term of the other.  *)
BeginsTerm(tokens, R, i) == \E j, e : Reads(tokens, R, "term", i, j, e)

OneTerm(tokens, R, n) ==
  \A i, j, k, e, f : /\ Reads(tokens, R, "term", i, j, e) /\ j - i < n
                     /\ Reads(tokens, R, "term", i, k, f)
                     => j = k /\ e = f

SameTerms(tokens, R, n) ==
  \A i, j, k, es, fs : /\ Reads(tokens, R, "terms", i, j, es) /\ j - i < n
                       /\ Reads(tokens, R, "terms", i, k, fs)
                       => \/ j = k /\ es = fs
                          \/ j < k /\ BeginsTerm(tokens, R, j + 1)
                          \/ k < j /\ BeginsTerm(tokens, R, k + 1)

LEMMA NoTermAtBracket ==
  ASSUME NEW tokens \in Seq(Tokens), NEW R, Solves(tokens, R), NEW i, tokens[i].type = "RPAREN"
  PROVE  ~ BeginsTerm(tokens, R, i)
BY FirstToken DEF BeginsTerm, Operand, Opening

LEMMA OneTermStep ==
  ASSUME NEW tokens \in Seq(Tokens), NEW R, Solves(tokens, R), NEW n \in Nat,
         OneTerm(tokens, R, n), SameTerms(tokens, R, n)
  PROVE  OneTerm(tokens, R, n + 1)
<1> SUFFICES ASSUME NEW i, NEW j, NEW k, NEW e, NEW f,
                    Reads(tokens, R, "term", i, j, e), j - i < n + 1, Reads(tokens, R, "term", i, k, f)
             PROVE  j = k /\ e = f
  BY DEF OneTerm
<1>1. i \in 1 .. Len(tokens) /\ j \in Int /\ k \in Int /\ i <= j /\ i <= k /\ tokens[i] \in Tokens
  BY ReadingSpan
<1>2. OfItsKind(tokens, R, i, j, e) /\ OfItsKind(tokens, R, i, k, f)
  BY TermByKind
<1>3. tokens[i].type \in Operand \/ tokens[i].value \in PrefixOperator \/ tokens[i].type \in Opening
  BY <1>2 DEF OfItsKind
<1>4. CASE tokens[i].type \in Operand
  BY <1>2, <1>4 DEF OfItsKind
<1>5. CASE tokens[i].value \in PrefixOperator
  <2>1. PICK es : /\ Reads(tokens, R, "terms", i + 1, j, es) /\ e = Node(tokens[i].value, es)
                  /\ tokens[j + 1].type = "RPAREN"
    BY <1>2, <1>5 DEF OfItsKind
  <2>2. PICK fs : /\ Reads(tokens, R, "terms", i + 1, k, fs) /\ f = Node(tokens[i].value, fs)
                  /\ tokens[k + 1].type = "RPAREN"
    BY <1>2, <1>5 DEF OfItsKind
  <2>3. j - (i + 1) < n
    BY <1>1
  <2>4. j = k /\ es = fs
    BY <2>1, <2>2, <2>3, NoTermAtBracket DEF SameTerms
  <2>. QED
    BY <2>1, <2>2, <2>4
<1>6. CASE tokens[i].type \in Opening
  <2>1. /\ Reads(tokens, R, "term", i + 1, j - 1, e)
        /\ Reads(tokens, R, "term", i + 1, k - 1, f)
    BY <1>2, <1>6 DEF OfItsKind
  <2>2. (j - 1) - (i + 1) < n
    BY <1>1
  <2>3. j - 1 = k - 1 /\ e = f
    BY <2>1, <2>2 DEF OneTerm
  <2>. QED
    BY <1>1, <2>3
<1>. QED
  BY <1>3, <1>4, <1>5, <1>6

LEMMA SameTermsStep ==
  ASSUME NEW tokens \in Seq(Tokens), NEW R, Solves(tokens, R), NEW n \in Nat,
         OneTerm(tokens, R, n + 1), SameTerms(tokens, R, n)
  PROVE  SameTerms(tokens, R, n + 1)
<1> SUFFICES ASSUME NEW i, NEW j, NEW k, NEW es, NEW fs,
                    Reads(tokens, R, "terms", i, j, es), j - i < n + 1, Reads(tokens, R, "terms", i, k, fs)
             PROVE  \/ j = k /\ es = fs
                    \/ j < k /\ BeginsTerm(tokens, R, j + 1)
                    \/ k < j /\ BeginsTerm(tokens, R, k + 1)
  BY DEF SameTerms
<1>1. i \in Int /\ j \in Int /\ k \in Int /\ i <= j /\ i <= k
  BY ReadingSpan
<1>2. \A l, gs : Reads(tokens, R, "terms", l, k, gs) \/ Reads(tokens, R, "terms", l, j, gs) =>
                 BeginsTerm(tokens, R, l)
  BY TermsRule DEF BeginsTerm
<1>3. ASSUME NEW e, Reads(tokens, R, "term", i, j, e), es = <<e>>,
             NEW f, Reads(tokens, R, "term", i, k, f), fs = <<f>>
      PROVE  j = k /\ es = fs
  BY <1>3 DEF OneTerm
<1>4. ASSUME NEW e, Reads(tokens, R, "term", i, j, e),
             NEW l \in Int, NEW f, NEW gs, l < k,
             Reads(tokens, R, "term", i, l, f), Reads(tokens, R, "terms", l + 1, k, gs)
      PROVE  j < k /\ BeginsTerm(tokens, R, j + 1)
  <2>1. j = l
    BY <1>4 DEF OneTerm
  <2>. QED
    BY <1>2, <1>4, <2>1
<1>5. ASSUME NEW l \in Int, NEW e, NEW gs, i <= l, l < j,
             Reads(tokens, R, "term", i, l, e), Reads(tokens, R, "terms", l + 1, j, gs),
             NEW f, Reads(tokens, R, "term", i, k, f)
      PROVE  k < j /\ BeginsTerm(tokens, R, k + 1)
  <2>1. l - i < n + 1
    BY <1>1, <1>5
  <2>2. k = l
    BY <1>5, <2>1 DEF OneTerm
  <2>. QED
    BY <1>2, <1>5, <2>2
<1>6. ASSUME NEW l \in Int, NEW e, NEW gs, i <= l, l < j, es = Cons(e, gs),
             Reads(tokens, R, "term", i, l, e), Reads(tokens, R, "terms", l + 1, j, gs),
             NEW m \in Int, NEW f, NEW hs, fs = Cons(f, hs),
             Reads(tokens, R, "term", i, m, f), Reads(tokens, R, "terms", m + 1, k, hs)
      PROVE  \/ j = k /\ es = fs
             \/ j < k /\ BeginsTerm(tokens, R, j + 1)
             \/ k < j /\ BeginsTerm(tokens, R, k + 1)
  <2>1. l - i < n + 1 /\ j - (l + 1) < n
    BY <1>1, <1>6
  <2>2. l = m /\ e = f
    BY <1>6, <2>1 DEF OneTerm
  <2>3. \/ j = k /\ gs = hs
        \/ j < k /\ BeginsTerm(tokens, R, j + 1)
        \/ k < j /\ BeginsTerm(tokens, R, k + 1)
    BY <1>6, <2>1, <2>2 DEF SameTerms
  <2>. QED
    BY <1>6, <2>2, <2>3
<1>7. CASE \E e : Reads(tokens, R, "term", i, j, e) /\ es = <<e>>
  BY <1>3, <1>4, <1>7, TermsRule
<1>8. ASSUME NEW l \in Int, NEW e, NEW gs, i <= l, l < j, es = Cons(e, gs),
             Reads(tokens, R, "term", i, l, e), Reads(tokens, R, "terms", l + 1, j, gs)
      PROVE  \/ j = k /\ es = fs
             \/ j < k /\ BeginsTerm(tokens, R, j + 1)
             \/ k < j /\ BeginsTerm(tokens, R, k + 1)
  BY <1>5, <1>6, <1>8, TermsRule
<1>. QED
  BY <1>7, <1>8, TermsRule

LEMMA Unambiguous ==
  ASSUME NEW tokens \in Seq(Tokens), NEW R, Solves(tokens, R)
  PROVE  \A n \in Nat : OneTerm(tokens, R, n) /\ SameTerms(tokens, R, n)
<1>1. PICK D : D = {n \in Nat : OneTerm(tokens, R, n) /\ SameTerms(tokens, R, n)}
  OBVIOUS
<1>2. 0 \in D
  BY <1>1, ReadingSpan DEF OneTerm, SameTerms
<1>3. \A n \in Nat : n \in D => n + 1 \in D
  BY <1>1, OneTermStep, SameTermsStep
<1>. QED
  BY <1>1, <1>2, <1>3, NaturalInduction

----------------------------------------------------------------------------
(* The tokens that the activations have consumed, as terms of the grammar. *)

(* The tokens that have been read, and some that may follow. *)
Extends(T) ==
  T \in Seq(Tokens) /\ Len(read) <= Len(T) /\ \A i \in 1 .. Len(read) : T[i] = read[i]

(* How many tokens are consumed. *)
Done == Len(read) - (IF reverted THEN 1 ELSE 0)

(* A token that is taken back is the last one read. *)
TakenBack ==
  reverted => Len(read) > 0 /\ previous = read[Len(read)] /\ previous.type # "END"

Viable(T, R) == \E e : Reads(T, R, "term", 1, Len(T), e)

(* An activation has consumed the tokens from a up to b, with what it has  *)
(* called; where all tokens are a term, one begins at a.                   *)
Covers(T, R, fr, a, b) ==
  /\ Viable(T, R) => BeginsTerm(T, R, a)
  /\ fr.pc = "enter" => b = a /\ fr.exprs = <<>>
  /\ fr.pc \in Closing =>
       /\ T[a].type \in Opening /\ ClosingOf(T[a].type) = fr.pc
       /\ \/ fr.exprs = <<>> /\ b = a + 1
          \/ \E e : fr.exprs = <<e>> /\ Reads(T, R, "term", a + 1, b - 1, e)
  /\ fr.pc = "loop" =>
       /\ T[a] = OpToken(fr.op)
       /\ \/ fr.exprs = <<>> /\ b = a + 1
          \/ Reads(T, R, "terms", a + 1, b - 1, fr.exprs)

Start == Nat \ {0}

Chained(T, R, s, b) ==
  \E st \in [1 .. Len(s) + 1 -> Start] :
    /\ st[1] = 1 /\ st[Len(s) + 1] = b
    /\ \A k \in 1 .. Len(s) : Covers(T, R, s[k], st[k], st[k + 1])

Progress(T, R) ==
  /\ status = "parsing" => Chained(T, R, stack, Done + 1)
  /\ status = "returned" => Reads(T, R, "term", 1, Len(read), result)
  /\ status = "threw" /\ (input = "end" => T = read) => ~ Viable(T, R)

ReadInv ==
  /\ PrefixInv
  /\ status = "parsing" => TakenBack
  /\ \A T, R : Extends(T) /\ Solves(T, R) => Progress(T, R)

----------------------------------------------------------------------------
LEMMA ChainedEmpty ==
  ASSUME NEW T, NEW R, NEW b
  PROVE  Chained(T, R, <<>>, b) <=> b = 1
<1>1. Chained(T, R, <<>>, b) => b = 1
  BY DEF Chained
<1>2. ASSUME b = 1
      PROVE  Chained(T, R, <<>>, b)
  <2>1. PICK st : st = [k \in 1 .. 1 |-> 1]
    OBVIOUS
  <2>2. st \in [1 .. 0 + 1 -> Start] /\ st[1] = 1
    BY <2>1 DEF Start
  <2>. QED
    BY <1>2, <2>2 DEF Chained
<1>. QED
  BY <1>1, <1>2

LEMMA ChainedAppend ==
  ASSUME NEW S, NEW s \in Seq(S), NEW fr \in S, NEW T, NEW R, NEW b
  PROVE  Chained(T, R, Append(s, fr), b) <=>
           b \in Start /\ \E a \in Start : Chained(T, R, s, a) /\ Covers(T, R, fr, a, b)
<1>1. PICK n, s2 : n = Len(s) /\ s2 = Append(s, fr)
  OBVIOUS
<1>2. n \in Nat /\ Len(s2) = n + 1 /\ s2[n + 1] = fr /\ \A k \in 1 .. n : s2[k] = s[k]
  BY <1>1
<1>3. ASSUME Chained(T, R, s2, b)
      PROVE  b \in Start /\ \E a \in Start : Chained(T, R, s, a) /\ Covers(T, R, fr, a, b)
  <2>1. PICK st \in [1 .. n + 2 -> Start] :
          /\ st[1] = 1 /\ st[n + 2] = b
          /\ \A k \in 1 .. n + 1 : Covers(T, R, s2[k], st[k], st[k + 1])
    BY <1>2, <1>3 DEF Chained
  <2>2. PICK su : su = [k \in 1 .. n + 1 |-> st[k]]
    OBVIOUS
  <2>3. su \in [1 .. n + 1 -> Start] /\ su[1] = 1 /\ su[n + 1] = st[n + 1]
    BY <1>2, <2>1, <2>2
  <2>4. \A k \in 1 .. n : Covers(T, R, s[k], su[k], su[k + 1])
    <3>. TAKE k \in 1 .. n
    <3>1. k \in 1 .. n + 1 /\ k + 1 \in 1 .. n + 1
      BY <1>2
    <3>2. Covers(T, R, s2[k], st[k], st[k + 1])
      BY <2>1, <3>1
    <3>. QED
      BY <1>2, <2>2, <3>1, <3>2
  <2>5. Chained(T, R, s, st[n + 1])
    BY <1>1, <2>3, <2>4 DEF Chained
  <2>6. n + 1 \in 1 .. n + 1 /\ (n + 1) + 1 = n + 2 /\ n + 1 \in 1 .. n + 2 /\ n + 2 \in 1 .. n + 2
    BY <1>2
  <2>7. Covers(T, R, fr, st[n + 1], b)
    BY <1>2, <2>1, <2>6
  <2>. QED
    BY <2>1, <2>5, <2>6, <2>7
<1>4. ASSUME b \in Start, NEW a \in Start, Chained(T, R, s, a), Covers(T, R, fr, a, b)
      PROVE  Chained(T, R, s2, b)
  <2>1. PICK st \in [1 .. n + 1 -> Start] :
          /\ st[1] = 1 /\ st[n + 1] = a
          /\ \A k \in 1 .. n : Covers(T, R, s[k], st[k], st[k + 1])
    BY <1>1, <1>4 DEF Chained
  <2>2. PICK su : su = [k \in 1 .. n + 2 |-> IF k = n + 2 THEN b ELSE st[k]]
    OBVIOUS
  <2>3. su \in [1 .. n + 2 -> Start] /\ su[1] = 1 /\ su[n + 2] = b /\ su[n + 1] = a
    BY <1>2, <1>4, <2>1, <2>2
  <2>4. \A k \in 1 .. n + 1 : Covers(T, R, s2[k], su[k], su[k + 1])
    <3>. TAKE k \in 1 .. n + 1
    <3>1. CASE k = n + 1
      <4>1. s2[k] = fr /\ su[k] = a /\ su[k + 1] = b
        BY <1>2, <2>3, <3>1
      <4>. QED
        BY <1>4, <4>1
    <3>2. CASE k # n + 1
      <4>1. k \in 1 .. n /\ k # n + 2 /\ k + 1 # n + 2 /\ k \in 1 .. n + 2 /\ k + 1 \in 1 .. n + 2
        BY <1>2, <3>2
      <4>2. Covers(T, R, s[k], st[k], st[k + 1])
        BY <2>1, <4>1
      <4>3. s2[k] = s[k] /\ su[k] = st[k] /\ su[k + 1] = st[k + 1]
        BY <1>2, <2>2, <4>1
      <4>. QED
        BY <4>2, <4>3
    <3>. QED
      BY <3>1, <3>2
  <2>5. Len(s2) + 1 = n + 2 /\ Len(s2) = n + 1
    BY <1>2
  <2>. QED
    BY <2>3, <2>4, <2>5 DEF Chained
<1>. QED
  BY <1>1, <1>3, <1>4

LEMMA NotEnd ==
  ASSUME NEW u \in InputTokens
  PROVE  u.type # "END"
<1>1. CASE \E name \in Operators : u = OpToken(name)
  BY <1>1 DEF OpToken
<1>2. ASSUME NEW type \in {"VAR", "CONST", "LPAREN", "RPAREN", "LSQRBRACK", "RSQRBRACK", "INVALID"},
             u = Token(type)
      PROVE  u.type # "END"
  BY <1>2 DEF Token
<1>. QED
  BY <1>1, <1>2 DEF InputTokens

(* The lexer: what is read stays, and the next token is t. *)
LEMMA NextToken ==
  ASSUME PrefixTypes, TakenBack, NEW t \in Tokens, NEW back \in BOOLEAN, Lex(t, back)
  PROVE  /\ Done \in Nat /\ Len(read) \in Nat /\ Len(read') \in Nat
         /\ \A T : Extends(T)' => Extends(T)
         /\ t.type # "END" =>
              /\ TakenBack' /\ Done' = Done + (IF back THEN 0 ELSE 1)
              /\ \A T : Extends(T)' => Done + 1 \in 1 .. Len(T) /\ T[Done + 1] = t
              /\ Len(read') = Done + 1
         /\ t.type = "END" => input' = "end" /\ read' = read /\ Done = Len(read)
<1>1. read \in Seq(Tokens) /\ Len(read) \in Nat /\ reverted \in BOOLEAN /\ input \in {"(", "input", "end"}
  BY DEF PrefixTypes
<1>2. CASE reverted
  <2>1. /\ t = previous /\ input' = input /\ previous' = previous /\ read' = read /\ reverted' = back
        /\ Len(read) > 0 /\ previous = read[Len(read)] /\ previous.type # "END"
    BY <1>2 DEF Lex, TakenBack
  <2>2. Done = Len(read) - 1 /\ Done' = Len(read) - (IF back THEN 1 ELSE 0)
    BY <1>2, <2>1 DEF Done
  <2>3. \A T : Extends(T)' => Extends(T)
    BY <2>1 DEF Extends
  <2>4. TakenBack'
    BY <2>1 DEF TakenBack
  <2>5. \A T : Extends(T)' => Done + 1 \in 1 .. Len(T) /\ T[Done + 1] = t
    BY <1>1, <2>1, <2>2 DEF Extends
  <2>. QED
    BY <1>1, <2>1, <2>2, <2>3, <2>4, <2>5
<1>3. CASE ~ reverted
  <2>1. /\ reverted' = back /\ previous' = t
        /\ read' = IF t.type = "END" THEN read ELSE Append(read, t)
        /\ \E after : <<t, after>> \in Following /\ input' = after
    BY <1>3 DEF Lex
  <2>2. Done = Len(read)
    BY <1>1, <1>3 DEF Done
  <2>3. CASE t.type = "END"
    <3>1. read' = read
      BY <2>1, <2>3
    <3>2. input' = "end"
      <4>1. \A u \in InputTokens : u.type # "END"
        BY NotEnd
      <4>2. Token("LPAREN").type # "END" /\ Token("RPAREN").type # "END"
        BY DEF Token
      <4>. QED
        BY <1>1, <2>1, <2>3, <4>1, <4>2 DEF Following
    <3>3. \A T : Extends(T)' => Extends(T)
      BY <3>1 DEF Extends
    <3>. QED
      BY <1>1, <2>2, <2>3, <3>1, <3>2, <3>3
  <2>4. CASE t.type # "END"
    <3>1. /\ read' = Append(read, t) /\ Len(read') = Len(read) + 1 /\ read'[Len(read) + 1] = t
          /\ \A i \in 1 .. Len(read) : read'[i] = read[i]
      BY <1>1, <2>1, <2>4
    <3>2. \A T : Extends(T)' => Extends(T) /\ Len(read) + 1 \in 1 .. Len(T) /\ T[Len(read) + 1] = t
      BY <1>1, <3>1 DEF Extends
    <3>3. Done' = Len(read) + (IF back THEN 0 ELSE 1)
      BY <1>1, <2>1, <3>1 DEF Done
    <3>4. TakenBack'
      BY <1>1, <2>1, <2>4, <3>1 DEF TakenBack
    <3>. QED
      BY <1>1, <2>2, <2>4, <3>1, <3>2, <3>3, <3>4
  <2>. QED
    BY <2>3, <2>4
<1>. QED
  BY <1>2, <1>3

LEMMA TokenLookedAt ==
  ASSUME PrefixTypes, TakenBack, NEW t \in Tokens, Lex(t, TRUE), t.type # "END"
  PROVE  /\ Done \in Nat /\ TakenBack' /\ Done' = Done
         /\ \A T : Extends(T)' => Extends(T) /\ Done + 1 \in 1 .. Len(T) /\ T[Done + 1] = t
<1>1. PICK back \in BOOLEAN : back = TRUE
  OBVIOUS
<1>2. Lex(t, back)
  BY <1>1
<1>3. /\ Done \in Nat /\ TakenBack' /\ Done' = Done + (IF back THEN 0 ELSE 1)
      /\ \A T : Extends(T)' => Extends(T) /\ Done + 1 \in 1 .. Len(T) /\ T[Done + 1] = t
  BY <1>2, NextToken
<1>4. Done' = Done
  BY <1>1, <1>3
<1>. QED
  BY <1>3, <1>4

(* After the operands that parseOpExpression has, one more follows or the  *)
(* parenthesis.                                                            *)
LEMMA OperandFollows ==
  ASSUME NEW T \in Seq(Tokens), NEW R, Solves(T, R), NEW fr, fr.pc = "loop",
         NEW a \in Start, NEW b \in Int, Covers(T, R, fr, a, b), Viable(T, R)
  PROVE  \/ BeginsTerm(T, R, b)
         \/ /\ b \in 1 .. Len(T) /\ T[b].type = "RPAREN"
            /\ fr.exprs # <<>> /\ fr.op \in PrefixOperator
<1>1. PICK j, e : Reads(T, R, "term", a, j, e)
  BY DEF Covers, BeginsTerm
<1>2. T[a] = OpToken(fr.op) /\ a \in Int
  BY DEF Covers, Start
<1>3. T[a].type = "OP" /\ T[a].value = fr.op
  BY <1>2 DEF OpToken
<1>4. OfItsKind(T, R, a, j, e)
  BY <1>1, TermByKind
<1>5. fr.op \in PrefixOperator /\ j + 1 \in 1 .. Len(T) /\ T[j + 1].type = "RPAREN"
  BY <1>3, <1>4 DEF OfItsKind, Operand, Opening
<1>6. PICK es : Reads(T, R, "terms", a + 1, j, es)
  BY <1>3, <1>4, <1>5 DEF OfItsKind
<1>7. CASE fr.exprs = <<>> /\ b = a + 1
  <2>1. BeginsTerm(T, R, a + 1)
    BY <1>6, TermsRule DEF BeginsTerm
  <2>. QED
    BY <1>7, <2>1
<1>8. CASE Reads(T, R, "terms", a + 1, b - 1, fr.exprs)
  <2>1. j \in Int
    BY <1>1, ReadingSpan
  <2>2. PICK n \in Nat : (b - 1) - (a + 1) < n
    <3>1. a + 1 \in Int /\ b - 1 \in Int /\ a + 1 <= b - 1
      BY <1>2, <1>8, ReadingSpan
    <3>2. PICK m : m = ((b - 1) - (a + 1)) + 1
      OBVIOUS
    <3>3. m \in Nat /\ (b - 1) - (a + 1) < m
      BY <3>1, <3>2
    <3>. QED
      BY <3>3
  <2>3. SameTerms(T, R, n)
    BY Unambiguous
  <2>4. \/ b - 1 = j
        \/ b - 1 < j /\ BeginsTerm(T, R, (b - 1) + 1)
        \/ j < b - 1 /\ BeginsTerm(T, R, j + 1)
    BY <1>6, <1>8, <2>2, <2>3 DEF SameTerms
  <2>5. ~ BeginsTerm(T, R, j + 1)
    BY <1>5, NoTermAtBracket
  <2>6. fr.exprs # <<>>
    <3>1. \/ \E f : fr.exprs = <<f>>
          \/ \E f, rest : fr.exprs = Cons(f, rest) /\ \E k : Reads(T, R, "terms", k, b - 1, rest)
      BY <1>8, TermsRule
    <3>2. ASSUME NEW f, NEW rest, NEW k, Reads(T, R, "terms", k, b - 1, rest)
          PROVE  Cons(f, rest) # <<>>
      <4>1. PICK S : rest \in Seq(S)
        BY <3>2, TermsAreSequences
      <4>2. rest \in Seq(S \cup {f}) /\ <<f>> \in Seq(S \cup {f})
        BY <4>1
      <4>3. Len(Cons(f, rest)) = 1 + Len(rest) /\ Len(rest) \in Nat
        BY <4>2 DEF Cons
      <4>. QED
        BY <4>3
    <3>3. \A f : <<f>> # <<>>
      OBVIOUS
    <3>. QED
      BY <3>1, <3>2, <3>3
  <2>7. (b - 1) + 1 = b
    OBVIOUS
  <2>8. j + 1 = b \/ BeginsTerm(T, R, b)
    BY <2>1, <2>4, <2>5, <2>7
  <2>. QED
    BY <1>5, <2>6, <2>8
<1>. QED
  BY <1>7, <1>8 DEF Covers

(* The innermost activation and the tokens it has consumed. *)
LEMMA InnermostCovers ==
  ASSUME ReadInv, status = "parsing", NEW T, NEW R, Extends(T), Solves(T, R)
  PROVE  /\ Done + 1 \in Start /\ stack # <<>>
         /\ \E a \in Start : /\ Chained(T, R, Front(stack), a)
                             /\ Covers(T, R, Last(stack), a, Done + 1)
<1>1. PICK U : stack \in Seq(Records(U)) /\ stack # <<>>
  BY Parsing DEF ReadInv, PrefixTypes
<1>2. PICK r, fr : r = Front(stack) /\ fr = Last(stack)
  OBVIOUS
<1>3. r \in Seq(Records(U)) /\ fr \in Records(U) /\ stack = Append(r, fr)
  BY <1>1, <1>2, Innermost
<1>4. Chained(T, R, Append(r, fr), Done + 1)
  BY <1>3 DEF ReadInv, Progress
<1>. QED
  BY <1>1, <1>2, <1>3, <1>4, ChainedAppend

(* The innermost activation goes on as fr, or calls fr in its place. *)
LEMMA ReplacedProgress ==
  ASSUME NEW U, stack \in Seq(Records(U)), stack # <<>>, NEW fr \in Records(U),
         stack' = Append(Front(stack), fr), status' = "parsing", Done' + 1 \in Start,
         NEW T, NEW R, NEW a \in Start, Chained(T, R, Front(stack), a), Covers(T, R, fr, a, Done' + 1)
  PROVE  Progress(T, R)'
<1>1. Front(stack) \in Seq(Records(U))
  BY Innermost
<1>2. Chained(T, R, Append(Front(stack), fr), Done' + 1)
  BY <1>1, ChainedAppend
<1>. QED
  BY <1>2 DEF Progress

(* An activation begins. *)
LEMMA BeginsCovers ==
  ASSUME NEW T, NEW R, NEW a, Viable(T, R) => BeginsTerm(T, R, a), NEW proc
  PROVE  Covers(T, R, Activation(proc), a, a)
<1>1. PICK fr : fr = Activation(proc)
  OBVIOUS
<1>2. fr.pc = "enter" /\ fr.exprs = <<>>
  BY <1>1 DEF Activation
<1>3. fr.pc \notin Closing /\ fr.pc # "loop"
  BY <1>2 DEF Closing
<1>. QED
  BY <1>1, <1>2, <1>3 DEF Covers

LEMMA ActivationRecord ==
  ASSUME NEW U, NEW proc \in {"parseExpression", "parseOpExpression"}
  PROVE  Activation(proc) \in Records(U)
<1>1. PICK fr : fr = Activation(proc)
  OBVIOUS
<1>2. fr = [proc |-> proc, pc |-> "enter", op |-> "", exprs |-> <<>>]
  BY <1>1 DEF Activation
<1>3. <<>> \in Seq(U)
  OBVIOUS
<1>4. fr \in Records(U)
  BY <1>2, <1>3 DEF Records
<1>. QED
  BY <1>1, <1>4

(* The innermost activation goes on as fr, once the one it calls returns.  *)
LEMMA CalledProgress ==
  ASSUME NEW U, stack \in Seq(Records(U)), stack # <<>>, NEW fr \in Records(U),
         stack' = Append(Append(Front(stack), fr), Activation("parseExpression")),
         status' = "parsing", Done' + 1 \in Start,
         NEW T, NEW R, NEW a \in Start, Chained(T, R, Front(stack), a), Covers(T, R, fr, a, Done' + 1),
         Viable(T, R) => BeginsTerm(T, R, Done' + 1)
  PROVE  Progress(T, R)'
<1>1. PICK r, s, b, callee : /\ r = Front(stack) /\ s = Append(r, fr) /\ b = Done' + 1
                             /\ callee = Activation("parseExpression")
  OBVIOUS
<1>2. r \in Seq(Records(U)) /\ s \in Seq(Records(U)) /\ callee \in Records(U)
  BY <1>1, Innermost, ActivationRecord
<1>3. Chained(T, R, s, b)
  BY <1>1, <1>2, ChainedAppend
<1>4. Covers(T, R, callee, b, b)
  BY <1>1, BeginsCovers
<1>5. Chained(T, R, Append(s, callee), b)
  BY <1>1, <1>2, <1>3, <1>4, ChainedAppend
<1>. QED
  BY <1>1, <1>5 DEF Progress

(* An activation that waits is given the term behind what it has consumed. *)
LEMMA GivenCovers ==
  ASSUME NEW T \in Seq(Tokens), NEW R, Solves(T, R), NEW U, NEW fr \in Records(U), Waits(fr),
         NEW a, NEW b \in Int, Covers(T, R, fr, a, b), NEW c \in Int, NEW e,
         Reads(T, R, "term", b, c - 1, e), NEW new, new = [fr EXCEPT !.exprs = Append(@, e)]
  PROVE  Covers(T, R, new, a, c)
<1>1. PICK es : es = fr.exprs /\ es \in Seq(U)
  BY DEF Records
<1>2. new.pc = fr.pc /\ new.op = fr.op /\ new.exprs = Append(es, e)
  BY <1>1 DEF Records
<1>3. fr.pc # "enter" /\ (fr.pc \in Closing => es = <<>>)
  BY <1>1 DEF Waits, Records, Closing
<1>4. Append(<<>>, e) = <<e>>
  OBVIOUS
<1>5. CASE fr.pc \in Closing
  <2>1. T[a].type \in Opening /\ ClosingOf(T[a].type) = fr.pc /\ b = a + 1 /\ fr.pc # "loop"
    <3>1. \A f : <<f>> # <<>>
      OBVIOUS
    <3>. QED
      BY <1>1, <1>3, <1>5, <3>1 DEF Covers, Closing
  <2>2. new.exprs = <<e>> /\ Reads(T, R, "term", a + 1, c - 1, e)
    BY <1>2, <1>3, <1>4, <1>5, <2>1
  <2>. QED
    BY <1>2, <1>3, <1>5, <2>1, <2>2 DEF Covers
<1>6. CASE fr.pc = "loop"
  <2>1. T[a] = OpToken(fr.op) /\ fr.pc \notin Closing
    BY <1>6 DEF Covers, Closing
  <2>2. CASE es = <<>> /\ b = a + 1
    <3>1. Reads(T, R, "terms", a + 1, c - 1, <<e>>)
      BY <2>2, TermsRule
    <3>2. new.exprs = <<e>>
      BY <1>2, <1>4, <2>2
    <3>. QED
      BY <1>2, <1>6, <2>1, <3>1, <3>2 DEF Covers
  <2>3. CASE Reads(T, R, "terms", a + 1, b - 1, es)
    <3>1. (b - 1) + 1 = b
      OBVIOUS
    <3>2. Reads(T, R, "terms", a + 1, c - 1, Append(es, e))
      BY <2>3, <3>1, AppendedTerm
    <3>. QED
      BY <1>2, <1>6, <2>1, <3>2 DEF Covers
  <2>. QED
    BY <1>1, <1>6, <2>2, <2>3 DEF Covers
<1>7. CASE fr.pc \notin Closing \cup {"loop"}
  BY <1>2, <1>3, <1>7 DEF Covers
<1>. QED
  BY <1>5, <1>6, <1>7

(* The stack of the callers, of which the last is given e. *)
LEMMA Returned ==
  ASSUME PrefixInv, status = "parsing", NEW U, stack \in Seq(Records(U)), NEW e, Return(e)
  PROVE  \/ Front(stack) = <<>> /\ stack' = <<>> /\ status' = "returned" /\ result' = e
         \/ \E r \in Seq(Records(U)), fr \in Records(U) :
              /\ Front(stack) = Append(r, fr) /\ Waits(fr)
              /\ stack' = Append(r, [fr EXCEPT !.exprs = Append(@, e)])
              /\ status' = "parsing"
<1>1. stack # <<>> /\ Disciplined(stack)
  BY Parsing
<1>2. PICK f, n : f = Front(stack) /\ n = Len(stack) - 1
  OBVIOUS
<1>3. f \in Seq(Records(U)) /\ Len(f) = n /\ n \in Nat /\ AllWait(f) /\ (f = <<>> <=> n = 0)
  BY <1>1, <1>2, Innermost DEF Disciplined
<1>4. CASE n = 0
  BY <1>2, <1>3, <1>4 DEF Return
<1>5. CASE n # 0
  <2>1. f # <<>> /\ stack' = [f EXCEPT ![n].exprs = Append(@, e)] /\ status' = status
    BY <1>2, <1>3, <1>5 DEF Return
  <2>2. PICK r, fr, new, V : /\ r = Front(f) /\ fr = Last(f) /\ new = [fr EXCEPT !.exprs = Append(@, e)]
                             /\ V = U \cup {e}
    OBVIOUS
  <2>3. r \in Seq(Records(U)) /\ fr \in Records(U) /\ fr = f[n] /\ f = Append(r, fr)
    BY <1>3, <2>1, <2>2, Innermost
  <2>4. Waits(fr)
    BY <1>3, <1>5, <2>3 DEF AllWait
  <2>5. new \in Records(V)
    <3>1. U \subseteq V /\ e \in V /\ fr \in Records(U) /\ Waits(fr) /\ new = [fr EXCEPT !.exprs = Append(@, e)]
      BY <2>2, <2>3, <2>4
    <3>. QED
      BY ONLY <3>1, GivenOperand
  <2>6. f \in Seq(Records(V))
    BY <1>3, <2>2, RecordsGrow
  <2>7. stack' = [f EXCEPT ![n] = new]
    BY <1>3, <1>5, <2>1, <2>2, <2>3
  <2>8. [f EXCEPT ![Len(f)] = new] = Append(r, new)
    <3>1. f \in Seq(Records(V)) /\ f # <<>> /\ new \in Records(V)
      BY <2>1, <2>5, <2>6
    <3>2. [f EXCEPT ![Len(f)] = new] = Append(Front(f), new)
      BY ONLY <3>1, TopChanged
    <3>. QED
      BY <2>2, <3>2
  <2>. QED
    BY <1>2, <1>3, <2>1, <2>2, <2>3, <2>4, <2>7, <2>8
<1>. QED
  BY <1>4, <1>5

(* The innermost activation returns the term it has read. *)
LEMMA ReturnedProgress ==
  ASSUME PrefixInv, PrefixInv', status = "parsing", NEW e, Return(e),
         NEW T \in Seq(Tokens), NEW R, Solves(T, R), Done' + 1 \in Start,
         NEW a \in Start, Chained(T, R, Front(stack), a), Reads(T, R, "term", a, Done', e)
  PROVE  Progress(T, R)'
<1>1. PICK U : stack \in Seq(Records(U))
  BY DEF PrefixInv, PrefixTypes
<1>2. CASE Front(stack) = <<>> /\ stack' = <<>> /\ status' = "returned" /\ result' = e
  <2>1. a = 1
    BY <1>2, ChainedEmpty
  <2>2. ~ reverted' /\ Len(read') \in Nat
    BY <1>2 DEF PrefixInv, PrefixTypes
  <2>3. Done' = Len(read')
    BY <2>2 DEF Done
  <2>. QED
    BY <1>2, <2>1, <2>3 DEF Progress
<1>3. ASSUME NEW r \in Seq(Records(U)), NEW fr \in Records(U),
             Front(stack) = Append(r, fr), Waits(fr),
             stack' = Append(r, [fr EXCEPT !.exprs = Append(@, e)]), status' = "parsing"
      PROVE  Progress(T, R)'
  <2>1. PICK new, V : new = [fr EXCEPT !.exprs = Append(@, e)] /\ V = U \cup {e}
    OBVIOUS
  <2>2. PICK o \in Start : Chained(T, R, r, o) /\ Covers(T, R, fr, o, a)
    BY <1>3, ChainedAppend
  <2>3. PICK c : c = Done' + 1 /\ c \in Int /\ Reads(T, R, "term", a, c - 1, e)
    <3>1. Done' \in Int
      BY ReadingSpan
    <3>2. \A d \in Int : (d + 1) - 1 = d /\ d + 1 \in Int
      OBVIOUS
    <3>3. (Done' + 1) - 1 = Done' /\ Done' + 1 \in Int
      BY ONLY <3>1, <3>2
    <3>4. Reads(T, R, "term", a, (Done' + 1) - 1, e)
      BY <3>3
    <3>. QED
      BY <3>3, <3>4
  <2>4. a \in Int
    BY DEF Start
  <2>5. Covers(T, R, new, o, c)
    BY <1>3, <2>1, <2>2, <2>3, <2>4, GivenCovers
  <2>6. U \subseteq V /\ e \in V /\ fr \in Records(U) /\ Waits(fr) /\ new = [fr EXCEPT !.exprs = Append(@, e)]
    BY <1>3, <2>1
  <2>7. new \in Records(V) /\ r \in Seq(Records(V))
    <3>1. new \in Records(V)
      BY ONLY <2>6, GivenOperand
    <3>2. Records(U) \subseteq Records(V)
      BY <2>1, RecordsGrow
    <3>. QED
      BY <3>1, <3>2
  <2>8. Chained(T, R, Append(r, new), c)
    BY <2>2, <2>3, <2>5, <2>7, ChainedAppend
  <2>. QED
    BY <1>3, <2>1, <2>3, <2>8 DEF Progress
<1>. QED
  BY <1>1, <1>2, <1>3, Returned

----------------------------------------------------------------------------
(* What is read stays a term of the grammar, action by action. *)

LEMMA ReadOperandReads ==
  ASSUME ReadInv, ReadOperand
  PROVE  ReadInv'
<1>1. PICK t \in Tokens : Lex(t, FALSE) /\ t.type \in Operand
  BY DEF ReadOperand, getNextToken
<1>2. /\ status = "parsing" /\ Last(stack).pc = "enter"
      /\ Return(Leaf(previous'.type, Len(read')))
  BY DEF ReadOperand, At
<1>3. PrefixInv /\ PrefixInv' /\ PrefixTypes /\ TakenBack
  BY <1>2, ReadOperandKeeps, Parsing DEF ReadInv
<1>4. PICK e : e = Leaf(t.type, Len(read')) /\ Return(e)
  BY <1>1, <1>2, <1>3, Lexed
<1>5. /\ Done \in Nat /\ TakenBack' /\ Done' = Done + 1 /\ Len(read') = Done + 1
      /\ \A T : Extends(T)' => Extends(T) /\ Done + 1 \in 1 .. Len(T) /\ T[Done + 1] = t
  BY <1>1, <1>3, NextToken DEF Operand
<1>6. ASSUME NEW T, NEW R, Extends(T)', Solves(T, R)
      PROVE  Progress(T, R)'
  <2>1. Extends(T) /\ T \in Seq(Tokens) /\ Done + 1 \in 1 .. Len(T) /\ T[Done + 1] = t
    BY <1>5, <1>6 DEF Extends
  <2>2. PICK a \in Start : Chained(T, R, Front(stack), a) /\ Covers(T, R, Last(stack), a, Done + 1)
    BY <1>2, <1>6, <2>1, InnermostCovers
  <2>3. /\ a = Done' /\ a \in 1 .. Len(T) /\ Done' \in a .. Len(T)
        /\ T[a].type \in Operand /\ e = Leaf(T[a].type, a)
    BY <1>1, <1>2, <1>4, <1>5, <2>1, <2>2 DEF Covers
  <2>4. Reads(T, R, "term", a, Done', e)
    BY <1>6, <2>1, <2>3, TermRule
  <2>5. Done' + 1 \in Start
    BY <1>5 DEF Start
  <2>. QED
    BY <1>2, <1>3, <1>4, <1>6, <2>1, <2>2, <2>4, <2>5, ReturnedProgress
<1>. QED
  BY <1>3, <1>5, <1>6 DEF ReadInv

LEMMA ReadOperatorReads ==
  ASSUME ReadInv, ReadOperator
  PROVE  ReadInv'
<1>1. PICK t \in Tokens : Lex(t, TRUE) /\ t.type = "OP"
  BY DEF ReadOperator, lookAhead
<1>2. /\ status = "parsing" /\ Last(stack).pc = "enter"
      /\ stack' = Append(Front(stack), Activation("parseOpExpression")) /\ status' = "parsing"
  BY DEF ReadOperator, At
<1>3. PrefixInv' /\ PrefixTypes /\ TakenBack
  BY <1>2, ReadOperatorKeeps, Parsing DEF ReadInv
<1>4. Done \in Nat /\ TakenBack' /\ Done' = Done /\ \A T : Extends(T)' => Extends(T)
  BY <1>1, <1>3, TokenLookedAt
<1>5. PICK U : stack \in Seq(Records(U))
  BY <1>3 DEF PrefixTypes
<1>6. ASSUME NEW T, NEW R, Extends(T)', Solves(T, R)
      PROVE  Progress(T, R)'
  <2>1. /\ Extends(T) /\ stack # <<>> /\ Done' + 1 \in Start /\ Done' + 1 = Done + 1
        /\ \E a \in Start : Chained(T, R, Front(stack), a) /\ Covers(T, R, Last(stack), a, Done + 1)
    BY <1>2, <1>4, <1>6, InnermostCovers
  <2>2. PICK a \in Start : Chained(T, R, Front(stack), a) /\ Covers(T, R, Last(stack), a, Done + 1)
    BY <2>1
  <2>3. a = Done' + 1 /\ (Viable(T, R) => BeginsTerm(T, R, a))
    BY <1>2, <2>1, <2>2 DEF Covers
  <2>4. PICK fr : fr = Activation("parseOpExpression")
    OBVIOUS
  <2>5. Covers(T, R, fr, a, Done' + 1)
    BY <2>3, <2>4, BeginsCovers
  <2>6. fr \in Records(U)
    BY <2>4, ActivationRecord
  <2>. QED
    BY <1>2, <1>5, <2>1, <2>2, <2>4, <2>5, <2>6, ReplacedProgress
<1>. QED
  BY <1>2, <1>3, <1>4, <1>6 DEF ReadInv

LEMMA OpenBracketReads ==
  ASSUME ReadInv, OpenBracket
  PROVE  ReadInv'
<1>1. PICK t \in Tokens :
        /\ Lex(t, FALSE) /\ t.type \in Opening
        /\ stack' = Call(ClosingOf(t.type), "parseExpression")
  BY DEF OpenBracket, getNextToken
<1>2. /\ status = "parsing" /\ status' = "parsing"
      /\ Last(stack).proc = "parseExpression" /\ Last(stack).pc = "enter"
  BY DEF OpenBracket, At
<1>3. PrefixInv' /\ PrefixTypes /\ TakenBack /\ stack # <<>>
  BY <1>2, OpenBracketKeeps, Parsing DEF ReadInv
<1>4. /\ Done \in Nat /\ TakenBack' /\ Done' = Done + 1
      /\ \A T : Extends(T)' => Extends(T) /\ Done + 1 \in 1 .. Len(T) /\ T[Done + 1] = t
  BY <1>1, <1>3, NextToken DEF Opening
<1>5. PICK U : stack \in Seq(Records(U))
  BY <1>3 DEF PrefixTypes
<1>6. PICK c, fr : c = ClosingOf(t.type) /\ fr = [Last(stack) EXCEPT !.pc = c] /\ c \in Closing
  BY DEF ClosingOf, Closing
<1>7. fr \in Records(U)
  <2>1. Last(stack) \in Records(U)
    BY <1>3, <1>5, Innermost
  <2>. QED
    BY <1>2, <1>6, <2>1 DEF Records
<1>8. /\ stack' = Append(Append(Front(stack), fr), Activation("parseExpression"))
      /\ fr.pc = c /\ fr.exprs = Last(stack).exprs
  BY <1>1, <1>3, <1>5, <1>6, <1>7, CallIs
<1>9. ASSUME NEW T, NEW R, Extends(T)', Solves(T, R)
      PROVE  Progress(T, R)'
  <2>1. Extends(T) /\ T \in Seq(Tokens) /\ T[Done + 1] = t /\ Done' + 1 \in Start
    BY <1>4, <1>9 DEF Extends, Start
  <2>2. PICK a \in Start : Chained(T, R, Front(stack), a) /\ Covers(T, R, Last(stack), a, Done + 1)
    BY <1>2, <1>9, <2>1, InnermostCovers
  <2>3. /\ a = Done + 1 /\ Done' + 1 = a + 1 /\ T[a] = t /\ fr.exprs = <<>>
        /\ Viable(T, R) => BeginsTerm(T, R, a)
    BY <1>2, <1>4, <1>8, <2>1, <2>2 DEF Covers
  <2>4. Covers(T, R, fr, a, Done' + 1)
    BY <1>1, <1>6, <1>8, <2>3 DEF Covers, Closing
  <2>5. ASSUME Viable(T, R)
        PROVE  BeginsTerm(T, R, Done' + 1)
    <3>1. PICK j, e : Reads(T, R, "term", a, j, e)
      BY <2>3, <2>5 DEF BeginsTerm
    <3>2. OfItsKind(T, R, a, j, e)
      BY <1>9, <2>1, <3>1, TermByKind
    <3>3. Reads(T, R, "term", a + 1, j - 1, e)
      BY <1>1, <2>3, <3>2 DEF OfItsKind
    <3>. QED
      BY <2>3, <3>3 DEF BeginsTerm
  <2>. QED
    BY <1>2, <1>3, <1>5, <1>7, <1>8, <2>1, <2>2, <2>4, <2>5, CalledProgress
<1>. QED
  BY <1>2, <1>3, <1>4, <1>9 DEF ReadInv

LEMMA EnterOpExpressionReads ==
  ASSUME ReadInv, EnterOpExpression
  PROVE  ReadInv'
<1>1. PICK t \in Tokens :
        /\ Lex(t, FALSE)
        /\ stack' = [stack EXCEPT ![Len(stack)].pc = "loop", ![Len(stack)].op = t.value]
  BY DEF EnterOpExpression, getNextToken
<1>2. /\ status = "parsing" /\ status' = "parsing"
      /\ Last(stack).proc = "parseOpExpression" /\ Last(stack).pc = "enter"
  BY DEF EnterOpExpression, At
<1>3. PrefixInv' /\ PrefixTypes /\ TakenBack /\ stack # <<>> /\ OperatorTakenBack
  BY <1>2, EnterOpExpressionKeeps, Parsing DEF ReadInv
<1>4. t.type = "OP" /\ t = OpToken(t.value) /\ t.value \in Operators
  <2>1. t.type = "OP"
    BY <1>1, <1>2, <1>3 DEF Lex, OperatorTakenBack
  <2>. QED
    BY <2>1, TokenKinds
<1>5. /\ Done \in Nat /\ TakenBack' /\ Done' = Done + 1
      /\ \A T : Extends(T)' => Extends(T) /\ Done + 1 \in 1 .. Len(T) /\ T[Done + 1] = t
  BY <1>1, <1>3, <1>4, NextToken
<1>6. PICK U : stack \in Seq(Records(U))
  BY <1>3 DEF PrefixTypes
<1>7. PICK fr : fr = [Last(stack) EXCEPT !.pc = "loop", !.op = t.value]
  OBVIOUS
<1>8. Last(stack) \in Records(U) /\ Len(stack) \in Nat \ {0} /\ Last(stack) = stack[Len(stack)]
  BY <1>3, <1>6, Innermost
<1>9. /\ fr \in Records(U) /\ fr.pc = "loop" /\ fr.op = t.value
      /\ fr.exprs = Last(stack).exprs
  BY <1>2, <1>4, <1>7, <1>8 DEF Records
<1>10. stack' = Append(Front(stack), fr)
  <2>1. stack' = [stack EXCEPT ![Len(stack)] = fr]
    BY <1>1, <1>6, <1>7, <1>8
  <2>2. [stack EXCEPT ![Len(stack)] = fr] = Append(Front(stack), fr)
    BY ONLY <1>3, <1>6, <1>9, TopChanged
  <2>. QED
    BY <2>1, <2>2
<1>11. ASSUME NEW T, NEW R, Extends(T)', Solves(T, R)
       PROVE  Progress(T, R)'
  <2>1. Extends(T) /\ T[Done + 1] = t /\ Done' + 1 \in Start
    BY <1>5, <1>11 DEF Start
  <2>2. PICK a \in Start : Chained(T, R, Front(stack), a) /\ Covers(T, R, Last(stack), a, Done + 1)
    BY <1>2, <1>11, <2>1, InnermostCovers
  <2>3. /\ a = Done + 1 /\ Done' + 1 = a + 1 /\ T[a] = OpToken(fr.op) /\ fr.exprs = <<>>
        /\ Viable(T, R) => BeginsTerm(T, R, a)
    BY <1>2, <1>4, <1>5, <1>9, <2>1, <2>2 DEF Covers
  <2>4. Covers(T, R, fr, a, Done' + 1)
    BY <1>9, <2>3 DEF Covers, Closing
  <2>. QED
    BY <1>2, <1>3, <1>6, <1>9, <1>10, <2>1, <2>2, <2>4, ReplacedProgress
<1>. QED
  BY <1>2, <1>3, <1>5, <1>11 DEF ReadInv

LEMMA NextOperandReads ==
  ASSUME ReadInv, NextOperand
  PROVE  ReadInv'
<1>1. PICK t \in Tokens : Lex(t, TRUE) /\ t.type \notin {"RPAREN", "END", "INVALID"}
  BY DEF NextOperand, lookAhead
<1>2. /\ status = "parsing" /\ status' = "parsing"
      /\ Last(stack).proc = "parseOpExpression" /\ Last(stack).pc = "loop"
      /\ stack' = Call("loop", "parseExpression")
  BY DEF NextOperand, At
<1>3. PrefixInv' /\ PrefixTypes /\ TakenBack /\ stack # <<>>
  BY <1>2, NextOperandKeeps, Parsing DEF ReadInv
<1>4. /\ Done \in Nat /\ TakenBack' /\ Done' = Done
      /\ \A T : Extends(T)' => Extends(T) /\ Done + 1 \in 1 .. Len(T) /\ T[Done + 1] = t
  BY <1>1, <1>3, TokenLookedAt
<1>5. PICK U : stack \in Seq(Records(U))
  BY <1>3 DEF PrefixTypes
<1>6. PICK fr : fr = [Last(stack) EXCEPT !.pc = "loop"]
  OBVIOUS
<1>7. Last(stack) \in Records(U)
  BY <1>3, <1>5, Innermost
<1>8. fr = Last(stack) /\ fr \in Records(U)
  BY <1>2, <1>6, <1>7 DEF Records
<1>9. stack' = Append(Append(Front(stack), fr), Activation("parseExpression"))
  BY <1>2, <1>3, <1>5, <1>6, <1>7, <1>8, CallIs
<1>10. ASSUME NEW T, NEW R, Extends(T)', Solves(T, R)
       PROVE  Progress(T, R)'
  <2>1. /\ Extends(T) /\ T \in Seq(Tokens) /\ T[Done + 1] = t /\ Done' + 1 \in Start
        /\ Done' + 1 = Done + 1 /\ Done + 1 \in Int
    BY <1>4, <1>10 DEF Extends, Start
  <2>2. PICK a \in Start : Chained(T, R, Front(stack), a) /\ Covers(T, R, fr, a, Done + 1)
    BY <1>2, <1>8, <1>10, <2>1, InnermostCovers
  <2>3. Viable(T, R) => BeginsTerm(T, R, Done + 1)
    BY <1>1, <1>2, <1>8, <1>10, <2>1, <2>2, OperandFollows
  <2>. QED
    BY <1>2, <1>3, <1>5, <1>7, <1>8, <1>9, <2>1, <2>2, <2>3, CalledProgress
<1>. QED
  BY <1>2, <1>3, <1>4, <1>10 DEF ReadInv

LEMMA CloseBracketReads ==
  ASSUME ReadInv, CloseBracket
  PROVE  ReadInv'
<1>1. PICK closing \in Closing :
        /\ At("parseExpression", closing)
        /\ \E t \in Tokens : getNextToken(t) /\ t.type = closing
        /\ Return(Last(stack).exprs[1])
  BY DEF CloseBracket
<1>2. PICK t \in Tokens : Lex(t, FALSE) /\ t.type = closing
  BY <1>1 DEF getNextToken
<1>3. status = "parsing" /\ Last(stack).proc = "parseExpression" /\ Last(stack).pc = closing
  BY <1>1 DEF At
<1>4. PrefixInv /\ PrefixInv' /\ PrefixTypes /\ TakenBack /\ Disciplined(stack)
  BY <1>3, CloseBracketKeeps, Parsing DEF ReadInv
<1>5. /\ Done \in Nat /\ TakenBack' /\ Done' = Done + 1
      /\ \A T : Extends(T)' => Extends(T) /\ Done + 1 \in 1 .. Len(T) /\ T[Done + 1] = t
  BY <1>1, <1>2, <1>4, NextToken DEF Closing
<1>6. Last(stack).exprs # <<>>
  <2>1. Len(Last(stack).exprs) = 1
    BY <1>1, <1>3, <1>4 DEF Disciplined, Runs, Closing
  <2>. QED
    BY <2>1
<1>7. PICK e : e = Last(stack).exprs[1] /\ Return(e)
  BY <1>1
<1>8. ASSUME NEW T, NEW R, Extends(T)', Solves(T, R)
      PROVE  Progress(T, R)'
  <2>1. /\ Extends(T) /\ T \in Seq(Tokens) /\ Done + 1 \in 1 .. Len(T) /\ T[Done + 1] = t
        /\ Done' + 1 \in Start
    BY <1>5, <1>8 DEF Extends, Start
  <2>2. PICK a \in Start : Chained(T, R, Front(stack), a) /\ Covers(T, R, Last(stack), a, Done + 1)
    BY <1>3, <1>8, <2>1, InnermostCovers
  <2>3. PICK f : /\ T[a].type \in Opening /\ ClosingOf(T[a].type) = closing
                 /\ Last(stack).exprs = <<f>> /\ Reads(T, R, "term", a + 1, (Done + 1) - 1, f)
    BY <1>1, <1>3, <1>6, <2>2 DEF Covers
  <2>4. e = f
    BY <1>7, <2>3
  <2>5. a \in 1 .. Len(T) /\ Done' \in a .. Len(T)
    <3>1. a + 1 \in 1 .. Len(T) /\ (Done + 1) - 1 \in a + 1 .. Len(T) /\ Len(T) \in Nat
      BY <1>8, <2>1, <2>3, ReadingSpan
    <3>. QED
      BY <1>5, <2>1, <3>1 DEF Start
  <2>6. Reads(T, R, "term", a, Done', e)
    BY <1>2, <1>5, <1>8, <2>1, <2>3, <2>4, <2>5, TermRule
  <2>. QED
    BY <1>3, <1>4, <1>7, <1>8, <2>1, <2>2, <2>6, ReturnedProgress
<1>. QED
  BY <1>4, <1>5, <1>8 DEF ReadInv

LEMMA OpExpressionReturnsReads ==
  ASSUME ReadInv, OpExpressionReturns
  PROVE  ReadInv'
<1>1. PICK t \in Tokens : Lex(t, TRUE) /\ t.type = "RPAREN"
  BY DEF OpExpressionReturns, lookAhead
<1>2. PICK fr : fr = Last(stack)
  OBVIOUS
<1>3. /\ status = "parsing" /\ fr.proc = "parseOpExpression" /\ fr.pc = "loop"
      /\ fr.exprs # <<>> /\ fr.op \in PrefixOperator /\ Return(Node(fr.op, fr.exprs))
  BY <1>2 DEF OpExpressionReturns, At
<1>4. PrefixInv /\ PrefixInv' /\ PrefixTypes /\ TakenBack
  BY <1>3, OpExpressionReturnsKeeps, Parsing DEF ReadInv
<1>5. /\ Done \in Nat /\ TakenBack' /\ Done' = Done
      /\ \A T : Extends(T)' => Extends(T) /\ Done + 1 \in 1 .. Len(T) /\ T[Done + 1] = t
  BY <1>1, <1>4, TokenLookedAt
<1>6. PICK e : e = Node(fr.op, fr.exprs) /\ Return(e)
  BY <1>3
<1>7. ASSUME NEW T, NEW R, Extends(T)', Solves(T, R)
      PROVE  Progress(T, R)'
  <2>1. /\ Extends(T) /\ T \in Seq(Tokens) /\ Done + 1 \in 1 .. Len(T) /\ T[Done + 1] = t
        /\ Done' + 1 \in Start
    BY <1>5, <1>7 DEF Extends, Start
  <2>2. PICK a \in Start : Chained(T, R, Front(stack), a) /\ Covers(T, R, fr, a, Done + 1)
    BY <1>2, <1>3, <1>7, <2>1, InnermostCovers
  <2>3. T[a] = OpToken(fr.op) /\ Reads(T, R, "terms", a + 1, Done, fr.exprs)
    <3>1. (Done + 1) - 1 = Done
      BY <1>5
    <3>. QED
      BY <1>3, <2>2, <3>1 DEF Covers
  <2>4. T[a].value = fr.op
    BY <2>3 DEF OpToken
  <2>5. a \in 1 .. Len(T) /\ Done \in a .. Len(T)
    <3>1. a + 1 \in 1 .. Len(T) /\ Done \in a + 1 .. Len(T) /\ Len(T) \in Nat
      BY <1>7, <2>1, <2>3, ReadingSpan
    <3>. QED
      BY <3>1 DEF Start
  <2>6. Reads(T, R, "term", a, Done', e)
    BY <1>1, <1>3, <1>5, <1>6, <1>7, <2>1, <2>3, <2>4, <2>5, TermRule
  <2>. QED
    BY <1>3, <1>4, <1>6, <1>7, <2>1, <2>2, <2>6, ReturnedProgress
<1>. QED
  BY <1>4, <1>5, <1>7 DEF ReadInv

(* What the innermost activation finds is no term that begins where it does. *)
LEMMA ThrownReads ==
  ASSUME ReadInv, status = "parsing", NEW t \in Tokens, NEW back \in BOOLEAN, Lex(t, back), Throw,
         \A T, R, a : /\ T \in Seq(Tokens) /\ Solves(T, R) /\ a \in Start
                      /\ Covers(T, R, Last(stack), a, Done + 1) /\ Viable(T, R)
                      => Done + 1 \in 1 .. Len(T) /\ T[Done + 1] # t
  PROVE  ReadInv'
<1>1. PrefixInv' /\ PrefixTypes /\ TakenBack
  BY ThrowKeeps, Parsing DEF ReadInv
<1>2. status' = "threw"
  BY DEF Throw
<1>3. /\ Done \in Nat /\ Len(read) \in Nat
      /\ \A T : Extends(T)' => Extends(T)
      /\ t.type # "END" => \A T : Extends(T)' => T[Done + 1] = t
      /\ t.type = "END" => input' = "end" /\ read' = read /\ Done = Len(read)
  BY <1>1, NextToken
<1>4. ASSUME NEW T, NEW R, Extends(T)', Solves(T, R), input' = "end" => T = read', Viable(T, R)
      PROVE  FALSE
  <2>1. Extends(T) /\ T \in Seq(Tokens)
    BY <1>3, <1>4 DEF Extends
  <2>2. PICK a \in Start : Covers(T, R, Last(stack), a, Done + 1)
    BY <1>4, <2>1, InnermostCovers
  <2>3. Done + 1 \in 1 .. Len(T) /\ T[Done + 1] # t
    BY <1>4, <2>1, <2>2
  <2>. QED
    BY <1>3, <1>4, <2>3
<1>5. \A T, R : Extends(T)' /\ Solves(T, R) => Progress(T, R)'
  BY <1>2, <1>4 DEF Progress
<1>. QED
  BY <1>1, <1>2, <1>5 DEF ReadInv

LEMMA NoExpressionReads ==
  ASSUME ReadInv, NoExpression
  PROVE  ReadInv'
<1>1. PICK t \in Tokens : Lex(t, FALSE) /\ t.type \notin Operand \cup Opening \cup {"OP"}
  BY DEF NoExpression, getNextToken
<1>2. status = "parsing" /\ Last(stack).pc = "enter" /\ Throw
  BY DEF NoExpression, At
<1>3. ASSUME NEW T, NEW R, NEW a, T \in Seq(Tokens), Solves(T, R),
             Covers(T, R, Last(stack), a, Done + 1), Viable(T, R)
      PROVE  Done + 1 \in 1 .. Len(T) /\ T[Done + 1] # t
  <2>1. PICK j, e : Reads(T, R, "term", Done + 1, j, e)
    BY <1>2, <1>3 DEF Covers, BeginsTerm
  <2>. QED
    BY <1>1, <1>3, <2>1, FirstToken, ReadingSpan
<1>. QED
  BY <1>1, <1>2, <1>3, ThrownReads

LEMMA MissingBracketReads ==
  ASSUME ReadInv, MissingBracket
  PROVE  ReadInv'
<1>1. PICK closing \in Closing :
        /\ At("parseExpression", closing) /\ Throw
        /\ \E t \in Tokens : getNextToken(t) /\ t.type # closing
  BY DEF MissingBracket
<1>2. PICK t \in Tokens : Lex(t, FALSE) /\ t.type # closing
  BY <1>1 DEF getNextToken
<1>3. PICK fr : fr = Last(stack)
  OBVIOUS
<1>4. status = "parsing" /\ fr.proc = "parseExpression" /\ fr.pc = closing
  BY <1>1, <1>3 DEF At
<1>5. fr.exprs # <<>>
  <2>1. Disciplined(stack)
    BY <1>4, Parsing DEF ReadInv
  <2>2. PICK es : es = fr.exprs
    OBVIOUS
  <2>3. Len(es) = 1
    BY <1>1, <1>3, <1>4, <2>1, <2>2 DEF Disciplined, Runs, Closing
  <2>4. es # <<>>
    BY <2>3
  <2>. QED
    BY <2>2, <2>4
<1>6. Done \in Nat
  BY <1>2, <1>4, Parsing, NextToken DEF ReadInv
<1>7. ASSUME NEW T, NEW R, NEW a, T \in Seq(Tokens), Solves(T, R), a \in Start,
             Covers(T, R, fr, a, Done + 1), Viable(T, R)
      PROVE  Done + 1 \in 1 .. Len(T) /\ T[Done + 1] # t
  <2>1. PICK f : /\ T[a].type \in Opening /\ ClosingOf(T[a].type) = closing
                 /\ Reads(T, R, "term", a + 1, (Done + 1) - 1, f)
    BY <1>1, <1>4, <1>5, <1>7 DEF Covers
  <2>2. PICK j, e : Reads(T, R, "term", a, j, e)
    BY <1>7 DEF Covers, BeginsTerm
  <2>3. T[j].type = closing /\ Reads(T, R, "term", a + 1, j - 1, e)
    <3>1. OfItsKind(T, R, a, j, e)
      BY <1>7, <2>2, TermByKind
    <3>. QED
      BY <2>1, <3>1 DEF OfItsKind
  <2>4. j \in 1 .. Len(T) /\ a \in Int /\ j \in Int /\ a <= j
    BY <1>7, <2>2, ReadingSpan
  <2>5. PICK n \in Nat : (j - 1) - (a + 1) < n
    <3>1. j - a \in Nat /\ (j - 1) - (a + 1) < j - a
      BY <2>4
    <3>. QED
      BY <3>1
  <2>6. OneTerm(T, R, n)
    BY <1>7, Unambiguous
  <2>7. j - 1 = (Done + 1) - 1
    BY <2>1, <2>3, <2>5, <2>6 DEF OneTerm
  <2>8. j = Done + 1
    BY <1>6, <2>4, <2>7
  <2>. QED
    BY <1>2, <2>3, <2>4, <2>8
<1>. QED
  BY <1>1, <1>2, <1>3, <1>4, <1>7, ThrownReads

LEMMA OpExpressionThrowsReads ==
  ASSUME ReadInv, OpExpressionThrows
  PROVE  ReadInv'
<1>1. PICK fr : fr = Last(stack)
  OBVIOUS
<1>2. status = "parsing" /\ fr.pc = "loop" /\ Throw
  BY <1>1 DEF OpExpressionThrows, At
<1>3. PICK t \in Tokens : /\ Lex(t, TRUE)
                          /\ \/ t.type \in {"END", "INVALID"}
                             \/ t.type = "RPAREN" /\ (fr.exprs = <<>> \/ fr.op \notin PrefixOperator)
  BY <1>1 DEF OpExpressionThrows, lookAhead
<1>4. Done \in Nat
  BY <1>3, <1>2, Parsing, NextToken DEF ReadInv
<1>5. ASSUME NEW T, NEW R, NEW a, T \in Seq(Tokens), Solves(T, R), a \in Start,
             Covers(T, R, fr, a, Done + 1), Viable(T, R)
      PROVE  Done + 1 \in 1 .. Len(T) /\ T[Done + 1] # t
  <2>1. Done + 1 \in Int
    BY <1>4
  <2>2. \/ BeginsTerm(T, R, Done + 1)
        \/ /\ Done + 1 \in 1 .. Len(T) /\ T[Done + 1].type = "RPAREN"
           /\ fr.exprs # <<>> /\ fr.op \in PrefixOperator
    BY <1>2, <1>5, <2>1, OperandFollows
  <2>3. CASE BeginsTerm(T, R, Done + 1)
    <3>1. PICK j, e : Reads(T, R, "term", Done + 1, j, e)
      BY <2>3 DEF BeginsTerm
    <3>2. Done + 1 \in 1 .. Len(T) /\ T[Done + 1].type \in Operand \cup Opening \cup {"OP"}
      BY <1>5, <3>1, FirstToken, ReadingSpan
    <3>3. t.type \notin Operand \cup Opening \cup {"OP"}
      BY <1>3 DEF Operand, Opening
    <3>. QED
      BY <3>2, <3>3
  <2>. QED
    BY <1>3, <2>2, <2>3
<1>. QED
  BY <1>1, <1>2, <1>3, <1>5, ThrownReads

LEMMA ReadInvHolds == Spec => []ReadInv
<1>1. PrefixInv /\ Init => ReadInv
  <2> SUFFICES ASSUME PrefixInv, Init
               PROVE  ReadInv
    OBVIOUS
  <2>1. status = "parsing" /\ ~ reverted /\ read = <<>>
    BY DEF Init
  <2>2. Done + 1 = 1
    BY <2>1 DEF Done
  <2>3. TakenBack
    BY <2>1 DEF TakenBack
  <2>4. ASSUME NEW T, NEW R
        PROVE  Progress(T, R)
    <3>1. PICK fr : fr = Activation("parseExpression") /\ fr \in Records({})
      BY ActivationRecord
    <3>2. stack = Append(<<>>, fr) /\ <<>> \in Seq(Records({}))
      BY <3>1 DEF Init
    <3>3. Viable(T, R) => BeginsTerm(T, R, 1)
      BY DEF Viable, BeginsTerm
    <3>4. Covers(T, R, fr, 1, 1)
      BY <3>1, <3>3, BeginsCovers
    <3>5. Chained(T, R, <<>>, 1) /\ 1 \in Start
      BY ChainedEmpty DEF Start
    <3>6. Chained(T, R, Append(<<>>, fr), 1)
      BY <3>1, <3>2, <3>4, <3>5, ChainedAppend
    <3>. QED
      BY <2>1, <2>2, <3>2, <3>6 DEF Progress
  <2>. QED
    BY <2>3, <2>4 DEF ReadInv
<1>2. ReadInv /\ [Next]_vars => ReadInv'
  <2>1. ASSUME ReadInv, UNCHANGED vars
        PROVE  ReadInv'
    <3>1. \A T, R : Extends(T)' /\ Solves(T, R) => Progress(T, R)'
      <4>1. \A T : Extends(T)' => Extends(T)
        BY <2>1 DEF Extends, vars
      <4>2. \A T, R : Progress(T, R) => Progress(T, R)'
        BY <2>1 DEF Progress, Done, vars
      <4>. QED
        BY <2>1, <4>1, <4>2 DEF ReadInv
    <3>2. (status = "parsing" => TakenBack)'
      BY <2>1 DEF ReadInv, TakenBack, vars
    <3>3. PrefixInv'
      BY <2>1, PrefixInvKept DEF ReadInv
    <3>. QED
      BY <3>1, <3>2, <3>3 DEF ReadInv
  <2>. QED
    BY <2>1, ReadOperandReads, ReadOperatorReads, OpenBracketReads, CloseBracketReads,
       EnterOpExpressionReads, NextOperandReads, OpExpressionReturnsReads, NoExpressionReads,
       MissingBracketReads, OpExpressionThrowsReads DEF Next
<1>. QED
  BY <1>1, <1>2, PrefixInvHolds, PTL DEF Spec

----------------------------------------------------------------------------
LEMMA ReadingsAre ==
  ASSUME NEW tokens \in Seq(Tokens)
  PROVE  \E R : /\ SolvesGrammar(tokens, R)
                /\ \A e : e \in Readings(tokens) <=> Reads(tokens, R, "term", 1, Len(tokens), e)
<1>1. PICK R : SolvesGrammar(tokens, R) /\ Readings(tokens) = R[<<"term", 1, Len(tokens)>>]
  BY ReadingsExist, ReadingsSolve
<1>2. Len(tokens) \in Nat /\ 1 \in 1 .. Len(tokens) + 1 /\ Len(tokens) \in 0 .. Len(tokens)
  OBVIOUS
<1>3. <<"term", 1, Len(tokens)>> \in Spans(tokens)
  BY <1>2, SpanOf
<1>. QED
  BY <1>1, <1>3 DEF Reads

LEMMA GrammarAt ==
  ASSUME NEW tokens \in Seq(Tokens), NEW R, SolvesGrammar(tokens, R), NEW x, NEW i, NEW j,
         <<x, i, j>> \in Spans(tokens)
  PROVE  R[<<x, i, j>>] = StepGrammar(tokens, R, <<x, i, j>>)
<1>1. R = [p \in Spans(tokens) |-> StepGrammar(tokens, R, p)]
  BY DEF SolvesGrammar
<1>. QED
  BY <1>1

(* Division is the only operator of the grammar that parse does not know.  *)
LEMMA GrammarOperators ==
  \A v : v \in GrammarOperator <=> v \in PrefixOperator \/ v = "/"
BY DEF GrammarOperator, PrefixOperator

LEMMA UnsignedIsTaken ==
  ASSUME NEW tokens \in Seq(Tokens), ~ HasDivision(tokens), NEW R, NEW i \in 1 .. Len(tokens), NEW j
  PROVE  UnsignedFrom(tokens, R, i, j) = TakenFrom(tokens, R, i, j)
<1>1. tokens[i].value # "/"
  BY DEF HasDivision
<1>2. tokens[i].value \in GrammarOperator <=> tokens[i].value \in PrefixOperator
  BY <1>1, GrammarOperators
<1>. QED
  BY <1>2 DEF UnsignedFrom, TakenFrom

(* A signed operand stands between tokens of the input. *)
LEMMA SignedOperand ==
  ASSUME NEW tokens \in Seq(Tokens), NEW i \in 1 .. Len(tokens), SignAt(tokens, i)
  PROVE  /\ i + 1 \in 1 .. Len(tokens) /\ tokens[i + 1].type \in Operand
         /\ tokens[i].value \in PrefixOperator /\ tokens[i].type = "OP"
         /\ i - 1 \in 1 .. Len(tokens) /\ tokens[i - 1].type \notin Opening
<1>1. tokens[i] \in Tokens /\ DOMAIN tokens = 1 .. Len(tokens)
  OBVIOUS
<1>2. tokens[i].value \in PrefixOperator
  BY DEF SignAt, PrefixOperator
<1>. QED
  BY <1>1, <1>2, TokenKinds DEF SignAt

----------------------------------------------------------------------------
(* Where no operand follows a signed one, and there is no division, the    *)
(* grammar and parse agree: the sign is an operator with one operand.      *)
LEMMA SignedIsTaken ==
  ASSUME NEW tokens \in Seq(Tokens), NEW R, SolvesGrammar(tokens, R), ~ SignBeforeMore(tokens),
         NEW i \in 1 .. Len(tokens), SignAt(tokens, i)
  PROVE  Node(tokens[i].value, <<Leaf(tokens[i + 1].type, i + 1)>>) \in TakenFrom(tokens, R, i, i + 1)
<1>1. /\ Len(tokens) \in Nat /\ DOMAIN tokens = 1 .. Len(tokens) /\ i + 1 \in 1 .. Len(tokens)
      /\ tokens[i + 1].type \in Operand /\ tokens[i].value \in PrefixOperator /\ tokens[i].type = "OP"
  BY SignedOperand
<1>2. i + 2 \in 1 .. Len(tokens) /\ tokens[i + 2].type = "RPAREN"
  BY <1>1 DEF SignBeforeMore
<1>3. PICK k, leaf : k = i + 1 /\ k \in Int /\ leaf = Leaf(tokens[k].type, k)
  BY <1>1
<1>4. <<"term", k, k>> \in Spans(tokens) /\ <<"terms", k, k>> \in Spans(tokens)
  BY <1>1, <1>3, SpanOf
<1>5. leaf \in R[<<"term", k, k>>]
  <2>1. R[<<"term", k, k>>] = TermFrom(tokens, R, k, k)
    BY <1>3, <1>4, GrammarAt DEF StepGrammar
  <2>2. leaf \in UnsignedFrom(tokens, R, k, k)
    BY <1>1, <1>3 DEF UnsignedFrom
  <2>. QED
    BY <2>1, <2>2 DEF TermFrom
<1>6. <<leaf>> \in R[<<"terms", k, k>>]
  <2>1. R[<<"terms", k, k>>] = TermsFrom(R, k, k)
    BY <1>3, <1>4, GrammarAt DEF StepGrammar
  <2>. QED
    BY <1>5, <2>1 DEF TermsFrom
<1>7. tokens[i].type \notin Operand
  BY <1>1 DEF Operand
<1>8. TakenFrom(tokens, R, i, k) = {Node(tokens[i].value, es) : es \in R[<<"terms", k, k>>]}
  BY <1>1, <1>2, <1>3, <1>7 DEF TakenFrom
<1>. QED
  BY <1>3, <1>6, <1>8

LEMMA GrammarAgrees ==
  ASSUME NEW tokens \in Seq(Tokens), NEW R, SolvesGrammar(tokens, R),
         ~ SignBeforeMore(tokens), ~ HasDivision(tokens)
  PROVE  Solves(tokens, R)
<1>1. ASSUME NEW p \in Spans(tokens)
      PROVE  StepGrammar(tokens, R, p) = StepReadings(tokens, R, p)
  <2>1. PICK i, j : i = p[2] /\ j = p[3]
    OBVIOUS
  <2>2. /\ Len(tokens) \in Nat /\ i \in 1 .. Len(tokens) + 1 /\ j \in 0 .. Len(tokens)
        /\ p[1] \in {"term", "terms"}
    BY <2>1, Ranks
  <2>3. CASE i > j \/ p[1] = "terms"
    BY <2>1, <2>3 DEF StepGrammar, StepReadings
  <2>4. CASE i <= j /\ p[1] = "term"
    <3>1. i \in 1 .. Len(tokens)
      BY <2>2, <2>4
    <3>2. UnsignedFrom(tokens, R, i, j) = TakenFrom(tokens, R, i, j)
      BY <3>1, UnsignedIsTaken
    <3>3. SignedFrom(tokens, i, j) \subseteq TakenFrom(tokens, R, i, j)
      BY <3>1, SignedIsTaken DEF SignedFrom
    <3>4. TermFrom(tokens, R, i, j) = TakenFrom(tokens, R, i, j)
      BY <3>2, <3>3, Zenon DEF TermFrom
    <3>. QED
      BY <2>1, <2>4, <3>4 DEF StepGrammar, StepReadings
  <2>. QED
    BY <2>2, <2>3, <2>4
<1>2. R = [p \in Spans(tokens) |-> StepGrammar(tokens, R, p)]
  BY DEF SolvesGrammar
<1>3. [p \in Spans(tokens) |-> StepGrammar(tokens, R, p)] = [p \in Spans(tokens) |-> StepReadings(tokens, R, p)]
  BY <1>1
<1>. QED
  BY <1>2, <1>3, Zenon DEF Solves

(* parse knows the operators of what it reads. *)
KnownOperators(tokens, i, j) ==
  \A k \in i .. j : tokens[k].type = "OP" => tokens[k].value \in PrefixOperator

LEMMA ReadingsHaveKnownOperators ==
  ASSUME NEW tokens \in Seq(Tokens), NEW R, Solves(tokens, R)
  PROVE  \A x, i, j, e : Reads(tokens, R, x, i, j, e) => KnownOperators(tokens, i, j)
<1>1. PICK D : D = {n \in Nat : \A x, i, j, e :
                                  Reads(tokens, R, x, i, j, e) /\ j - i < n => KnownOperators(tokens, i, j)}
  OBVIOUS
<1>2. 0 \in D
  BY <1>1, ReadingSpan
<1>3. ASSUME NEW n \in Nat, n \in D
      PROVE  n + 1 \in D
  <2>1. ASSUME NEW i, NEW j, NEW e, Reads(tokens, R, "term", i, j, e), j - i < n + 1
        PROVE  KnownOperators(tokens, i, j)
    <3>1. i \in 1 .. Len(tokens) /\ j \in i .. Len(tokens) /\ Len(tokens) \in Nat
      BY <2>1, ReadingSpan
    <3>2. CASE tokens[i].type \in Operand /\ i = j
      BY <3>1, <3>2 DEF KnownOperators, Operand
    <3>3. ASSUME tokens[i].value \in PrefixOperator,
                 NEW es, Reads(tokens, R, "terms", i + 1, j, es)
          PROVE  KnownOperators(tokens, i, j)
      <4>1. KnownOperators(tokens, i + 1, j)
        BY <1>1, <1>3, <2>1, <3>1, <3>3
      <4>. QED
        BY <3>1, <3>3, <4>1 DEF KnownOperators
    <3>4. CASE /\ tokens[i].type \in Opening /\ tokens[j].type = ClosingOf(tokens[i].type)
               /\ Reads(tokens, R, "term", i + 1, j - 1, e)
      <4>1. KnownOperators(tokens, i + 1, j - 1)
        BY <1>1, <1>3, <2>1, <3>1, <3>4
      <4>2. tokens[i].type # "OP" /\ tokens[j].type # "OP"
        BY <3>4 DEF Opening, ClosingOf
      <4>. QED
        BY <3>1, <4>1, <4>2 DEF KnownOperators
    <3>. QED
      BY <2>1, <3>2, <3>3, <3>4, TermRule
  <2>2. ASSUME NEW i, NEW j, NEW es, Reads(tokens, R, "terms", i, j, es), j - i < n + 1
        PROVE  KnownOperators(tokens, i, j)
    <3>1. CASE \E e : Reads(tokens, R, "term", i, j, e)
      BY <2>1, <2>2, <3>1
    <3>2. ASSUME NEW k \in Int, NEW e, NEW rest, i <= k, k < j,
                 Reads(tokens, R, "term", i, k, e), Reads(tokens, R, "terms", k + 1, j, rest)
          PROVE  KnownOperators(tokens, i, j)
      <4>1. i \in Int /\ j \in Int
        BY <2>2, ReadingSpan
      <4>2. KnownOperators(tokens, i, k) /\ KnownOperators(tokens, k + 1, j)
        BY <1>1, <1>3, <2>2, <3>2, <4>1
      <4>. QED
        BY <3>2, <4>1, <4>2 DEF KnownOperators
    <3>. QED
      BY <2>2, <3>1, <3>2, TermsRule
  <2>3. \A x, i, j, e : Reads(tokens, R, x, i, j, e) => x \in {"term", "terms"}
    BY ReadingSpan
  <2>. QED
    BY <1>1, <2>1, <2>2, <2>3
<1>4. Nat \subseteq D
  BY <1>2, <1>3, NaturalInduction
<1>. SUFFICES ASSUME NEW x, NEW i, NEW j, NEW e, Reads(tokens, R, x, i, j, e)
              PROVE  KnownOperators(tokens, i, j)
  OBVIOUS
<1>5. i \in Int /\ j \in Int /\ i <= j
  BY ReadingSpan
<1>6. j - i + 1 \in D
  BY <1>4, <1>5
<1>7. j - i < j - i + 1
  BY <1>5
<1>. QED
  BY <1>1, <1>6, <1>7

(* What parse accepts is an expression of the grammar in parser.h, and it  *)
(* returns the only term of it, for every set of operators and every       *)
(* length of the input, unless a sign stands in front of an operand that   *)
(* others follow.                                                          *)
THEOREM PrefixIsRead == Spec => []ReadsPrefix
<1>1. ReadInv => ReadsPrefix
  <2> SUFFICES ASSUME ReadInv, status = "returned", ~ SignBeforeMore(read)
               PROVE  Readings(read) = {result}
    BY DEF ReadsPrefix
  <2>1. read \in Seq(Tokens)
    BY DEF ReadInv, PrefixInv, PrefixTypes
  <2>2. Extends(read)
    BY <2>1 DEF Extends
  <2>3. ~ HasDivision(read)
    <3>1. PICK R : Solves(read, R)
      BY <2>1, ReadingsExist
    <3>2. Reads(read, R, "term", 1, Len(read), result)
      BY <2>2, <3>1 DEF ReadInv, Progress
    <3>3. KnownOperators(read, 1, Len(read))
      BY <2>1, <3>1, <3>2, ReadingsHaveKnownOperators
    <3>4. ASSUME NEW k \in 1 .. Len(read), read[k].value = "/"
          PROVE  FALSE
      <4>1. read[k] \in Tokens
        BY <2>1
      <4>2. read[k].type = "OP"
        <5>1. \A type : Token(type).value # "/"
          BY DEF Token
        <5>2. \/ \E name \in Operators : read[k] = OpToken(name)
              \/ \E type : read[k] = Token(type)
          BY <4>1 DEF Tokens, InputTokens
        <5>3. \A name : OpToken(name).type = "OP"
          BY DEF OpToken
        <5>4. CASE \E name \in Operators : read[k] = OpToken(name)
          BY <5>3, <5>4, Zenon
        <5>5. CASE \E type : read[k] = Token(type)
          BY <3>4, <5>1, <5>5, Zenon
        <5>. QED
          BY <5>2, <5>4, <5>5
      <4>. QED
        BY <3>3, <3>4, <4>2 DEF KnownOperators, PrefixOperator
    <3>. QED
      BY <2>1, <3>4 DEF HasDivision
  <2>4. PICK R : /\ SolvesGrammar(read, R)
                 /\ \A e : e \in Readings(read) <=> Reads(read, R, "term", 1, Len(read), e)
    BY <2>1, ReadingsAre
  <2>5. Solves(read, R)
    BY <2>1, <2>3, <2>4, GrammarAgrees
  <2>6. Reads(read, R, "term", 1, Len(read), result)
    BY <2>2, <2>5 DEF ReadInv, Progress
  <2>7. ASSUME NEW e, Reads(read, R, "term", 1, Len(read), e)
        PROVE  e = result
    <3>1. OneTerm(read, R, Len(read))
      BY <2>1, <2>5, Unambiguous
    <3>2. Len(read) - 1 < Len(read)
      BY <2>1
    <3>. QED
      BY <2>6, <2>7, <3>1, <3>2 DEF OneTerm
  <2>. QED
    BY <2>4, <2>6, <2>7
<1>. QED
  BY <1>1, ReadInvHolds, PTL

----------------------------------------------------------------------------
(* Every expression of the grammar without a division is one that parse    *)
(* accepts: a sign in front of an operand takes the operands that follow.  *)

LEMMA TermOfGrammar ==
  ASSUME NEW tokens \in Seq(Tokens), ~ HasDivision(tokens), NEW R, SolvesGrammar(tokens, R),
         NEW i, NEW j, NEW e, Reads(tokens, R, "term", i, j, e)
  PROVE  /\ Len(tokens) \in Nat /\ i \in 1 .. Len(tokens) /\ j \in i .. Len(tokens)
         /\ \/ tokens[i].type \in Operand /\ i = j
            \/ /\ tokens[i].value \in PrefixOperator
               /\ j + 1 \in 1 .. Len(tokens) /\ tokens[j + 1].type = "RPAREN"
               /\ \E es : Reads(tokens, R, "terms", i + 1, j, es)
            \/ /\ tokens[i].type \in Opening /\ tokens[j].type = ClosingOf(tokens[i].type)
               /\ Reads(tokens, R, "term", i + 1, j - 1, e)
            \/ j = i + 1 /\ SignAt(tokens, i)
<1>1. /\ Len(tokens) \in Nat /\ DOMAIN tokens = 1 .. Len(tokens)
      /\ i \in 1 .. Len(tokens) + 1 /\ j \in 0 .. Len(tokens)
      /\ <<"term", i, j>> \in Spans(tokens) /\ e \in R[<<"term", i, j>>]
  BY SpanOf DEF Reads
<1>2. e \in StepGrammar(tokens, R, <<"term", i, j>>)
  BY <1>1, GrammarAt
<1>3. ~ (i > j)
  BY <1>2 DEF StepGrammar
<1>4. i \in 1 .. Len(tokens) /\ j \in i .. Len(tokens)
  BY <1>1, <1>3
<1>5. e \in TermFrom(tokens, R, i, j)
  BY <1>2, <1>3 DEF StepGrammar
<1>6. e \in TakenFrom(tokens, R, i, j) \/ e \in SignedFrom(tokens, i, j)
  BY <1>4, <1>5, UnsignedIsTaken DEF TermFrom
<1>7. /\ <<"terms", i + 1, j>> \in Spans(tokens)
      /\ <<"term", i + 1, j - 1>> \in Spans(tokens)
  BY <1>1, <1>4, SpanOf
<1>8. CASE e \in SignedFrom(tokens, i, j)
  BY <1>1, <1>4, <1>8 DEF SignedFrom
<1>9. CASE e \in TakenFrom(tokens, R, i, j)
  <2>1. CASE tokens[i].type \in Operand
    BY <1>1, <1>4, <1>9, <2>1 DEF TakenFrom
  <2>2. CASE tokens[i].type \notin Operand /\ tokens[i].value \in PrefixOperator
    <3>1. j + 1 \in 1 .. Len(tokens) /\ tokens[j + 1].type = "RPAREN"
      BY <1>1, <1>9, <2>2 DEF TakenFrom
    <3>2. \E es : es \in R[<<"terms", i + 1, j>>]
      BY <1>1, <1>9, <2>2, <3>1 DEF TakenFrom
    <3>. QED
      BY <1>1, <1>4, <1>7, <2>2, <3>1, <3>2 DEF Reads
  <2>3. CASE tokens[i].type \notin Operand /\ tokens[i].value \notin PrefixOperator
    BY <1>1, <1>4, <1>7, <1>9, <2>3 DEF TakenFrom, Reads
  <2>. QED
    BY <2>1, <2>2, <2>3
<1>. QED
  BY <1>1, <1>4, <1>6, <1>8, <1>9

LEMMA TermsOfGrammar ==
  ASSUME NEW tokens \in Seq(Tokens), NEW R, SolvesGrammar(tokens, R),
         NEW i, NEW j, NEW es, Reads(tokens, R, "terms", i, j, es)
  PROVE  \/ \E e : Reads(tokens, R, "term", i, j, e)
         \/ \E k, e, rest : /\ k \in Int /\ i <= k /\ k < j
                            /\ Reads(tokens, R, "term", i, k, e)
                            /\ Reads(tokens, R, "terms", k + 1, j, rest)
<1>1. /\ Len(tokens) \in Nat /\ i \in 1 .. Len(tokens) + 1 /\ j \in 0 .. Len(tokens)
      /\ <<"terms", i, j>> \in Spans(tokens) /\ es \in R[<<"terms", i, j>>]
  BY SpanOf DEF Reads
<1>2. es \in StepGrammar(tokens, R, <<"terms", i, j>>)
  BY <1>1, GrammarAt
<1>3. ~ (i > j)
  BY <1>2 DEF StepGrammar
<1>4. es \in TermsFrom(R, i, j)
  BY <1>2, <1>3 DEF StepGrammar
<1>5. CASE \E e \in R[<<"term", i, j>>] : es = <<e>>
  BY <1>1, <1>5, SpanOf DEF Reads
<1>6. ASSUME NEW k \in i .. j - 1, es \in Prepended(R[<<"term", i, k>>], R[<<"terms", k + 1, j>>])
      PROVE  /\ k \in Int /\ i <= k /\ k < j
             /\ \E e, rest : /\ Reads(tokens, R, "term", i, k, e)
                             /\ Reads(tokens, R, "terms", k + 1, j, rest)
  <2>1. \E e \in R[<<"term", i, k>>], rest \in R[<<"terms", k + 1, j>>] : es = Cons(e, rest)
    BY <1>6, PrependedTerms
  <2>2. k \in Int /\ i <= k /\ k < j
    BY <1>1, <1>6
  <2>3. k \in 0 .. Len(tokens) /\ k + 1 \in 1 .. Len(tokens) + 1
    BY <1>1, <2>2
  <2>4. <<"term", i, k>> \in Spans(tokens) /\ <<"terms", k + 1, j>> \in Spans(tokens)
    BY <1>1, <2>3, SpanOf
  <2>. QED
    BY <2>1, <2>2, <2>4 DEF Reads
<1>7. \/ \E e \in R[<<"term", i, j>>] : es = <<e>>
      \/ \E k \in i .. j - 1 : es \in Prepended(R[<<"term", i, k>>], R[<<"terms", k + 1, j>>])
  BY <1>4 DEF TermsFrom
<1>. QED
  BY <1>5, <1>6, <1>7

(* An operand behind a sign begins what the sign takes. *)
LEMMA SignTakesMore ==
  ASSUME NEW tokens \in Seq(Tokens), NEW Q, Solves(tokens, Q),
         NEW i \in 1 .. Len(tokens), SignAt(tokens, i), NEW j \in Int,
         j + 1 \in 1 .. Len(tokens), tokens[j + 1].type = "RPAREN",
         j = i + 1 \/ (i + 1 < j /\ \E rest : Reads(tokens, Q, "terms", i + 2, j, rest))
  PROVE  \E es : Reads(tokens, Q, "terms", i, j, es)
<1>1. PICK k, leaf : k = i + 1 /\ k \in Int /\ leaf = Leaf(tokens[k].type, k)
  OBVIOUS
<1>2. /\ k \in 1 .. Len(tokens) /\ tokens[k].type \in Operand /\ Len(tokens) \in Nat
      /\ tokens[i].value \in PrefixOperator
  BY <1>1, SignedOperand
<1>3. Reads(tokens, Q, "term", k, k, leaf)
  <2>1. k \in k .. Len(tokens)
    BY <1>1, <1>2
  <2>. QED
    BY <1>1, <1>2, <2>1, TermRule
<1>4. \E es : Reads(tokens, Q, "terms", k, j, es)
  <2>1. CASE j = i + 1
    <3>1. j = k
      BY <1>1, <2>1
    <3>2. Reads(tokens, Q, "terms", k, k, <<leaf>>)
      BY <1>3, TermsRule
    <3>. QED
      BY <3>1, <3>2
  <2>2. ASSUME i + 1 < j, NEW rest, Reads(tokens, Q, "terms", i + 2, j, rest)
        PROVE  \E es : Reads(tokens, Q, "terms", k, j, es)
    <3>1. k + 1 = i + 2 /\ k <= k /\ k < j
      BY <1>1, <2>2
    <3>2. Reads(tokens, Q, "terms", k + 1, j, rest)
      BY <2>2, <3>1
    <3>3. \E l, e, more : /\ l \in Int /\ k <= l /\ l < j
                          /\ Reads(tokens, Q, "term", k, l, e)
                          /\ Reads(tokens, Q, "terms", l + 1, j, more)
                          /\ Cons(leaf, rest) = Cons(e, more)
      BY <1>1, <1>3, <3>1, <3>2
    <3>4. Reads(tokens, Q, "terms", k, j, Cons(leaf, rest))
      BY <3>3, TermsRule
    <3>. QED
      BY <3>4
  <2>. QED
    BY <2>1, <2>2
<1>5. PICK es : Reads(tokens, Q, "terms", i + 1, j, es)
  BY <1>1, <1>4
<1>6. j \in i .. Len(tokens)
  BY <1>2
<1>7. Reads(tokens, Q, "term", i, j, Node(tokens[i].value, es))
  BY <1>2, <1>5, <1>6, TermRule
<1>. QED
  BY <1>7, TermsRule

TakenTerms(tokens, R, Q, n) ==
  /\ \A i, j, e : Reads(tokens, R, "term", i, j, e) /\ j - i < n /\ ~ (j = i + 1 /\ SignAt(tokens, i))
                    => \E f : Reads(tokens, Q, "term", i, j, f)
  /\ \A i, j, es : /\ Reads(tokens, R, "terms", i, j, es) /\ j - i < n
                   /\ j + 1 \in 1 .. Len(tokens) /\ tokens[j + 1].type = "RPAREN"
                   => \E fs : Reads(tokens, Q, "terms", i, j, fs)

LEMMA TakenTermsStep ==
  ASSUME NEW tokens \in Seq(Tokens), ~ HasDivision(tokens),
         NEW R, SolvesGrammar(tokens, R), NEW Q, Solves(tokens, Q),
         NEW n \in Nat, TakenTerms(tokens, R, Q, n)
  PROVE  TakenTerms(tokens, R, Q, n + 1)
<1>1. ASSUME NEW i, NEW j, NEW e, Reads(tokens, R, "term", i, j, e), j - i < n + 1,
             ~ (j = i + 1 /\ SignAt(tokens, i))
      PROVE  \E f : Reads(tokens, Q, "term", i, j, f)
  <2>1. Len(tokens) \in Nat /\ i \in 1 .. Len(tokens) /\ j \in i .. Len(tokens)
    BY <1>1, TermOfGrammar
  <2>2. CASE tokens[i].type \in Operand /\ i = j
    <3>1. Reads(tokens, Q, "term", i, j, Leaf(tokens[i].type, i))
      BY <2>1, <2>2, TermRule
    <3>. QED
      BY <3>1
  <2>3. ASSUME tokens[i].value \in PrefixOperator,
               j + 1 \in 1 .. Len(tokens), tokens[j + 1].type = "RPAREN",
               NEW es, Reads(tokens, R, "terms", i + 1, j, es)
        PROVE  \E f : Reads(tokens, Q, "term", i, j, f)
    <3>1. j - (i + 1) < n
      BY <1>1, <2>1
    <3>2. PICK fs : Reads(tokens, Q, "terms", i + 1, j, fs)
      BY <2>3, <3>1 DEF TakenTerms
    <3>3. Reads(tokens, Q, "term", i, j, Node(tokens[i].value, fs))
      BY <2>1, <2>3, <3>2, TermRule
    <3>. QED
      BY <3>3
  <2>4. CASE /\ tokens[i].type \in Opening /\ tokens[j].type = ClosingOf(tokens[i].type)
             /\ Reads(tokens, R, "term", i + 1, j - 1, e)
    <3>1. (j - 1) - (i + 1) < n
      BY <1>1, <2>1
    <3>2. i + 1 \in 1 .. Len(tokens)
      BY <2>4, TermOfGrammar
    <3>3. ~ SignAt(tokens, i + 1)
      <4>1. (i + 1) - 1 = i
        BY <2>1
      <4>. QED
        BY <2>4, <3>2, <4>1, SignedOperand
    <3>4. PICK f : Reads(tokens, Q, "term", i + 1, j - 1, f)
      BY <2>4, <3>1, <3>3 DEF TakenTerms
    <3>5. Reads(tokens, Q, "term", i, j, f)
      BY <2>1, <2>4, <3>4, TermRule
    <3>. QED
      BY <3>5
  <2>5. \/ tokens[i].type \in Operand /\ i = j
        \/ /\ tokens[i].value \in PrefixOperator
           /\ j + 1 \in 1 .. Len(tokens) /\ tokens[j + 1].type = "RPAREN"
           /\ \E es : Reads(tokens, R, "terms", i + 1, j, es)
        \/ /\ tokens[i].type \in Opening /\ tokens[j].type = ClosingOf(tokens[i].type)
           /\ Reads(tokens, R, "term", i + 1, j - 1, e)
    BY <1>1, TermOfGrammar
  <2>. QED
    BY <2>2, <2>3, <2>4, <2>5
<1>2. ASSUME NEW i, NEW j, NEW es, Reads(tokens, R, "terms", i, j, es), j - i < n + 1,
             j + 1 \in 1 .. Len(tokens), tokens[j + 1].type = "RPAREN"
      PROVE  \E fs : Reads(tokens, Q, "terms", i, j, fs)
  <2>1. ASSUME NEW e, Reads(tokens, R, "term", i, j, e)
        PROVE  \E fs : Reads(tokens, Q, "terms", i, j, fs)
    <3>1. CASE j = i + 1 /\ SignAt(tokens, i)
      <4>1. i \in 1 .. Len(tokens) /\ j \in i .. Len(tokens) /\ Len(tokens) \in Nat
        BY <2>1, TermOfGrammar
      <4>. QED
        BY <1>2, <3>1, <4>1, SignTakesMore
    <3>2. CASE ~ (j = i + 1 /\ SignAt(tokens, i))
      <4>1. PICK f : Reads(tokens, Q, "term", i, j, f)
        BY <1>1, <1>2, <2>1, <3>2
      <4>. QED
        BY <4>1, TermsRule
    <3>. QED
      BY <3>1, <3>2
  <2>2. ASSUME NEW k \in Int, NEW e, NEW rest, i <= k, k < j,
               Reads(tokens, R, "term", i, k, e), Reads(tokens, R, "terms", k + 1, j, rest)
        PROVE  \E fs : Reads(tokens, Q, "terms", i, j, fs)
    <3>1. i \in 1 .. Len(tokens) /\ Len(tokens) \in Nat
      BY <2>2, TermOfGrammar
    <3>2. j \in Int
      BY <1>2, <3>1, SpanOf DEF Reads
    <3>3. PICK fs : Reads(tokens, Q, "terms", k + 1, j, fs)
      <4>1. j - (k + 1) < n
        BY <1>2, <2>2, <3>1, <3>2
      <4>. QED
        BY <1>2, <2>2, <4>1 DEF TakenTerms
    <3>4. CASE k = i + 1 /\ SignAt(tokens, i)
      <4>1. k + 1 = i + 2 /\ i + 1 < j
        BY <2>2, <3>1, <3>4
      <4>. QED
        BY <1>2, <3>1, <3>2, <3>3, <3>4, <4>1, SignTakesMore
    <3>5. CASE ~ (k = i + 1 /\ SignAt(tokens, i))
      <4>1. k - i < n + 1
        BY <1>2, <2>2, <3>1, <3>2
      <4>2. PICK f : Reads(tokens, Q, "term", i, k, f)
        BY <1>1, <2>2, <3>5, <4>1
      <4>3. Reads(tokens, Q, "terms", i, j, Cons(f, fs))
        BY <2>2, <3>3, <4>2, TermsRule
      <4>. QED
        BY <4>3
    <3>. QED
      BY <3>4, <3>5
  <2>. QED
    BY <1>2, <2>1, <2>2, TermsOfGrammar
<1>. QED
  BY <1>1, <1>2 DEF TakenTerms

LEMMA GrammarIsTaken ==
  ASSUME NEW tokens \in Seq(Tokens), ~ HasDivision(tokens),
         NEW R, SolvesGrammar(tokens, R), NEW Q, Solves(tokens, Q),
         NEW e, Reads(tokens, R, "term", 1, Len(tokens), e)
  PROVE  Viable(tokens, Q)
<1>1. PICK D : D = {n \in Nat : TakenTerms(tokens, R, Q, n)}
  OBVIOUS
<1>2. 0 \in D
  <2>1. \A x, i, j, t : Reads(tokens, R, x, i, j, t) => i \in Int /\ j \in Int /\ i <= j
    <3> SUFFICES ASSUME NEW x, NEW i, NEW j, NEW t, Reads(tokens, R, x, i, j, t)
                 PROVE  i \in Int /\ j \in Int /\ i <= j
      OBVIOUS
    <3>1. i \in Int /\ j \in Int /\ t \in R[<<x, i, j>>] /\ <<x, i, j>> \in Spans(tokens)
      BY SpanOf DEF Reads
    <3>2. ~ (i > j)
      BY <3>1, GrammarAt DEF StepGrammar
    <3>. QED
      BY <3>1, <3>2
  <2>2. \A i, j : i \in Int /\ j \in Int /\ i <= j => ~ (j - i < 0)
    OBVIOUS
  <2>. QED
    BY <1>1, <2>1, <2>2 DEF TakenTerms
<1>3. \A n \in Nat : n \in D => n + 1 \in D
  BY <1>1, TakenTermsStep
<1>4. Nat \subseteq D
  BY <1>2, <1>3, NaturalInduction
<1>5. Len(tokens) \in Nat /\ 1 \in 1 .. Len(tokens)
  BY TermOfGrammar
<1>6. TakenTerms(tokens, R, Q, Len(tokens)) /\ Len(tokens) - 1 < Len(tokens)
  BY <1>1, <1>4, <1>5
<1>7. ~ SignAt(tokens, 1)
  BY <1>5, SignedOperand
<1>. QED
  BY <1>6, <1>7 DEF TakenTerms, Viable

(* parse throws only where no expression of the grammar in parser.h begins *)
(* with what it has read, or at the end of an input that is none, unless   *)
(* there is a division, which it does not know.                            *)
THEOREM OnlyErrorsThrow == Spec => []ThrowsOnlyErrors
<1>1. ReadInv => ThrowsOnlyErrors
  <2> SUFFICES ASSUME ReadInv, status = "threw",
                      NEW T, T = IF input = "end" THEN read ELSE Completed(read),
                      ~ HasDivision(T)
               PROVE  Readings(T) = {}
    BY DEF ThrowsOnlyErrors
  <2>1. read \in Seq(Tokens)
    BY DEF ReadInv, PrefixInv, PrefixTypes
  <2>2. Extends(T)
    <3>1. CASE input = "end"
      BY <2>1, <3>1 DEF Extends
    <3>2. CASE input # "end"
      <4>1. \A type \in {"VAR", "LPAREN", "RPAREN", "RSQRBRACK"} : Token(type) \in Tokens
        BY DEF Tokens, InputTokens
      <4>. QED
        BY <2>1, <3>2, <4>1, CompletedExtends DEF Extends
    <3>. QED
      BY <3>1, <3>2
  <2>3. T \in Seq(Tokens)
    BY <2>2 DEF Extends
  <2>4. PICK R : /\ SolvesGrammar(T, R)
                 /\ \A e : e \in Readings(T) <=> Reads(T, R, "term", 1, Len(T), e)
    BY <2>3, ReadingsAre
  <2>5. PICK Q : Solves(T, Q)
    BY <2>3, ReadingsExist
  <2>6. ~ Viable(T, Q)
    BY <2>2, <2>5 DEF ReadInv, Progress
  <2>7. \A e : ~ Reads(T, R, "term", 1, Len(T), e)
    BY <2>3, <2>4, <2>5, <2>6, GrammarIsTaken
  <2>. QED
    BY <2>4, <2>7
<1>. QED
  BY <1>1, ReadInvHolds, PTL
=============================================================================
