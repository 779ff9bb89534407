---------------------------- MODULE ParserLemmas ----------------------------
(***************************************************************************)
(* What the proofs about the two parsers share: facts about sequences used *)
(* as stacks, the top last (the top and the rest, and how many elements    *)
(* are in a set), an induction on the natural numbers, and how a beginning *)
(* of an input is completed.                                               *)
(***************************************************************************)
EXTENDS InfixGrammar, TLAPS, FiniteSetTheorems, SequenceTheorems, WellFoundedInduction

LEMMA TopOfStack ==
  ASSUME NEW S, NEW s \in Seq(S), s # <<>>
  PROVE  /\ Len(s) \in Nat \ {0}
         /\ Last(s) = s[Len(s)] /\ Last(s) \in S
         /\ Front(s) \in Seq(S) /\ Len(Front(s)) = Len(s) - 1
         /\ \A i \in 1 .. Len(s) - 1 : Front(s)[i] = s[i]
<1>1. Len(s) \in Nat \ {0}
  BY EmptySeq
<1>2. Last(s) = s[Len(s)] /\ Last(s) \in S
  BY <1>1 DEF Last
<1>3. \A i \in 1 .. Len(s) - 1 : s[i] \in S
  BY <1>1
<1>4. ASSUME NEW n \in Nat, n = Len(s) - 1
      PROVE  /\ SubSeq(s, 1, n) \in Seq(S)
             /\ Len(SubSeq(s, 1, n)) = n
             /\ \A i \in 1 .. n : SubSeq(s, 1, n)[i] = s[i]
  <2>1. \A i \in 1 .. n : s[i] \in S
    BY <1>3, <1>4
  <2>2. /\ SubSeq(s, 1, n) \in Seq(S)
        /\ Len(SubSeq(s, 1, n)) = IF 1 <= n THEN n - 1 + 1 ELSE 0
        /\ \A i \in 1 .. n - 1 + 1 : SubSeq(s, 1, n)[i] = s[1 + i - 1]
    BY <1>4, <2>1, SubSeqProperties, 1 \in Int, n \in Int
  <2>. QED
    BY <2>2
<1>5. PICK n : n = Len(s) - 1 /\ n \in Nat
  BY <1>1
<1>6. Front(s) = SubSeq(s, 1, n)
  BY <1>5 DEF Front
<1>. QED
  BY <1>1, <1>2, <1>4, <1>5, <1>6

LEMMA PopPush ==
  ASSUME NEW S, NEW s \in Seq(S), s # <<>>
  PROVE  s = Append(Front(s), Last(s))
<1>1. Front(s) \in Seq(S) /\ Last(s) \in S
  BY TopOfStack
<1>2. PICK t : t = Append(Front(s), Last(s))
  OBVIOUS
<1>3. t \in Seq(S) /\ Len(t) = Len(s)
  BY <1>1, <1>2, TopOfStack
<1>4. \A i \in 1 .. Len(s) : t[i] = s[i]
  BY <1>1, <1>2, TopOfStack
<1>. QED
  BY <1>2, <1>3, <1>4, SeqEqual

LEMMA PushPop ==
  ASSUME NEW S, NEW s \in Seq(S), NEW e \in S
  PROVE  Append(s, e) # <<>> /\ Front(Append(s, e)) = s /\ Last(Append(s, e)) = e
<1>1. PICK t : t = Append(s, e)
  OBVIOUS
<1>2. /\ t \in Seq(S) /\ t # <<>> /\ Len(s) \in Nat /\ Len(t) = Len(s) + 1 /\ t[Len(s) + 1] = e
      /\ \A i \in 1 .. Len(s) : t[i] = s[i]
  BY <1>1
<1>3. Front(t) \in Seq(S) /\ Len(Front(t)) = Len(s) /\ Last(t) = e
  BY <1>2, TopOfStack
<1>4. \A i \in 1 .. Len(s) : Front(t)[i] = s[i]
  BY <1>2, TopOfStack
<1>5. Front(t) = s
  BY <1>3, <1>4, SeqEqual
<1>. QED
  BY <1>1, <1>2, <1>3, <1>5

(* The top becomes e. *)
LEMMA TopChanged ==
  ASSUME NEW S, NEW s \in Seq(S), s # <<>>, NEW e \in S
  PROVE  [s EXCEPT ![Len(s)] = e] = Append(Front(s), e)
<1>1. PICK n, f : n = Len(s) /\ f = Front(s)
  OBVIOUS
<1>2. /\ n \in Nat \ {0} /\ f \in Seq(S) /\ Len(f) = n - 1
      /\ \A i \in 1 .. n - 1 : f[i] = s[i]
  BY <1>1, TopOfStack
<1>3. PICK t, r : t = [s EXCEPT ![n] = e] /\ r = Append(f, e)
  OBVIOUS
<1>4. /\ t \in Seq(S) /\ Len(t) = n /\ t[n] = e
      /\ \A i \in 1 .. n - 1 : t[i] = s[i]
  BY <1>1, <1>2, <1>3
<1>5. /\ r \in Seq(S) /\ Len(r) = n /\ r[n] = e
      /\ \A i \in 1 .. n - 1 : r[i] = f[i]
  BY <1>2, <1>3
<1>6. \A i \in 1 .. n : t[i] = r[i]
  BY <1>2, <1>4, <1>5
<1>7. t = r
  BY <1>4, <1>5, <1>6, SeqEqual
<1>. QED
  BY <1>1, <1>3, <1>7

(* How many elements of a stack are in T. *)
Positions(s, T) == {i \in 1 .. Len(s) : s[i] \in T}
Count(s, T)     == Cardinality(Positions(s, T))
One(e, T)       == IF e \in T THEN 1 ELSE 0

LEMMA CountType ==
  ASSUME NEW S, NEW s \in Seq(S), NEW T
  PROVE  Count(s, T) \in Nat /\ IsFiniteSet(Positions(s, T))
<1>1. IsFiniteSet(1 .. Len(s))
  BY FS_Interval
<1>2. IsFiniteSet(Positions(s, T))
  BY <1>1, FS_Subset DEF Positions
<1>. QED
  BY <1>2, FS_CardinalityType DEF Count

LEMMA CountEmpty == \A T : Count(<<>>, T) = 0
<1>1. \A T : Positions(<<>>, T) = {}
  BY DEF Positions
<1>. QED
  BY <1>1, FS_EmptySet DEF Count

LEMMA CountFound ==
  ASSUME NEW S, NEW s \in Seq(S), NEW T, NEW i \in 1 .. Len(s), s[i] \in T
  PROVE  Count(s, T) > 0
<1>1. Positions(s, T) # {}
  BY DEF Positions
<1>2. Count(s, T) # 0
  BY <1>1, CountType, FS_EmptySet DEF Count
<1>. QED
  BY <1>2, CountType

LEMMA CountAppend ==
  ASSUME NEW S, NEW s \in Seq(S), NEW e \in S, NEW T
  PROVE  Count(Append(s, e), T) = Count(s, T) + One(e, T)
<1>1. PICK t : t = Append(s, e)
  OBVIOUS
<1>2. Len(s) \in Nat /\ Len(t) = Len(s) + 1 /\ t[Len(s) + 1] = e /\ \A i \in 1 .. Len(s) : t[i] = s[i]
  BY <1>1
<1>3. IsFiniteSet(Positions(s, T)) /\ Len(s) + 1 \notin Positions(s, T) /\ Count(s, T) \in Nat
  BY <1>2, CountType DEF Positions
<1>4. CASE e \in T
  <2>1. Positions(t, T) = Positions(s, T) \cup {Len(s) + 1}
    BY <1>2, <1>4 DEF Positions
  <2>. QED
    BY <1>1, <1>3, <1>4, <2>1, FS_AddElement DEF Count, One
<1>5. CASE e \notin T
  <2>1. Positions(t, T) = Positions(s, T)
    BY <1>2, <1>5 DEF Positions
  <2>. QED
    BY <1>1, <1>3, <1>5, <2>1 DEF Count, One
<1>. QED
  BY <1>4, <1>5

LEMMA CountFront ==
  ASSUME NEW S, NEW s \in Seq(S), s # <<>>, NEW T
  PROVE  Count(s, T) = Count(Front(s), T) + One(Last(s), T)
<1>1. Front(s) \in Seq(S) /\ Last(s) \in S
  BY TopOfStack
<1>2. s = Append(Front(s), Last(s))
  BY PopPush
<1>3. Count(Append(Front(s), Last(s)), T) = Count(Front(s), T) + One(Last(s), T)
  BY <1>1, CountAppend
<1>. QED
  BY <1>2, <1>3

----------------------------------------------------------------------------
(* A set with 0 and with the successor of each of its numbers has them all. *)
LEMMA NaturalInduction ==
  ASSUME NEW D, 0 \in D, \A n \in Nat : n \in D => n + 1 \in D
  PROVE  Nat \subseteq D
<1> SUFFICES ASSUME Nat \ D # {}
             PROVE  FALSE
  OBVIOUS
<1>1. PICK R : R = OpToRel(<, Nat)
  OBVIOUS
<1>2. IsWellFoundedOn(R, Nat)
  BY <1>1, NatLessThanWellFounded
<1>3. PICK x \in Nat \ D : \A y \in Nat \ D : ~ (<<y, x>> \in R)
  BY <1>2, WFMin
<1>4. x \in Nat \ {0} /\ x - 1 \in Nat /\ x - 1 < x /\ x = (x - 1) + 1
  BY <1>3
<1>5. <<x - 1, x>> \in R
  BY <1>1, <1>4 DEF OpToRel
<1>. QED
  BY <1>3, <1>4, <1>5

----------------------------------------------------------------------------
(* How a beginning of an input is completed. *)

(* The equation of the recursive function in Completed. *)
OpenStep(tokens, open, k) ==
  IF k = 0 THEN <<>>
  ELSE IF tokens[k].type \in Opening THEN <<ClosingOf(tokens[k].type)>> \o open[k - 1]
  ELSE IF tokens[k].type \in Closing /\ open[k - 1] # <<>> THEN Tail(open[k - 1])
  ELSE open[k - 1]

OpenUpTo(tokens, open, n) == open = [k \in 0 .. n |-> OpenStep(tokens, open, k)]

LEMMA OpenExists ==
  ASSUME NEW tokens
  PROVE  \A n \in Nat : \E open : OpenUpTo(tokens, open, n)
<1>1. PICK D : D = {n \in Nat : \E open : OpenUpTo(tokens, open, n)}
  OBVIOUS
<1>2. 0 \in D
  <2>1. PICK open : open = [k \in 0 .. 0 |-> <<>>]
    OBVIOUS
  <2>2. open = [k \in 0 .. 0 |-> OpenStep(tokens, open, k)]
    <3>1. \A k \in 0 .. 0 : OpenStep(tokens, open, k) = <<>>
      BY DEF OpenStep
    <3>. QED
      BY <2>1, <3>1
  <2>. QED
    BY <1>1, <2>2 DEF OpenUpTo
<1>3. ASSUME NEW n \in Nat, n \in D
      PROVE  n + 1 \in D
  <2>1. PICK open : open = [k \in 0 .. n |-> OpenStep(tokens, open, k)]
    BY <1>1, <1>3 DEF OpenUpTo
  <2>2. PICK more : more = [k \in 0 .. n + 1 |-> IF k = n + 1 THEN OpenStep(tokens, open, k) ELSE open[k]]
    OBVIOUS
  <2>3. \A k \in 0 .. n : more[k] = open[k]
    BY <2>2
  <2>4. ASSUME NEW k \in 0 .. n + 1
        PROVE  more[k] = OpenStep(tokens, more, k)
    <3>1. OpenStep(tokens, more, k) = OpenStep(tokens, open, k)
      <4>1. k # 0 => k - 1 \in 0 .. n
        OBVIOUS
      <4>2. k # 0 => more[k - 1] = open[k - 1]
        BY <2>3, <4>1
      <4>. QED
        BY <4>2 DEF OpenStep
    <3>2. k # n + 1 => open[k] = OpenStep(tokens, open, k)
      <4>1. k # n + 1 => k \in 0 .. n
        OBVIOUS
      <4>. QED
        BY <2>1, <4>1
    <3>3. more[k] = IF k = n + 1 THEN OpenStep(tokens, open, k) ELSE open[k]
      BY <2>2
    <3>. QED
      BY <3>1, <3>2, <3>3
  <2>5. more = [k \in 0 .. n + 1 |-> OpenStep(tokens, more, k)]
    BY <2>2, <2>4
  <2>. QED
    BY <1>1, <2>5 DEF OpenUpTo
<1>4. Nat \subseteq D
  BY <1>2, <1>3, NaturalInduction
<1>. QED
  BY <1>1, <1>4

LEMMA OpenTyped ==
  ASSUME NEW tokens, NEW n \in Nat, NEW open, OpenUpTo(tokens, open, n)
  PROVE  \A k \in 0 .. n : open[k] \in Seq(Closing)
<1>1. PICK D : D = {k \in Nat : k <= n => open[k] \in Seq(Closing)}
  OBVIOUS
<1>2. \A k \in 0 .. n : open[k] = OpenStep(tokens, open, k)
  <2>1. open = [k \in 0 .. n |-> OpenStep(tokens, open, k)]
    BY DEF OpenUpTo
  <2>. QED
    BY <2>1
<1>3. 0 \in D
  <2>1. 0 \in 0 .. n /\ <<>> \in Seq(Closing)
    OBVIOUS
  <2>2. OpenStep(tokens, open, 0) = <<>>
    BY DEF OpenStep
  <2>3. open[0] \in Seq(Closing)
    BY <1>2, <2>1, <2>2
  <2>. QED
    BY <1>1, <2>3
<1>4. ASSUME NEW k \in Nat, k \in D
      PROVE  k + 1 \in D
  <2>. SUFFICES ASSUME k + 1 <= n
                PROVE  open[k + 1] \in Seq(Closing)
    BY <1>1
  <2>1. k + 1 \in 0 .. n /\ (k + 1) - 1 = k /\ k + 1 # 0
    OBVIOUS
  <2>2. PICK s : s = open[k] /\ s \in Seq(Closing)
    BY <1>1, <1>4
  <2>3. open[k + 1] = OpenStep(tokens, open, k + 1)
    BY <1>2, <2>1
  <2>4. PICK type : type = tokens[k + 1].type
    OBVIOUS
  <2>5. open[k + 1] = IF type \in Opening THEN <<ClosingOf(type)>> \o s
                      ELSE IF type \in Closing /\ s # <<>> THEN Tail(s) ELSE s
    BY <2>1, <2>2, <2>3, <2>4 DEF OpenStep
  <2>6. ClosingOf(type) \in Closing
    BY DEF ClosingOf, Closing
  <2>7. <<ClosingOf(type)>> \o s \in Seq(Closing)
    <3>1. \A c \in Closing : <<c>> \in Seq(Closing)
      OBVIOUS
    <3>. QED
      BY <2>2, <2>6, <3>1
  <2>8. s # <<>> => Tail(s) \in Seq(Closing)
    BY <2>2
  <2>. QED
    BY <2>2, <2>5, <2>7, <2>8
<1>5. Nat \subseteq D
  BY <1>3, <1>4, NaturalInduction
<1>. QED
  BY <1>1, <1>5

LEMMA CompletedIs ==
  ASSUME NEW S, NEW tokens \in Seq(S)
  PROVE  \E operand, open :
           /\ OpenUpTo(tokens, open, Len(tokens))
           /\ operand \in {<<>>, <<Token("VAR")>>, <<Token("LPAREN"), Token("VAR"), Token("RPAREN")>>}
           /\ Completed(tokens) = tokens \o operand
                \o [k \in DOMAIN open[Len(tokens)] |-> Token(open[Len(tokens)][k])]
<1> DEFINE n == Len(tokens)
           Chosen == CHOOSE open : OpenUpTo(tokens, open, n)
           Rand == IF n = 0 \/ tokens[n].type \in Opening \cup {"OP"}
                   THEN IF n > 0 /\ tokens[n].value = "abs"
                        THEN <<Token("LPAREN"), Token("VAR"), Token("RPAREN")>>
                        ELSE <<Token("VAR")>>
                   ELSE <<>>
<1>1. Completed(tokens) = tokens \o Rand \o [k \in DOMAIN Chosen[n] |-> Token(Chosen[n][k])]
  BY Zenon DEF Completed, OpenUpTo, OpenStep
<1>2. OpenUpTo(tokens, Chosen, n)
  <2>1. n \in Nat
    OBVIOUS
  <2>. QED
    BY <2>1, OpenExists
<1>3. Rand \in {<<>>, <<Token("VAR")>>, <<Token("LPAREN"), Token("VAR"), Token("RPAREN")>>}
  OBVIOUS
<1>. HIDE DEF Chosen, Rand
<1>. QED
  BY <1>1, <1>2, <1>3

LEMMA CompletedExtends ==
  ASSUME NEW S, NEW tokens \in Seq(S),
         \A type \in {"VAR", "LPAREN", "RPAREN", "RSQRBRACK"} : Token(type) \in S
  PROVE  /\ Completed(tokens) \in Seq(S) /\ Len(tokens) <= Len(Completed(tokens))
         /\ \A i \in 1 .. Len(tokens) : Completed(tokens)[i] = tokens[i]
<1>1. \A type \in {"VAR", "LPAREN", "RPAREN", "RSQRBRACK"} : Token(type) \in S
  OBVIOUS
<1>2. PICK operand, open :
        /\ OpenUpTo(tokens, open, Len(tokens))
        /\ operand \in {<<>>, <<Token("VAR")>>, <<Token("LPAREN"), Token("VAR"), Token("RPAREN")>>}
        /\ Completed(tokens) = tokens \o operand
             \o [k \in DOMAIN open[Len(tokens)] |-> Token(open[Len(tokens)][k])]
  BY CompletedIs
<1>3. PICK s, closed : s = open[Len(tokens)] /\ closed = [k \in DOMAIN s |-> Token(s[k])]
  OBVIOUS
<1>4. s \in Seq(Closing)
  <2>1. Len(tokens) \in Nat /\ Len(tokens) \in 0 .. Len(tokens)
    OBVIOUS
  <2>. QED
    BY <1>2, <1>3, <2>1, OpenTyped
<1>5. closed \in Seq(S)
  <2>1. Len(s) \in Nat /\ DOMAIN s = 1 .. Len(s) /\ \A k \in 1 .. Len(s) : s[k] \in Closing
    BY <1>4
  <2>2. \A k \in 1 .. Len(s) : Token(s[k]) \in S
    BY <1>1, <2>1 DEF Closing
  <2>3. closed \in [1 .. Len(s) -> S]
    BY <1>3, <2>1, <2>2
  <2>. QED
    BY <2>1, <2>3
<1>6. operand \in Seq(S)
  <2>1. PICK v, l, r : v = Token("VAR") /\ l = Token("LPAREN") /\ r = Token("RPAREN")
    OBVIOUS
  <2>2. v \in S /\ l \in S /\ r \in S
    BY <1>1, <2>1
  <2>3. <<>> \in Seq(S) /\ <<v>> \in Seq(S) /\ <<l, v, r>> \in Seq(S)
    BY <2>2
  <2>. QED
    BY <1>2, <2>1, <2>3
<1>7. PICK rest : rest = operand \o closed
  OBVIOUS
<1>8. rest \in Seq(S) /\ tokens \o operand \o closed = tokens \o rest
  BY <1>5, <1>6, <1>7
<1>9. /\ tokens \o rest \in Seq(S) /\ Len(tokens) <= Len(tokens \o rest)
      /\ \A i \in 1 .. Len(tokens) : (tokens \o rest)[i] = tokens[i]
  BY <1>8
<1>. QED
  BY <1>2, <1>3, <1>8, <1>9
=============================================================================
