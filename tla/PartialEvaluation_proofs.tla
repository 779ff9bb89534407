----------------------- MODULE PartialEvaluation_proofs -----------------------
(***************************************************************************)
(* Proofs about partial evaluation: the discipline of its recursion, and   *)
(* that get_max and Relaxation compute what their comments say of the      *)
(* diagram as a function, although they work on its nodes and meet a node  *)
(* once, however many paths lead to it.  At the end, that no fact occurs   *)
(* twice on a path of what is evaluated, and that the weights of the       *)
(* library are monoids as apply needs them.                                *)
(*                                                                         *)
(* A result is right for a set of values if it is their greatest, or has   *)
(* the cheapest cost of every fact in them.  What a node returns is right  *)
(* for the values that the node has on the allowed states; an edge adds    *)
(* its weight to all of them, and a node unites those of its edges.        *)
(***************************************************************************)
EXTENDS PartialEvaluation, Refinement_proofs

----------------------------------------------------------------------------
(* Integers. *)

LEMMA Remainder ==
  ASSUME NEW m \in Nat \ {0}, NEW x \in Int
  PROVE  \E q \in Int : \E r \in 0 .. m - 1 : r = x % m /\ x = (m * q) + r
<1>1. x % m \in 0 .. m - 1
  OBVIOUS
<1>2. x \div m \in Int /\ x = (m * (x \div m)) + (x % m)
  OBVIOUS
<1>. QED
  BY <1>1, <1>2

LEMMA RemainderIsUnique ==
  ASSUME NEW m \in Nat \ {0}, NEW x \in Int, NEW q \in Int, NEW r \in 0 .. m - 1, x = (m * q) + r
  PROVE  x % m = r
OBVIOUS

LEMMA Distribute ==
  ASSUME NEW m \in Int, NEW k \in Int, NEW q \in Int
  PROVE  m * k \in Int /\ m * q \in Int /\ k - q \in Int /\ m * (k - q) = (m * k) - (m * q)
OBVIOUS

LEMMA RemainderOfSum ==
  ASSUME NEW m \in Nat \ {0}, NEW x \in Int, NEW y \in Int
  PROVE  ((x % m) + y) % m = (x + y) % m
<1>1. PICK q \in Int, r \in 0 .. m - 1 : r = x % m /\ x = (m * q) + r
  BY Remainder
<1>2. PICK z \in Int : z = x + y
  OBVIOUS
<1>3. PICK k \in Int, t \in 0 .. m - 1 : t = z % m /\ z = (m * k) + t
  BY Remainder
<1>4. r + y \in Int /\ r + y = (m * (k - q)) + t
  <2>1. PICK a, b, c \in Int : /\ a = m * k /\ b = m * q /\ c = m * (k - q)
                               /\ c = a - b
    BY Distribute
  <2>2. r \in Int /\ t \in Int /\ x = b + r /\ z = a + t /\ z = x + y
    BY <1>1, <1>2, <1>3, <2>1
  <2>3. r + y = c + t
    BY <2>1, <2>2
  <2>. QED
    BY <2>1, <2>2, <2>3
<1>5. (r + y) % m = t
  <2>1. PICK n, d \in Int : n = r + y /\ d = k - q
    BY <1>4
  <2>2. n = (m * d) + t
    BY <1>4, <2>1
  <2>. QED
    BY <2>1, <2>2, RemainderIsUnique
<1>. QED
  BY <1>1, <1>2, <1>3, <1>5

(* The machine's integers: Wrap is the identity on them, and wrapping      *)
(* around twice is wrapping around once.                                   *)
LEMMA Machine ==
  /\ Ints \subseteq Int /\ 0 \in Ints
  /\ \A x \in Int : Wrap(x) \in Ints
  /\ \A x \in Ints : Wrap(x) = x
  /\ IntMax \in Ints /\ \A x \in Ints : x <= IntMax
<1>1. PICK h, m : h = 2 ^ (IntBits - 1) /\ m = 2 ^ IntBits
  OBVIOUS
<1>2. h \in Nat \ {0} /\ m = 2 * h /\ m \in Nat \ {0}
  BY <1>1, PowerAssumption
<1>3. IntMin = -h /\ IntMax = h - 1 /\ Ints = -h .. h - 1
  BY <1>1 DEF IntMin, IntMax, Ints
<1>4. \A x \in Int : Wrap(x) = ((x - (-h)) % m) + (-h)
  BY <1>1, <1>3 DEF Wrap
<1>5. ASSUME NEW x \in Int
      PROVE  Wrap(x) \in Ints
  <2>1. PICK r \in 0 .. m - 1 : r = (x - (-h)) % m
    BY <1>2, Remainder
  <2>2. Wrap(x) = r - h
    BY <1>2, <1>4, <2>1
  <2>. QED
    BY <1>2, <1>3, <2>2
<1>6. ASSUME NEW x \in Ints
      PROVE  Wrap(x) = x
  <2>1. x \in Int /\ x + h \in 0 .. m - 1 /\ x - (-h) = (m * 0) + (x + h)
    BY <1>2, <1>3
  <2>2. (x - (-h)) % m = x + h
    BY <1>2, <2>1, RemainderIsUnique
  <2>. QED
    BY <1>2, <1>4, <2>1, <2>2
<1>. QED
  BY <1>2, <1>3, <1>5, <1>6

LEMMA WrapOfSum ==
  ASSUME NEW x \in Int, NEW y \in Int
  PROVE  Wrap(Wrap(x) + y) = Wrap(x + y)
<1>1. PICK h, m : h = 2 ^ (IntBits - 1) /\ m = 2 ^ IntBits
  OBVIOUS
<1>2. h \in Nat \ {0} /\ m = 2 * h /\ m \in Nat \ {0}
  BY <1>1, PowerAssumption
<1>3. \A z \in Int : Wrap(z) = ((z + h) % m) - h
  BY <1>1, <1>2 DEF Wrap, IntMin
<1>4. PICK z \in Int : z = x + h
  BY <1>2
<1>5. PICK r \in 0 .. m - 1 : r = z % m
  BY <1>2, Remainder
<1>6. Wrap(x) = r - h /\ (r + y) % m = (z + y) % m
  BY <1>2, <1>3, <1>4, <1>5, RemainderOfSum
<1>7. PICK c \in Int : c = Wrap(x) + y
  BY <1>2, <1>6
<1>8. c + h = r + y
  BY <1>2, <1>6, <1>7
<1>9. Wrap(c) = ((r + y) % m) - h
  BY <1>3, <1>8
<1>10. PICK d \in Int : d = x + y
  OBVIOUS
<1>11. d + h = z + y
  BY <1>2, <1>4, <1>10
<1>12. Wrap(d) = ((z + y) % m) - h
  BY <1>3, <1>11
<1>. QED
  BY <1>6, <1>7, <1>9, <1>10, <1>12

(* Addition of machine integers is associative. *)
LEMMA IntPlusLaws ==
  /\ \A a, b \in Ints : IntPlus(a, b) \in Ints /\ IntPlus(a, b) = IntPlus(b, a)
  /\ \A a \in Ints : IntPlus(a, 0) = a /\ IntPlus(0, a) = a
  /\ \A a, b, c \in Ints : IntPlus(IntPlus(a, b), c) = IntPlus(a, IntPlus(b, c))
  /\ \A a, b \in Ints : a + b \in Ints => IntPlus(a, b) = a + b
<1>1. \A a, b \in Ints : a + b \in Int /\ a + b = b + a
  BY Machine
<1>2. \A a, b \in Ints : IntPlus(a, b) \in Ints /\ IntPlus(a, b) = IntPlus(b, a)
  BY <1>1, Machine DEF IntPlus
<1>3. \A a \in Ints : IntPlus(a, 0) = a /\ IntPlus(0, a) = a
  BY Machine DEF IntPlus
<1>4. ASSUME NEW a \in Ints, NEW b \in Ints, NEW c \in Ints
      PROVE  IntPlus(IntPlus(a, b), c) = IntPlus(a, IntPlus(b, c))
  <2>1. a \in Int /\ b \in Int /\ c \in Int
    BY Machine
  <2>2. PICK ab, bc \in Int : ab = a + b /\ bc = b + c
    BY <2>1
  <2>3. Wrap(Wrap(ab) + c) = Wrap(ab + c)
    BY <2>1, <2>2, WrapOfSum
  <2>4. Wrap(Wrap(bc) + a) = Wrap(bc + a)
    BY <2>1, <2>2, WrapOfSum
  <2>5. ab + c = bc + a /\ Wrap(bc) + a = a + Wrap(bc)
    <3>1. Wrap(bc) \in Int
      BY <2>2, Machine
    <3>. QED
      BY <2>1, <2>2, <3>1
  <2>. QED
    BY <2>2, <2>3, <2>4, <2>5 DEF IntPlus
<1>5. \A a, b \in Ints : a + b \in Ints => IntPlus(a, b) = a + b
  BY Machine DEF IntPlus
<1>. QED
  BY <1>2, <1>3, <1>4, <1>5

LEMMA GreatestOf ==
  ASSUME NEW T, T \subseteq Ints, T # {}
  PROVE  Greatest(T) \in T /\ \A x \in T : x <= Greatest(T)
<1>1. PICK U : U = {IntMax - x : x \in T}
  OBVIOUS
<1>2. U \subseteq Nat /\ U # {}
  <2>1. \A x \in Ints : x \in Int /\ IntMax \in Int /\ x <= IntMax
    BY Machine
  <2>. QED
    BY <1>1, <2>1
<1>3. PICK u \in U : \A v \in U : u <= v
  BY <1>2, LeastNatural
<1>4. PICK m \in T : u = IntMax - m
  BY <1>1
<1>5. \A x \in T : x <= m
  BY <1>1, <1>3, <1>4, Machine
<1>. QED
  BY <1>5 DEF Greatest

LEMMA LeastOf ==
  ASSUME NEW T, T \subseteq Ints, T # {}
  PROVE  Least(T) \in T /\ \A x \in T : Least(T) <= x
<1>1. PICK U : U = {x - IntMin : x \in T}
  OBVIOUS
<1>2. IntMin \in Int /\ \A x \in Ints : x \in Int /\ x - IntMin \in Nat
  BY Machine, PowerAssumption DEF Ints, IntMin
<1>3. U \subseteq Nat /\ U # {}
  BY <1>1, <1>2
<1>4. PICK u \in U : \A v \in U : u <= v
  BY <1>3, LeastNatural
<1>5. PICK m \in T : u = m - IntMin
  BY <1>1
<1>6. \A x \in T : m <= x
  BY <1>1, <1>2, <1>4, <1>5
<1>. QED
  BY <1>6 DEF Least

----------------------------------------------------------------------------
(* Results, and the values they are right for. *)

Effects == (SUBSET Fact) \X Ints

Costs == UNION {[facts -> Ints] : facts \in SUBSET Fact}

ResultOf(fun) ==
  IF fun = "max" THEN Ints ELSE [cheapest_facts : Costs, cheapest_cost : Ints]

IsGreatest(res, values) == res \in values /\ \A x \in values : x <= res

HasCheapest(res, values) ==
  /\ \E x \in values : x[2] = res.cheapest_cost
  /\ \A x \in values : res.cheapest_cost <= x[2]
  /\ DOMAIN res.cheapest_facts = UNION {x[1] : x \in values}
  /\ \A fact \in DOMAIN res.cheapest_facts :
       \E x \in values : fact \in x[1] /\ x[2] = res.cheapest_facts[fact]
  /\ \A x \in values : \A fact \in x[1] : res.cheapest_facts[fact] <= x[2]

Right(fun, res, values) ==
  IF fun = "max" THEN IsGreatest(res, values) ELSE HasCheapest(res, values)

LEMMA Relaxations ==
  ASSUME NEW res \in ResultOf("Relaxation")
  PROVE  /\ res.cheapest_cost \in Ints
         /\ DOMAIN res.cheapest_facts \subseteq Fact
         /\ \A fact \in DOMAIN res.cheapest_facts : res.cheapest_facts[fact] \in Ints
BY DEF ResultOf, Costs

LEMMA EvaluationPlusIs ==
  ASSUME NEW res \in ResultOf("Relaxation"), NEW w \in Effects,
         NEW new, new = EvaluationPlus(res, w)
  PROVE  /\ new \in ResultOf("Relaxation")
         /\ new.cheapest_cost = IntPlus(res.cheapest_cost, w[2])
         /\ DOMAIN new.cheapest_facts = DOMAIN res.cheapest_facts \cup w[1]
         /\ \A fact \in w[1] : new.cheapest_facts[fact] = new.cheapest_cost
         /\ \A fact \in DOMAIN res.cheapest_facts \ w[1] :
              new.cheapest_facts[fact] = IntPlus(res.cheapest_facts[fact], w[2])
<1>1. PICK F, cost, facts :
        /\ F = DOMAIN res.cheapest_facts \cup w[1] /\ cost = IntPlus(res.cheapest_cost, w[2])
        /\ facts = [fact \in F |-> IF fact \in w[1] THEN cost
                                   ELSE IntPlus(res.cheapest_facts[fact], w[2])]
  OBVIOUS
<1>2. new = [cheapest_facts |-> facts, cheapest_cost |-> cost]
  BY <1>1 DEF EvaluationPlus
<1>3. F \in SUBSET Fact /\ w[2] \in Ints /\ cost \in Ints
  BY <1>1, Relaxations, IntPlusLaws DEF Effects
<1>4. facts \in [F -> Ints]
  BY <1>1, <1>3, Relaxations, IntPlusLaws
<1>5. facts \in Costs
  BY <1>3, <1>4 DEF Costs
<1>. QED
  BY <1>1, <1>2, <1>3, <1>5 DEF ResultOf

LEMMA AddRelaxation ==
  ASSUME NEW values \in SUBSET Effects, NEW res \in ResultOf("Relaxation"),
         HasCheapest(res, values), NEW w \in Effects,
         \A x \in values : w[2] + x[2] \in Ints
  PROVE  HasCheapest(EvaluationPlus(res, w), {PairPlus(w, x) : x \in values})
<1>1. PICK new, sums : new = EvaluationPlus(res, w) /\ sums = {PairPlus(w, x) : x \in values}
  OBVIOUS
<1>2. /\ new.cheapest_cost = IntPlus(res.cheapest_cost, w[2])
      /\ DOMAIN new.cheapest_facts = DOMAIN res.cheapest_facts \cup w[1]
      /\ \A fact \in w[1] : new.cheapest_facts[fact] = new.cheapest_cost
      /\ \A fact \in DOMAIN res.cheapest_facts \ w[1] :
           new.cheapest_facts[fact] = IntPlus(res.cheapest_facts[fact], w[2])
  BY <1>1, EvaluationPlusIs
<1>3. /\ w[1] \in SUBSET Fact /\ w[2] \in Int /\ res.cheapest_cost \in Int
      /\ \A x \in values : /\ x[2] \in Int /\ w[2] + x[2] \in Ints
                          /\ IntPlus(w[2], x[2]) = w[2] + x[2] /\ IntPlus(x[2], w[2]) = w[2] + x[2]
  BY Machine, IntPlusLaws, Relaxations DEF Effects
<1>4. \A x \in values : /\ PairPlus(w, x) \in sums
                        /\ PairPlus(w, x)[1] = w[1] \cup x[1]
                        /\ PairPlus(w, x)[2] = w[2] + x[2]
  BY <1>1, <1>3 DEF PairPlus, FactsPlus
<1>5. \A y \in sums : \E x \in values : y[1] = w[1] \cup x[1] /\ y[2] = w[2] + x[2]
  BY <1>1, <1>3 DEF PairPlus, FactsPlus
<1>6. PICK low \in values : low[2] = res.cheapest_cost
  BY DEF HasCheapest
<1>7. new.cheapest_cost = w[2] + low[2]
  BY <1>2, <1>3, <1>6
<1>8. \A x \in values : low[2] <= x[2]
  BY <1>6 DEF HasCheapest
<1>9. \A y \in sums : new.cheapest_cost <= y[2]
  BY <1>3, <1>5, <1>6, <1>7, <1>8
<1>10. DOMAIN new.cheapest_facts = UNION {y[1] : y \in sums}
  <2>1. DOMAIN res.cheapest_facts = UNION {x[1] : x \in values}
    BY DEF HasCheapest
  <2>. QED
    BY <1>2, <1>4, <1>5, <1>6, <2>1
<1>11. ASSUME NEW fact \in DOMAIN new.cheapest_facts
       PROVE  \E y \in sums : fact \in y[1] /\ y[2] = new.cheapest_facts[fact]
  <2>1. CASE fact \in w[1]
    BY <1>2, <1>4, <1>6, <1>7, <2>1
  <2>2. CASE fact \notin w[1]
    <3>1. fact \in DOMAIN res.cheapest_facts
      BY <1>2, <1>11, <2>2
    <3>2. PICK x \in values : fact \in x[1] /\ x[2] = res.cheapest_facts[fact]
      BY <3>1 DEF HasCheapest
    <3>3. new.cheapest_facts[fact] = w[2] + x[2]
      BY <1>2, <1>3, <2>2, <3>1, <3>2
    <3>. QED
      BY <1>4, <3>2, <3>3
  <2>. QED
    BY <2>1, <2>2
<1>12. ASSUME NEW y \in sums, NEW fact \in y[1]
       PROVE  new.cheapest_facts[fact] <= y[2]
  <2>1. CASE fact \in w[1]
    BY <1>2, <1>9, <2>1
  <2>2. CASE fact \notin w[1]
    <3>1. PICK x \in values : y[1] = w[1] \cup x[1] /\ y[2] = w[2] + x[2]
      BY <1>5
    <3>2. fact \in x[1] /\ fact \in DOMAIN res.cheapest_facts
      BY <1>12, <2>2, <3>1 DEF HasCheapest
    <3>3. PICK c \in values : fact \in c[1] /\ c[2] = res.cheapest_facts[fact]
      BY <3>2 DEF HasCheapest
    <3>4. new.cheapest_facts[fact] = w[2] + c[2]
      BY <1>2, <1>3, <2>2, <3>2, <3>3
    <3>5. c[2] <= x[2]
      BY <3>2, <3>3 DEF HasCheapest
    <3>. QED
      BY <1>3, <3>1, <3>4, <3>5
  <2>. QED
    BY <2>1, <2>2
<1>. QED
  BY <1>1, <1>4, <1>6, <1>7, <1>9, <1>10, <1>11, <1>12 DEF HasCheapest

LEMMA AddMax ==
  ASSUME NEW values \in SUBSET Ints, NEW res \in Ints, IsGreatest(res, values), NEW w \in Ints,
         \A x \in values : w + x \in Ints
  PROVE  IsGreatest(IntPlus(res, w), {IntPlus(w, x) : x \in values})
<1>1. \A x \in values : /\ IntPlus(w, x) = w + x /\ IntPlus(x, w) = w + x
                        /\ x \in Int /\ w \in Int /\ x <= res
  BY Machine, IntPlusLaws DEF IsGreatest
<1>2. res \in values /\ res \in Int
  BY Machine DEF IsGreatest
<1>. QED
  BY <1>1, <1>2 DEF IsGreatest

LEMMA MaxOfAll ==
  ASSUME NEW n \in Nat \ {0}, NEW rs \in Seq(Ints), Len(rs) = n, NEW values,
         \A j \in 1 .. n : values[j] \subseteq Ints /\ IsGreatest(rs[j], values[j])
  PROVE  /\ FunApply("max", rs) \in Ints
         /\ IsGreatest(FunApply("max", rs), UNION {values[j] : j \in 1 .. n})
<1>1. PICK T : T = {rs[j] : j \in 1 .. n}
  OBVIOUS
<1>2. T \subseteq Ints /\ T # {} /\ DOMAIN rs = 1 .. n
  BY <1>1
<1>3. PICK m \in T : m = FunApply("max", rs) /\ \A x \in T : x <= m
  BY <1>1, <1>2, GreatestOf DEF FunApply
<1>4. m \in UNION {values[j] : j \in 1 .. n}
  BY <1>1 DEF IsGreatest
<1>5. ASSUME NEW j \in 1 .. n, NEW x \in values[j]
      PROVE  x <= m
  <2>1. x \in Int /\ rs[j] \in Int /\ m \in Int
    <3>1. x \in Ints /\ rs[j] \in T
      BY <1>1
    <3>. QED
      BY <1>2, <1>3, <3>1, Machine
  <2>2. x <= rs[j] /\ rs[j] <= m
    BY <1>1, <1>3 DEF IsGreatest
  <2>. QED
    BY <2>1, <2>2
<1>. QED
  BY <1>2, <1>3, <1>4, <1>5 DEF IsGreatest

LEMMA CheapestOfAll ==
  ASSUME NEW n \in Nat \ {0}, NEW rs \in Seq(ResultOf("Relaxation")), Len(rs) = n,
         NEW new, new = CheapestOf(rs)
  PROVE  /\ new \in ResultOf("Relaxation")
         /\ \E j \in 1 .. n : new.cheapest_cost = rs[j].cheapest_cost
         /\ \A j \in 1 .. n : new.cheapest_cost <= rs[j].cheapest_cost
         /\ DOMAIN new.cheapest_facts = UNION {DOMAIN rs[j].cheapest_facts : j \in 1 .. n}
         /\ \A fact \in DOMAIN new.cheapest_facts : \E j \in 1 .. n :
              fact \in DOMAIN rs[j].cheapest_facts
                /\ new.cheapest_facts[fact] = rs[j].cheapest_facts[fact]
         /\ \A j \in 1 .. n : \A fact \in DOMAIN rs[j].cheapest_facts :
              new.cheapest_facts[fact] <= rs[j].cheapest_facts[fact]
<1>1. DOMAIN rs = 1 .. n /\ \A j \in 1 .. n : rs[j] \in ResultOf("Relaxation")
  OBVIOUS
<1> DEFINE with(fact) == {i \in 1 .. n : fact \in DOMAIN rs[i].cheapest_facts}
           found(fact) == {rs[i].cheapest_facts[fact] : i \in with(fact)}
<1>2. PICK F, C, facts :
        /\ F = UNION {DOMAIN rs[i].cheapest_facts : i \in 1 .. n}
        /\ C = {IntMax} \cup {rs[i].cheapest_cost : i \in 1 .. n}
        /\ facts = [fact \in F |-> Least(found(fact))]
  OBVIOUS
<1>3. new = [cheapest_facts |-> facts, cheapest_cost |-> Least(C)]
  BY <1>1, <1>2 DEF CheapestOf
<1>4. \A j \in 1 .. n : /\ rs[j].cheapest_cost \in Ints
                        /\ DOMAIN rs[j].cheapest_facts \subseteq Fact
                        /\ \A fact \in DOMAIN rs[j].cheapest_facts :
                             rs[j].cheapest_facts[fact] \in Ints
  BY <1>1, Relaxations
<1>5. C \subseteq Ints /\ C # {}
  BY <1>2, <1>4, Machine
<1>6. Least(C) \in C /\ \A x \in C : Least(C) <= x
  BY <1>5, LeastOf
<1>7. \A j \in 1 .. n : Least(C) <= rs[j].cheapest_cost
  BY <1>2, <1>6
<1>8. \E j \in 1 .. n : Least(C) = rs[j].cheapest_cost
  <2>1. CASE Least(C) = IntMax
    <3>1. PICK x \in Ints : x = rs[1].cheapest_cost /\ 1 \in 1 .. n
      BY <1>4
    <3>2. IntMax <= x /\ x <= IntMax /\ x \in Int /\ IntMax \in Int
      BY <1>7, <2>1, <3>1, Machine
    <3>3. x = IntMax
      BY <3>2
    <3>. QED
      BY <2>1, <3>1, <3>3
  <2>. QED
    BY <1>2, <1>6, <2>1
<1>9. ASSUME NEW fact \in F
      PROVE  /\ Least(found(fact)) \in found(fact) /\ Least(found(fact)) \in Ints
             /\ \A x \in found(fact) : Least(found(fact)) <= x
  <2>1. PICK T : T = found(fact)
    OBVIOUS
  <2>2. T \subseteq Ints
    BY <1>4, <2>1
  <2>3. PICK i \in 1 .. n : fact \in DOMAIN rs[i].cheapest_facts
    BY <1>2
  <2>4. rs[i].cheapest_facts[fact] \in T
    BY <2>1, <2>3
  <2>5. Least(T) \in T /\ \A x \in T : Least(T) <= x
    BY <2>2, <2>4, LeastOf
  <2>. QED
    BY <2>1, <2>2, <2>5
<1>10. facts \in Costs
  <2>1. F \in SUBSET Fact /\ facts \in [F -> Ints]
    BY <1>2, <1>4, <1>9
  <2>. QED
    BY <2>1 DEF Costs
<1>11. new \in ResultOf("Relaxation")
  BY <1>3, <1>5, <1>6, <1>10 DEF ResultOf
<1>12. ASSUME NEW fact \in F
       PROVE  \E j \in 1 .. n : fact \in DOMAIN rs[j].cheapest_facts
                              /\ new.cheapest_facts[fact] = rs[j].cheapest_facts[fact]
  <2>1. PICK T, c : T = found(fact) /\ c = Least(T)
    OBVIOUS
  <2>2. c \in T
    BY <1>9, <2>1
  <2>3. new.cheapest_facts[fact] = c
    BY <1>2, <1>3, <2>1
  <2>4. PICK j \in 1 .. n : fact \in DOMAIN rs[j].cheapest_facts /\ c = rs[j].cheapest_facts[fact]
    BY <2>1, <2>2
  <2>. QED
    BY <2>3, <2>4
<1>13. ASSUME NEW j \in 1 .. n, NEW fact \in DOMAIN rs[j].cheapest_facts
       PROVE  new.cheapest_facts[fact] <= rs[j].cheapest_facts[fact]
  <2>1. PICK T, c : T = found(fact) /\ c = Least(T)
    OBVIOUS
  <2>2. fact \in F
    BY <1>2, <1>13
  <2>3. new.cheapest_facts[fact] = c
    BY <1>2, <1>3, <2>1, <2>2
  <2>4. rs[j].cheapest_facts[fact] \in T
    BY <1>13, <2>1
  <2>5. \A x \in T : c <= x
    BY <1>9, <2>1, <2>2
  <2>. QED
    BY <2>3, <2>4, <2>5
<1>14. /\ DOMAIN new.cheapest_facts = F /\ new.cheapest_cost = Least(C)
  BY <1>2, <1>3
<1>15. DOMAIN new.cheapest_facts = UNION {DOMAIN rs[j].cheapest_facts : j \in 1 .. n}
  BY <1>2, <1>14
<1>16. \A fact \in DOMAIN new.cheapest_facts : \E j \in 1 .. n :
         fact \in DOMAIN rs[j].cheapest_facts
           /\ new.cheapest_facts[fact] = rs[j].cheapest_facts[fact]
  BY <1>12, <1>14
<1>. QED
  BY <1>7, <1>8, <1>11, <1>13, <1>14, <1>15, <1>16

LEMMA RelaxationOfAll ==
  ASSUME NEW n \in Nat \ {0}, NEW rs \in Seq(ResultOf("Relaxation")), Len(rs) = n, NEW values,
         \A j \in 1 .. n : values[j] \subseteq Effects /\ HasCheapest(rs[j], values[j])
  PROVE  /\ FunApply("Relaxation", rs) \in ResultOf("Relaxation")
         /\ HasCheapest(FunApply("Relaxation", rs), UNION {values[j] : j \in 1 .. n})
<1>1. PICK new, all : new = CheapestOf(rs) /\ all = UNION {values[j] : j \in 1 .. n}
  OBVIOUS
<1>2. new = FunApply("Relaxation", rs)
  BY <1>1 DEF FunApply
<1>3. /\ new \in ResultOf("Relaxation")
      /\ \E j \in 1 .. n : new.cheapest_cost = rs[j].cheapest_cost
      /\ \A j \in 1 .. n : new.cheapest_cost <= rs[j].cheapest_cost
      /\ DOMAIN new.cheapest_facts = UNION {DOMAIN rs[j].cheapest_facts : j \in 1 .. n}
      /\ \A fact \in DOMAIN new.cheapest_facts : \E j \in 1 .. n :
           fact \in DOMAIN rs[j].cheapest_facts
             /\ new.cheapest_facts[fact] = rs[j].cheapest_facts[fact]
      /\ \A j \in 1 .. n : \A fact \in DOMAIN rs[j].cheapest_facts :
           new.cheapest_facts[fact] <= rs[j].cheapest_facts[fact]
  BY <1>1, CheapestOfAll
<1>4. /\ new.cheapest_cost \in Int
      /\ \A fact \in DOMAIN new.cheapest_facts : new.cheapest_facts[fact] \in Int
      /\ \A j \in 1 .. n : /\ rs[j].cheapest_cost \in Int
                            /\ \A fact \in DOMAIN rs[j].cheapest_facts :
                                 rs[j].cheapest_facts[fact] \in Int
                            /\ \A x \in values[j] : x[2] \in Int
  <2>1. \A j \in 1 .. n : rs[j] \in ResultOf("Relaxation")
    OBVIOUS
  <2>. QED
    BY <1>3, <2>1, Relaxations, Machine DEF Effects
<1>5. \E x \in all : x[2] = new.cheapest_cost
  <2>1. PICK j \in 1 .. n : new.cheapest_cost = rs[j].cheapest_cost
    BY <1>3
  <2>2. PICK x \in values[j] : x[2] = rs[j].cheapest_cost
    BY DEF HasCheapest
  <2>. QED
    BY <1>1, <2>1, <2>2
<1>6. ASSUME NEW j \in 1 .. n, NEW x \in values[j]
      PROVE  new.cheapest_cost <= x[2]
  <2>1. rs[j].cheapest_cost <= x[2] /\ new.cheapest_cost <= rs[j].cheapest_cost
    BY <1>3 DEF HasCheapest
  <2>2. rs[j].cheapest_cost \in Int /\ new.cheapest_cost \in Int
    BY <1>4
  <2>3. x \in Effects
    BY <1>6 DEF Effects
  <2>4. PICK a, b, c \in Int : a = new.cheapest_cost /\ b = rs[j].cheapest_cost /\ c = x[2]
    BY <2>2, <2>3, Machine DEF Effects
  <2>. QED
    BY <2>1, <2>4
<1>7. DOMAIN new.cheapest_facts = UNION {x[1] : x \in all}
  <2>1. \A j \in 1 .. n : DOMAIN rs[j].cheapest_facts = UNION {x[1] : x \in values[j]}
    BY DEF HasCheapest
  <2>. QED
    BY <1>1, <1>3, <2>1
<1>8. ASSUME NEW fact \in DOMAIN new.cheapest_facts
      PROVE  \E x \in all : fact \in x[1] /\ x[2] = new.cheapest_facts[fact]
  <2>1. PICK j \in 1 .. n : fact \in DOMAIN rs[j].cheapest_facts
                           /\ new.cheapest_facts[fact] = rs[j].cheapest_facts[fact]
    BY <1>3
  <2>2. PICK x \in values[j] : fact \in x[1] /\ x[2] = rs[j].cheapest_facts[fact]
    BY <2>1 DEF HasCheapest
  <2>. QED
    BY <1>1, <2>1, <2>2
<1>9. ASSUME NEW j \in 1 .. n, NEW x \in values[j], NEW fact \in x[1]
      PROVE  new.cheapest_facts[fact] <= x[2]
  <2>1. fact \in DOMAIN rs[j].cheapest_facts /\ rs[j].cheapest_facts[fact] <= x[2]
    BY <1>9 DEF HasCheapest
  <2>2. new.cheapest_facts[fact] <= rs[j].cheapest_facts[fact] /\ fact \in DOMAIN new.cheapest_facts
    BY <1>3, <2>1
  <2>. QED
    BY <1>4, <2>1, <2>2
<1>. QED
  BY <1>1, <1>2, <1>3, <1>5, <1>6, <1>7, <1>8, <1>9 DEF HasCheapest

----------------------------------------------------------------------------
(* Diagrams, and what their weights are to them. *)

(* The weights that are evaluated. *)
LEMMA WeightLaws ==
  ASSUME NEW kind \in Kind, kind \in {"int", "pair"}
  PROVE  /\ Neutral(kind) \in Carrier(kind)
         /\ \A a, b \in Carrier(kind) : Plus(kind, a, b) \in Carrier(kind)
         /\ \A a \in Carrier(kind) :
              Plus(kind, a, Neutral(kind)) = a /\ Plus(kind, Neutral(kind), a) = a
         /\ \A a, b, c \in Carrier(kind) :
              Plus(kind, Plus(kind, a, b), c) = Plus(kind, a, Plus(kind, b, c))
<1>1. /\ Carrier(kind) = MonoidCarrier(kind) /\ Neutral(kind) = NeutralElement(kind)
      /\ \A a, b \in Carrier(kind) : Plus(kind, a, b) = MonoidPlus(kind, a, b)
  BY EvalMonoidAssumption
<1>2. /\ Neutral(kind) \in Carrier(kind)
      /\ \A a, b \in Carrier(kind) : Plus(kind, a, b) \in Carrier(kind)
  BY MonoidAssumption
<1>3. CASE kind = "int"
  <2>1. /\ Carrier(kind) = Ints /\ Neutral(kind) = 0
        /\ \A a, b \in Ints : Plus(kind, a, b) = IntPlus(a, b)
    BY <1>1, <1>3 DEF MonoidCarrier, NeutralElement, MonoidPlus
  <2>. QED
    BY <1>2, <2>1, IntPlusLaws
<1>4. CASE kind = "pair"
  <2>1. /\ Carrier(kind) = Effects /\ Neutral(kind) = <<{}, 0>>
        /\ \A a, b \in Carrier(kind) :
             Plus(kind, a, b) = <<a[1] \cup b[1], IntPlus(a[2], b[2])>>
    BY <1>1, <1>4 DEF Effects, MonoidCarrier, NeutralElement, MonoidPlus, PairPlus, FactsPlus
  <2>2. \A a \in Carrier(kind) : a = <<a[1], a[2]>> /\ a[1] \in SUBSET Fact /\ a[2] \in Ints
    BY <2>1 DEF Effects
  <2>3. ASSUME NEW a \in Carrier(kind)
        PROVE  Plus(kind, a, Neutral(kind)) = a /\ Plus(kind, Neutral(kind), a) = a
    <3>1. PICK z \in Carrier(kind) : z = Neutral(kind) /\ z = <<{}, 0>>
      BY <1>2, <2>1
    <3>2. /\ Plus(kind, a, z) = <<a[1] \cup z[1], IntPlus(a[2], z[2])>>
          /\ Plus(kind, z, a) = <<z[1] \cup a[1], IntPlus(z[2], a[2])>>
      BY <2>1
    <3>3. z[1] = {} /\ z[2] = 0 /\ a[2] \in Ints
      BY <2>2, <3>1
    <3>4. IntPlus(a[2], z[2]) = a[2] /\ IntPlus(z[2], a[2]) = a[2]
      BY <3>3, IntPlusLaws
    <3>5. a[1] \cup z[1] = a[1] /\ z[1] \cup a[1] = a[1]
      BY <3>3
    <3>. QED
      BY <2>2, <3>1, <3>2, <3>4, <3>5
  <2>4. ASSUME NEW a \in Carrier(kind), NEW b \in Carrier(kind), NEW c \in Carrier(kind)
        PROVE  Plus(kind, Plus(kind, a, b), c) = Plus(kind, a, Plus(kind, b, c))
    <3>1. PICK ab, bc \in Carrier(kind) : ab = Plus(kind, a, b) /\ bc = Plus(kind, b, c)
      BY <1>2
    <3>2. /\ ab = <<a[1] \cup b[1], IntPlus(a[2], b[2])>>
          /\ bc = <<b[1] \cup c[1], IntPlus(b[2], c[2])>>
      BY <2>1, <3>1
    <3>3. /\ Plus(kind, ab, c) = <<ab[1] \cup c[1], IntPlus(ab[2], c[2])>>
          /\ Plus(kind, a, bc) = <<a[1] \cup bc[1], IntPlus(a[2], bc[2])>>
      BY <2>1
    <3>4. IntPlus(ab[2], c[2]) = IntPlus(a[2], bc[2])
      BY <2>2, <3>2, IntPlusLaws
    <3>5. ab[1] \cup c[1] = a[1] \cup bc[1]
      BY <3>2
    <3>. QED
      BY <3>1, <3>3, <3>4, <3>5
  <2>. QED
    BY <1>2, <2>3, <2>4
<1>. QED
  BY <1>3, <1>4

(* The diagram of a node by itself. *)
Base(p) == [src |-> p, input |-> Neutral(p.kind)]

LEMMA Bases ==
  ASSUME HeapOK, NEW p \in DOMAIN heap
  PROVE  /\ p.kind \in Kind
         /\ Base(p) \in EvmddOf(p.kind) /\ Base(p) \in Evmdd
         /\ Base(p).src = p /\ Base(p).input = Neutral(p.kind)
<1>1. p.kind \in Kind
  BY DEF HeapOK, Pointer
<1>2. Base(p) \in EvmddOf(p.kind)
  BY <1>1, MonoidAssumption DEF Base, EvmddOf
<1>. QED
  BY <1>1, <1>2, Fields DEF Base

(* The input of a diagram is added to the value of its node. *)
LEMMA InputIsAdded ==
  ASSUME HeapOK, ValueExists, NEW s \in State, NEW kind \in Kind, kind \in {"int", "pair"},
         NEW e \in EvmddOf(kind)
  PROVE  Value(s)[e] = Plus(kind, e.input, Value(s)[Base(e.src)])
<1>1. PICK V : V = Value(s) /\ IsValue(V, s)
  BY ValueIsValue
<1>2. PICK D : D = {d \in Evmdd : d.src.kind = kind => V[d] = Plus(kind, d.input, V[Base(d.src)])}
  OBVIOUS
<1>3. ASSUME NEW d \in Evmdd, \A c \in Evmdd : LevelOf(c) < LevelOf(d) => c \in D
      PROVE  d \in D
  <2> SUFFICES ASSUME d.src.kind = kind
               PROVE  V[d] = Plus(kind, d.input, V[Base(d.src)])
    BY <1>2
  <2>1. PICK p, b : p = d.src /\ b = Base(p)
    OBVIOUS
  <2>2. d \in EvmddOf(kind) /\ p \in DOMAIN heap /\ p.kind = kind /\ d.input \in Carrier(kind)
    BY <2>1, SomeKind, Fields
  <2>3. b \in EvmddOf(kind) /\ b \in Evmdd /\ b.src = p /\ b.input = Neutral(kind)
    BY <2>1, <2>2, Bases
  <2>4. CASE IsTerminal(p)
    <3>1. V[d] = d.input /\ V[b] = Neutral(kind)
      BY <1>1, <2>1, <2>3, <2>4 DEF IsValue, StepValue
    <3>. QED
      BY <2>1, <2>2, <3>1, WeightLaws
  <2>5. CASE ~ IsTerminal(p)
    <3>1. PICK i : i = s[LevelOf(d)]
      OBVIOUS
    <3>2. LevelOf(b) = LevelOf(d) /\ ChildrenOf(b) = ChildrenOf(d)
      BY <2>1, <2>3 DEF LevelOf, ChildrenOf
    <3>3. PICK c, c0 : c = Child(d, i) /\ c0 = Child(b, i)
      OBVIOUS
    <3>4. /\ c \in EvmddOf(kind) /\ LevelOf(c) < LevelOf(d)
          /\ c0 \in EvmddOf(kind) /\ LevelOf(c0) < LevelOf(d)
      BY <2>1, <2>2, <2>3, <2>5, <3>1, <3>2, <3>3, Children, States
    <3>5. PICK q, w : q = ChildrenOf(d)[i].to /\ w = ChildrenOf(d)[i].w
      OBVIOUS
    <3>6. /\ c.src = q /\ c.input = Plus(kind, d.input, w)
          /\ c0.src = q /\ c0.input = Plus(kind, Neutral(kind), w)
      BY <2>1, <2>2, <2>3, <3>2, <3>3, <3>5 DEF Child
    <3>7. w \in Carrier(kind) /\ q \in DOMAIN heap
      <4>1. /\ LevelOf(d) \in Level /\ i \in 1 .. DomainSize[LevelOf(d)]
        BY <2>1, <2>2, <2>5, <3>1, Children, States
      <4>2. Node(p) /\ heap[p].level = LevelOf(d) /\ heap[p].children = ChildrenOf(d)
        BY <2>1, <2>2 DEF HeapOK, LevelOf, ChildrenOf
      <4>. QED
        BY <2>2, <2>5, <3>5, <4>1, <4>2 DEF Node
    <3>8. PICK x : x = V[Base(q)]
      OBVIOUS
    <3>9. x \in Carrier(kind)
      <4>1. q.kind = kind
        BY <3>4, <3>6, Fields
      <4>. QED
        BY <1>1, <3>7, <3>8, <4>1, Bases, ValuesTyped
    <3>10. V[c] = Plus(kind, c.input, x) /\ V[c0] = Plus(kind, c0.input, x)
      BY <1>2, <1>3, <3>4, <3>6, <3>8, Fields
    <3>11. V[d] = V[c] /\ V[b] = V[c0]
      BY <1>1, <2>1, <2>3, <2>5, <3>1, <3>2, <3>3 DEF IsValue, StepValue
    <3>12. c0.input = w /\ Plus(kind, Plus(kind, d.input, w), x) = Plus(kind, d.input, Plus(kind, w, x))
      <4>1. PICK a \in Carrier(kind) : a = d.input
        BY <2>2
      <4>2. Plus(kind, Neutral(kind), w) = w
        BY <3>7, WeightLaws
      <4>3. Plus(kind, Plus(kind, a, w), x) = Plus(kind, a, Plus(kind, w, x))
        BY <3>7, <3>9, WeightLaws
      <4>. QED
        BY <3>6, <4>1, <4>2, <4>3
    <3>. QED
      BY <2>1, <3>6, <3>10, <3>11, <3>12
  <2>. QED
    BY <2>4, <2>5
<1>4. Evmdd \subseteq D
  BY <1>3, DiagramInduction
<1>5. e \in D /\ e.src.kind = kind
  BY <1>4, Fields
<1>. QED
  BY <1>1, <1>2, <1>5

LEMMA Elements ==
  ASSUME NEW S, NEW vs \in Seq(S), vs # <<>>
  PROVE  Len(vs) \in Nat \ {0} /\ \A j \in 1 .. Len(vs) : vs[j] \in S
OBVIOUS

LEMMA SequenceOf ==
  ASSUME NEW S, NEW n \in Nat \ {0}, NEW f \in [1 .. n -> S]
  PROVE  f \in Seq(S) /\ Len(f) = n /\ f # <<>> /\ DOMAIN f = 1 .. n
<1>1. f \in Seq(S) /\ DOMAIN f = 1 .. n
  OBVIOUS
<1>2. Len(f) = n
  BY <1>1
<1>. QED
  BY <1>1, <1>2

(* The values a variable is evaluated for. *)
LEMMA ValuesOf ==
  ASSUME NEW state \in PartialState, NEW v \in Level
  PROVE  /\ Len(Values(state, v)) \in Nat \ {0}
         /\ \A j \in 1 .. Len(Values(state, v)) : Values(state, v)[j] \in 1 .. DomainSize[v]
<1>1. CASE v \in DOMAIN state
  <2>1. PICK vs : vs = state[v] /\ vs \in Seq(1 .. DomainSize[v]) /\ vs # <<>>
    BY <1>1, PartialStateAssumption
  <2>2. Values(state, v) = vs
    BY <1>1, <2>1 DEF Values
  <2>3. Len(vs) \in Nat \ {0} /\ \A j \in 1 .. Len(vs) : vs[j] \in 1 .. DomainSize[v]
    BY <2>1, Elements
  <2>. QED
    BY <2>2, <2>3
<1>2. CASE v \notin DOMAIN state
  <2>1. PICK d \in Nat \ {0} : d = DomainSize[v]
    BY DomainSizes
  <2>2. PICK vs : vs = [i \in 1 .. d |-> i] /\ vs = Values(state, v)
    BY <1>2, <2>1 DEF Values
  <2>3. Len(vs) = d /\ \A j \in 1 .. d : vs[j] \in 1 .. d
    BY <2>2
  <2>. QED
    BY <2>1, <2>2, <2>3
<1>. QED
  BY <1>1, <1>2

LEMMA ConsistentStates ==
  ASSUME NEW state \in PartialState, NEW s \in State
  PROVE  s \in Consistent(state) <=>
           \A v \in Level : \E j \in 1 .. Len(Values(state, v)) : s[v] = Values(state, v)[j]
<1>1. DOMAIN state \subseteq Level
  BY PartialStateAssumption
<1>2. ASSUME NEW v \in DOMAIN state
      PROVE  s[v] \in Range(state[v]) <=>
               \E j \in 1 .. Len(Values(state, v)) : s[v] = Values(state, v)[j]
  <2>1. PICK vs : vs = state[v] /\ vs \in Seq(1 .. DomainSize[v])
    BY <1>2, PartialStateAssumption
  <2>2. Values(state, v) = vs
    BY <1>2, <2>1 DEF Values
  <2>3. DOMAIN vs = 1 .. Len(vs)
    BY <2>1
  <2>. QED
    BY <2>1, <2>2, <2>3 DEF Range
<1>3. ASSUME NEW v \in Level, v \notin DOMAIN state
      PROVE  \E j \in 1 .. Len(Values(state, v)) : s[v] = Values(state, v)[j]
  <2>1. PICK d \in Nat \ {0} : d = DomainSize[v]
    BY DomainSizes
  <2>2. PICK vs : vs = [i \in 1 .. d |-> i] /\ vs = Values(state, v)
    BY <1>3, <2>1 DEF Values
  <2>3. s[v] \in 1 .. d /\ Len(vs) = d
    BY <2>1, <2>2, States
  <2>4. vs[s[v]] = s[v]
    BY <2>2, <2>3
  <2>. QED
    BY <2>2, <2>3, <2>4
<1>. QED
  BY <1>1, <1>2, <1>3 DEF Consistent

LEMMA SomeConsistentState ==
  ASSUME NEW state \in PartialState
  PROVE  \E s \in State : s \in Consistent(state)
<1>1. PICK s : s = [v \in Level |-> Values(state, v)[1]]
  OBVIOUS
<1>2. \A v \in Level : s[v] \in 1 .. DomainSize[v] /\ 1 \in 1 .. Len(Values(state, v))
  BY <1>1, ValuesOf
<1>3. s \in State
  BY <1>1, <1>2, DomainSizes DEF State
<1>4. \A v \in Level : \E j \in 1 .. Len(Values(state, v)) : s[v] = Values(state, v)[j]
  BY <1>1, <1>2
<1>. QED
  BY <1>3, <1>4, ConsistentStates

----------------------------------------------------------------------------
(* The values of a node on the allowed states, and of its edges. *)

NodeValues(p, state) == {Value(s)[Base(p)] : s \in Consistent(state)}

(* The edge for the j-th value that p is evaluated for. *)
EdgeAt(p, state, j) == heap[p].children[Values(state, heap[p].level)[j]]

EdgeValues(p, state, j) ==
  {Plus(p.kind, EdgeAt(p, state, j).w, x) : x \in NodeValues(EdgeAt(p, state, j).to, state)}

EdgesOf(p, state) == 1 .. Len(Values(state, heap[p].level))

LEMMA EdgeTypes ==
  ASSUME HeapOK, NEW p \in DOMAIN heap, ~ IsTerminal(p), NEW state \in PartialState,
         NEW j \in EdgesOf(p, state)
  PROVE  /\ heap[p].level \in Level
         /\ Values(state, heap[p].level)[j] \in DOMAIN heap[p].children
         /\ EdgeAt(p, state, j).w \in Carrier(p.kind)
         /\ EdgeAt(p, state, j).to \in DOMAIN heap
         /\ EdgeAt(p, state, j).to.kind = p.kind
         /\ heap[EdgeAt(p, state, j).to].level < heap[p].level
<1>1. /\ heap[p].level \in Level
      /\ heap[p].children \in
           [1 .. DomainSize[heap[p].level] ->
              [w : Carrier(p.kind), to : {q \in DOMAIN heap : q.kind = p.kind}]]
      /\ \A i \in DOMAIN heap[p].children :
           heap[heap[p].children[i].to].level < heap[p].level
  BY DEF HeapOK, Node
<1>2. PICK d : d = Values(state, heap[p].level)[j] /\ d \in 1 .. DomainSize[heap[p].level]
  BY <1>1, ValuesOf DEF EdgesOf
<1>. QED
  BY <1>1, <1>2 DEF EdgeAt

(* A node has the values of its edges. *)
LEMMA NodeUnitesEdges ==
  ASSUME HeapOK, ValueExists, ValuesDetermined, NEW p \in DOMAIN heap, ~ IsTerminal(p),
         p.kind \in {"int", "pair"}, NEW state \in PartialState
  PROVE  NodeValues(p, state) = UNION {EdgeValues(p, state, j) : j \in EdgesOf(p, state)}
<1>0. PICK kind \in Kind : kind = p.kind
  BY Bases
<1>1. PICK b, level, vs :
        /\ kind = p.kind /\ b = Base(p) /\ level = heap[p].level /\ vs = Values(state, level)
  BY <1>0
<1>2. /\ b \in EvmddOf(kind) /\ b \in Evmdd /\ b.src = p /\ b.input = Neutral(kind)
      /\ LevelOf(b) = level /\ ChildrenOf(b) = heap[p].children
  BY <1>1, Bases DEF LevelOf, ChildrenOf
<1>3. level \in Level
  BY <1>1, Levels
<1>5. ASSUME NEW s \in Consistent(state), NEW j \in EdgesOf(p, state), s[level] = vs[j],
             NEW edge, edge = EdgeAt(p, state, j)
      PROVE  Value(s)[b] = Plus(kind, edge.w, Value(s)[Base(edge.to)])
  <2>1. s \in State
    BY <1>5 DEF Consistent
  <2>2. PICK V : V = Value(s) /\ IsValue(V, s)
    BY <2>1, ValueIsValue
  <2>3. PICK c : c = Child(b, vs[j])
    OBVIOUS
  <2>4. vs[j] \in 1 .. DomainSize[level]
    BY <1>5, <2>1, <1>3, States
  <2>5. c \in EvmddOf(kind) /\ V[b] = V[c]
    <3>1. c \in EvmddOf(kind)
      BY <1>1, <1>2, <2>3, <2>4, Children
    <3>2. V[b] = V[c]
      BY <1>2, <1>5, <2>2, <2>3 DEF IsValue, StepValue
    <3>. QED
      BY <3>1, <3>2
  <2>6. c.src = edge.to /\ c.input = Plus(kind, Neutral(kind), edge.w)
    BY <1>1, <1>2, <1>5, <2>3 DEF Child, EdgeAt
  <2>7. c.input = edge.w
    BY <1>1, <1>5, <2>6, EdgeTypes, WeightLaws
  <2>8. V[c] = Plus(kind, c.input, V[Base(c.src)])
    BY <1>1, <2>1, <2>2, <2>5, InputIsAdded
  <2>. QED
    BY <2>2, <2>5, <2>6, <2>7, <2>8
<1>6. ASSUME NEW x \in NodeValues(p, state)
      PROVE  \E j \in EdgesOf(p, state) : x \in EdgeValues(p, state, j)
  <2>1. PICK s \in Consistent(state) : x = Value(s)[b]
    BY <1>1, <1>6 DEF NodeValues
  <2>2. PICK j \in EdgesOf(p, state) : s[level] = vs[j]
    BY <1>1, <1>3, ConsistentStates DEF EdgesOf, Consistent
  <2>3. PICK edge : edge = EdgeAt(p, state, j)
    OBVIOUS
  <2>4. x = Plus(kind, edge.w, Value(s)[Base(edge.to)])
    BY <1>5, <2>1, <2>2, <2>3
  <2>5. Value(s)[Base(edge.to)] \in NodeValues(edge.to, state)
    BY DEF NodeValues
  <2>. QED
    BY <1>1, <2>3, <2>4, <2>5 DEF EdgeValues
<1>7. ASSUME NEW j \in EdgesOf(p, state), NEW x \in EdgeValues(p, state, j)
      PROVE  x \in NodeValues(p, state)
  <2>1. PICK edge : edge = EdgeAt(p, state, j)
    OBVIOUS
  <2>2. PICK s \in Consistent(state) : x = Plus(kind, edge.w, Value(s)[Base(edge.to)])
    BY <1>1, <1>7, <2>1 DEF EdgeValues, NodeValues
  <2>3. s \in State /\ vs[j] \in 1 .. DomainSize[level]
    BY <1>1, <1>3, ValuesOf DEF EdgesOf, Consistent
  <2>4. PICK t \in State :
          /\ t[level] = vs[j]
          /\ \A v \in Level : v # level => t[v] = s[v]
          /\ \A e \in Evmdd : LevelOf(e) < level => Value(t)[e] = Value(s)[e]
    BY <1>3, <2>3, Set
  <2>5. t \in Consistent(state)
    <3>1. ASSUME NEW v \in Level
          PROVE  \E i \in 1 .. Len(Values(state, v)) : t[v] = Values(state, v)[i]
      <4>1. CASE v = level
        BY <1>1, <2>4, <4>1 DEF EdgesOf
      <4>2. CASE v # level
        BY <2>3, <2>4, <4>2, ConsistentStates
      <4>. QED
        BY <4>1, <4>2
    <3>. QED
      BY <3>1, ConsistentStates
  <2>6. Value(t)[Base(edge.to)] = Value(s)[Base(edge.to)]
    <3>1. /\ Base(edge.to) \in Evmdd /\ Base(edge.to).src = edge.to
          /\ heap[edge.to].level < level
      BY <1>1, <2>1, EdgeTypes, Bases
    <3>2. LevelOf(Base(edge.to)) < level
      BY <3>1 DEF LevelOf
    <3>. QED
      BY <2>4, <3>1, <3>2
  <2>7. Value(t)[b] = Plus(kind, edge.w, Value(t)[Base(edge.to)])
    BY <1>5, <2>1, <2>4, <2>5
  <2>. QED
    BY <1>1, <2>2, <2>5, <2>6, <2>7 DEF NodeValues
<1>. QED
  BY <1>6, <1>7

LEMMA NodeValuesTyped ==
  ASSUME HeapOK, ValueExists, NEW p \in DOMAIN heap, NEW state \in PartialState
  PROVE  NodeValues(p, state) \subseteq Carrier(p.kind) /\ NodeValues(p, state) # {}
<1>1. \A s \in Consistent(state) : Value(s)[Base(p)] \in Carrier(p.kind)
  BY Bases, ValuesTyped DEF Consistent
<1>. QED
  BY <1>1, SomeConsistentState DEF NodeValues

----------------------------------------------------------------------------
(* What a node and a diagram return is right. *)

Functor == {"max", "Relaxation"}

(* A result that is right if no addition wraps around. *)
Returned(fun, res, values) == res \in ResultOf(fun) /\ (NoOverflow => Right(fun, res, values))

LEMMA WeightsOf ==
  ASSUME NEW fun \in Functor, FunKind(fun) \in Kind
  PROVE  /\ FunKind(fun) \in {"int", "pair"}
         /\ fun = "max" => /\ Carrier(FunKind(fun)) = Ints /\ Neutral(FunKind(fun)) = 0
                           /\ \A a, b \in Ints : Plus(FunKind(fun), a, b) = IntPlus(a, b)
                           /\ \A w : Number(FunKind(fun), w) = w
         /\ fun = "Relaxation" =>
              /\ Carrier(FunKind(fun)) = Effects
              /\ Neutral(FunKind(fun)) = <<{}, 0>>
              /\ \A a, b \in Effects : Plus(FunKind(fun), a, b) = PairPlus(a, b)
              /\ \A w : Number(FunKind(fun), w) = w[2]
<1>1. CASE fun = "max"
  <2>1. FunKind(fun) = "int"
    BY <1>1 DEF FunKind
  <2>2. Carrier("int") = Ints /\ Neutral("int") = 0
    BY <2>1, EvalMonoidAssumption DEF MonoidCarrier, NeutralElement
  <2>3. \A a, b \in Ints : Plus("int", a, b) = IntPlus(a, b)
    BY <2>1, <2>2, EvalMonoidAssumption DEF MonoidPlus
  <2>4. \A w : Number("int", w) = w
    BY DEF Number
  <2>. QED
    BY <1>1, <2>1, <2>2, <2>3, <2>4
<1>2. CASE fun = "Relaxation"
  <2>1. FunKind(fun) = "pair"
    BY <1>2 DEF FunKind
  <2>2. Carrier("pair") = Effects /\ Neutral("pair") = <<{}, 0>>
    BY <2>1, EvalMonoidAssumption DEF Effects, MonoidCarrier, NeutralElement
  <2>3. \A a, b \in Effects : Plus("pair", a, b) = PairPlus(a, b)
    BY <2>1, <2>2, EvalMonoidAssumption DEF MonoidPlus
  <2>4. \A w : Number("pair", w) = w[2]
    BY DEF Number
  <2>. QED
    BY <1>2, <2>1, <2>2, <2>3, <2>4
<1>. QED
  BY <1>1, <1>2 DEF Functor

LEMMA AddReturned ==
  ASSUME NEW fun \in Functor, NEW kind \in Kind, kind = FunKind(fun),
         NEW values \in SUBSET Carrier(kind), NEW res, Returned(fun, res, values),
         NEW w \in Carrier(kind),
         NoOverflow => \A x \in values : Number(kind, w) + Number(kind, x) \in Ints
  PROVE  Returned(fun, ResPlus(fun, res, w), {Plus(kind, w, x) : x \in values})
<1>1. PICK sums : sums = {Plus(kind, w, x) : x \in values}
  OBVIOUS
<1>2. CASE fun = "max"
  <2>1. values \subseteq Ints /\ w \in Ints /\ res \in Ints
    BY <1>2, WeightsOf DEF Returned, ResultOf
  <2>2. sums = {IntPlus(w, x) : x \in values} /\ ResPlus(fun, res, w) = IntPlus(res, w)
    BY <1>1, <1>2, <2>1, WeightsOf DEF ResPlus
  <2>3. IntPlus(res, w) \in Ints
    BY <2>1, IntPlusLaws
  <2>4. ASSUME NoOverflow
        PROVE  IsGreatest(IntPlus(res, w), sums)
    <3>1. \A x \in values : w + x \in Ints
      BY <1>2, <2>4, WeightsOf
    <3>2. IsGreatest(res, values)
      BY <1>2, <2>4 DEF Returned, Right
    <3>. QED
      BY <2>1, <2>2, <3>1, <3>2, AddMax
  <2>. QED
    BY <1>1, <1>2, <2>2, <2>3, <2>4 DEF Returned, Right, ResultOf
<1>3. CASE fun = "Relaxation"
  <2>1. /\ values \in SUBSET Effects /\ w \in Effects
        /\ res \in ResultOf("Relaxation")
    BY <1>3, WeightsOf DEF Returned
  <2>2. sums = {PairPlus(w, x) : x \in values} /\ ResPlus(fun, res, w) = EvaluationPlus(res, w)
    BY <1>1, <1>3, <2>1, WeightsOf DEF ResPlus
  <2>3. EvaluationPlus(res, w) \in ResultOf("Relaxation")
    BY <2>1, EvaluationPlusIs
  <2>4. ASSUME NoOverflow
        PROVE  HasCheapest(EvaluationPlus(res, w), sums)
    <3>1. \A x \in values : w[2] + x[2] \in Ints
      BY <1>3, <2>4, WeightsOf
    <3>2. HasCheapest(res, values)
      BY <1>3, <2>4 DEF Returned, Right
    <3>. QED
      BY <2>1, <2>2, <3>1, <3>2, AddRelaxation
  <2>. QED
    BY <1>1, <1>3, <2>2, <2>3, <2>4 DEF Returned, Right
<1>. QED
  BY <1>2, <1>3 DEF Functor

(* What comes back over an edge. *)
LEMMA EdgeReturned ==
  ASSUME HeapOK, ValueExists, NEW fun \in Functor, NEW p \in DOMAIN heap, p.kind = FunKind(fun),
         ~ IsTerminal(p), NEW state \in PartialState, NEW j \in EdgesOf(p, state),
         NEW res, Returned(fun, res, NodeValues(EdgeAt(p, state, j).to, state))
  PROVE  Returned(fun, ResPlus(fun, res, EdgeAt(p, state, j).w), EdgeValues(p, state, j))
<1>1. PICK kind, edge, values : /\ kind = p.kind /\ edge = EdgeAt(p, state, j)
                                /\ values = NodeValues(edge.to, state)
  OBVIOUS
<1>2. /\ edge.w \in Carrier(kind) /\ edge.to \in DOMAIN heap /\ edge.to.kind = kind
      /\ kind \in Kind /\ kind = FunKind(fun)
  BY <1>1, EdgeTypes, Bases
<1>3. values \in SUBSET Carrier(kind)
  BY <1>1, <1>2, NodeValuesTyped
<1>4. ASSUME NoOverflow, NEW x \in values
      PROVE  Number(kind, edge.w) + Number(kind, x) \in Ints
  <2>1. Fits(edge.to, edge.w)
    BY <1>1, <1>4, EdgeTypes DEF NoOverflow, EdgeAt
  <2>2. kind \in {"int", "pair"}
    BY <1>2, WeightsOf
  <2>3. PICK s \in State : x = Value(s)[Base(edge.to)]
    BY <1>1, <1>4 DEF NodeValues, Consistent
  <2>. QED
    BY <1>2, <2>1, <2>2, <2>3 DEF Fits, Base
<1>5. EdgeValues(p, state, j) = {Plus(kind, edge.w, x) : x \in values}
  BY <1>1 DEF EdgeValues
<1>6. Returned(fun, ResPlus(fun, res, edge.w), {Plus(kind, edge.w, x) : x \in values})
  BY <1>1, <1>2, <1>3, <1>4, AddReturned
<1>. QED
  BY <1>1, <1>5, <1>6

(* What the client gets. *)
AllowedValues(e, state) == {Value(s)[e] : s \in Consistent(state)}

LEMMA DiagramReturned ==
  ASSUME HeapOK, ValueExists, NEW fun \in Functor, NEW kind \in Kind, kind = FunKind(fun),
         NEW e \in EvmddOf(kind), e \in held, NEW state \in PartialState,
         NEW res, Returned(fun, res, NodeValues(e.src, state))
  PROVE  Returned(fun, ResPlus(fun, res, e.input), AllowedValues(e, state))
<1>1. PICK p, w, values : p = e.src /\ w = e.input /\ values = NodeValues(p, state)
  OBVIOUS
<1>2. p \in DOMAIN heap /\ p.kind = kind /\ w \in Carrier(kind) /\ kind \in {"int", "pair"}
  BY <1>1, Fields, WeightsOf
<1>3. values \in SUBSET Carrier(kind)
  BY <1>1, <1>2, NodeValuesTyped
<1>4. ASSUME NoOverflow, NEW x \in values
      PROVE  Number(kind, w) + Number(kind, x) \in Ints
  <2>1. Fits(p, w)
    BY <1>1, <1>4 DEF NoOverflow
  <2>2. PICK s \in State : x = Value(s)[Base(p)]
    BY <1>1, <1>4 DEF NodeValues, Consistent
  <2>. QED
    BY <1>2, <2>1, <2>2 DEF Fits, Base
<1>5. AllowedValues(e, state) = {Plus(kind, w, x) : x \in values}
  <2>1. \A s \in Consistent(state) : Value(s)[e] = Plus(kind, w, Value(s)[Base(p)])
    BY <1>1, <1>2, InputIsAdded DEF Consistent
  <2>. QED
    BY <1>1, <2>1 DEF AllowedValues, NodeValues
<1>6. Returned(fun, ResPlus(fun, res, w), {Plus(kind, w, x) : x \in values})
  BY <1>1, <1>2, <1>3, <1>4, AddReturned
<1>. QED
  BY <1>1, <1>5, <1>6

(* What a terminal node returns. *)
LEMMA TerminalReturned ==
  ASSUME HeapOK, ValueExists, NEW fun \in Functor, NEW p \in DOMAIN heap, p.kind = FunKind(fun),
         IsTerminal(p), NEW state \in PartialState
  PROVE  Returned(fun, ResZero(fun), NodeValues(p, state))
<1>0. PICK kind \in Kind : kind = p.kind
  BY Bases
<1>1. PICK b : kind = p.kind /\ kind = FunKind(fun) /\ b = Base(p)
  BY <1>0
<1>2. \A s \in State : Value(s)[b] = Neutral(kind)
  BY <1>1, Bases, ValueIsValue DEF IsValue, StepValue
<1>3. NodeValues(p, state) = {Neutral(kind)}
  BY <1>1, <1>2, SomeConsistentState DEF NodeValues, Consistent
<1>4. CASE fun = "max"
  <2>1. ResZero(fun) = 0 /\ Neutral(kind) = 0
    BY <1>1, <1>4, WeightsOf DEF ResZero, NeutralElement
  <2>. QED
    BY <1>3, <1>4, <2>1, Machine DEF Returned, ResultOf, Right, IsGreatest
<1>5. CASE fun = "Relaxation"
  <2>1. PICK res, x : res = NoFacts /\ x = <<{}, 0>>
    OBVIOUS
  <2>2. /\ res.cheapest_cost = 0 /\ DOMAIN res.cheapest_facts = {} /\ x[1] = {} /\ x[2] = 0
        /\ res = [cheapest_facts |-> res.cheapest_facts, cheapest_cost |-> 0]
        /\ res.cheapest_facts \in [{} -> Ints]
    BY <2>1 DEF NoFacts, Empty
  <2>3. res \in ResultOf(fun)
    BY <1>5, <2>2, Machine DEF ResultOf, Costs
  <2>4. HasCheapest(res, {x})
    BY <2>2 DEF HasCheapest
  <2>5. ResZero(fun) = res /\ NodeValues(p, state) = {x}
    BY <1>1, <1>3, <1>5, <2>1, WeightsOf DEF ResZero
  <2>. QED
    BY <1>5, <2>3, <2>4, <2>5 DEF Returned, Right
<1>. QED
  BY <1>4, <1>5 DEF Functor

(* What another node returns. *)
LEMMA NodeReturned ==
  ASSUME HeapOK, ValueExists, ValuesDetermined, NEW fun \in Functor,
         NEW p \in DOMAIN heap, p.kind = FunKind(fun), ~ IsTerminal(p), NEW state \in PartialState,
         NEW rs \in Seq(ResultOf(fun)), Len(rs) = Len(Values(state, heap[p].level)),
         \A j \in 1 .. Len(rs) : Returned(fun, rs[j], EdgeValues(p, state, j))
  PROVE  Returned(fun, FunApply(fun, rs), NodeValues(p, state))
<1>1. PICK kind \in Kind, n \in Nat \ {0} :
        kind = p.kind /\ kind = FunKind(fun) /\ n = Len(rs) /\ EdgesOf(p, state) = 1 .. n
  BY Bases, Levels, ValuesOf DEF EdgesOf
<1>2. PICK values : values = [j \in 1 .. n |-> EdgeValues(p, state, j)]
  OBVIOUS
<1>3. NodeValues(p, state) = UNION {values[j] : j \in 1 .. n}
  BY <1>1, <1>2, NodeUnitesEdges, WeightsOf
<1>4. \A j \in 1 .. n : Returned(fun, rs[j], values[j])
  BY <1>1, <1>2
<1>5. \A j \in 1 .. n : values[j] \subseteq NodeValues(p, state)
  BY <1>3
<1>6. \A j \in 1 .. n : values[j] \subseteq Carrier(kind)
  BY <1>1, <1>5, NodeValuesTyped
<1>7. CASE fun = "max"
  <2>1. Carrier(kind) = Ints /\ rs \in Seq(Ints)
    BY <1>1, <1>7, WeightsOf DEF ResultOf
  <2>2. FunApply(fun, rs) \in Ints
    <3>1. PICK T : T = {rs[j] : j \in 1 .. n}
      OBVIOUS
    <3>2. T \subseteq Ints /\ T # {} /\ DOMAIN rs = 1 .. n
      BY <1>1, <2>1, <3>1
    <3>. QED
      BY <1>7, <3>1, <3>2, GreatestOf DEF FunApply
  <2>3. ASSUME NoOverflow
        PROVE  IsGreatest(FunApply(fun, rs), NodeValues(p, state))
    <3>1. \A j \in 1 .. n : values[j] \subseteq Ints /\ IsGreatest(rs[j], values[j])
      BY <1>4, <1>6, <1>7, <2>1, <2>3 DEF Returned, Right
    <3>. QED
      BY <1>1, <1>3, <1>7, <2>1, <3>1, MaxOfAll
  <2>. QED
    BY <1>7, <2>2, <2>3 DEF Returned, Right, ResultOf
<1>8. CASE fun = "Relaxation"
  <2>1. Carrier(kind) = Effects
    BY <1>1, <1>8, WeightsOf
  <2>2. FunApply(fun, rs) \in ResultOf(fun)
    BY <1>1, <1>8, CheapestOfAll DEF FunApply
  <2>3. ASSUME NoOverflow
        PROVE  HasCheapest(FunApply(fun, rs), NodeValues(p, state))
    <3>1. Carrier(kind) = Effects
      BY <2>1 DEF Effects
    <3>2. \A j \in 1 .. n : values[j] \subseteq Effects /\ HasCheapest(rs[j], values[j])
      BY <1>4, <1>6, <1>8, <3>1, <2>3 DEF Returned, Right
    <3>3. rs \in Seq(ResultOf("Relaxation"))
      BY <1>8
    <3>4. HasCheapest(FunApply("Relaxation", rs), UNION {values[j] : j \in 1 .. n})
      BY <1>1, <3>2, <3>3, RelaxationOfAll
    <3>. QED
      BY <1>3, <1>8, <3>4
  <2>. QED
    BY <1>8, <2>2, <2>3 DEF Returned, Right
<1>. QED
  BY <1>7, <1>8 DEF Functor

----------------------------------------------------------------------------
(* The inductive invariant. *)

(* An id identifies a node among those of a kind: what EvalCache relies on. *)
NodesIdentified == \A p, q \in DOMAIN heap : (p.kind = q.kind /\ p.id = q.id) => p = q

(* A call c, running or finished. *)
CallFor(c) ==
  /\ c.fun \in Functor /\ FunKind(c.fun) \in Kind
  /\ c.e \in EvmddOf(FunKind(c.fun)) /\ c.e \in held
  /\ c.state \in PartialState

EvalCacheInv(cache, c) ==
  /\ DOMAIN cache \subseteq Nat
  /\ \A p \in DOMAIN heap :
       (p.kind = FunKind(c.fun) /\ p.id \in DOMAIN cache)
       => Returned(c.fun, cache[p.id], NodeValues(p, c.state))

EvalFrames(fun) ==
  [node : {p \in DOMAIN heap : p.kind = FunKind(fun)}, pc : {"enter", "children"},
   child_results : Seq(ResultOf(fun))]

(* The values that the variable of an activation's node is evaluated for. *)
ValuesFor(fr, c) == Values(c.state, heap[fr.node].level)

(* An activation: what it has so far are results of its first edges. *)
EvalFrameInv(fr, c) ==
  /\ fr.pc = "enter" => fr.child_results = <<>>
  /\ fr.pc = "children" => /\ ~ IsTerminal(fr.node)
                           /\ Len(fr.child_results) <= Len(ValuesFor(fr, c))
  /\ \A j \in 1 .. Len(fr.child_results) :
       Returned(c.fun, fr.child_results[j], EdgeValues(fr.node, c.state, j))

(* Activation fr waits for its recursive call, which is activation next. *)
Awaits(fr, next, c) ==
  /\ fr.pc = "children"
  /\ Len(fr.child_results) < Len(ValuesFor(fr, c))
  /\ next.node = EdgeAt(fr.node, c.state, Len(fr.child_results) + 1).to

EvalLevel(fr) == heap[fr.node].level

(* An evaluation that runs. *)
Evaluating(frames, cache, c) ==
  /\ CallFor(c) /\ EvalCacheInv(cache, c)
  /\ frames \in Seq(EvalFrames(c.fun)) /\ frames # <<>>
  /\ frames[1].node = c.e.src
  /\ \A i \in 1 .. Len(frames) : EvalFrameInv(frames[i], c)
  /\ \A i \in 1 .. Len(frames) - 1 : Awaits(frames[i], frames[i + 1], c)
  /\ \A i, j \in 1 .. Len(frames) : i < j => EvalLevel(frames[j]) < EvalLevel(frames[i])
  /\ \A i \in 1 .. Len(frames) : frames[i].pc = "children" => frames[i].node.id \notin DOMAIN cache

Resting(frames, cache, c) == frames = <<>> /\ cache = Empty /\ c = NoEvaluation

AnswerFor(a) ==
  a = NoEvaluation \/ (CallFor(a) /\ Returned(a.fun, a.value, AllowedValues(a.e, a.state)))

EvalState(frames, cache, c, a) ==
  (Resting(frames, cache, c) \/ Evaluating(frames, cache, c)) /\ AnswerFor(a)

EvalInv ==
  RefinementInv /\ OwnershipInv /\ EvalState(eval_stack, eval_cache, eval_call, answer)

LEMMA IdsIdentify ==
  ASSUME OneFactory, OwnershipInv
  PROVE  NodesIdentified
<1> SUFFICES ASSUME NEW p \in DOMAIN heap, NEW q \in DOMAIN heap, p.kind = q.kind, p.id = q.id
             PROVE  p = q
  BY DEF NodesIdentified
<1>1. /\ p = [kind |-> p.kind, fac |-> p.fac, id |-> p.id]
      /\ q = [kind |-> q.kind, fac |-> q.fac, id |-> q.id]
  BY DEF OwnershipInv, Invariant, HeapOK, Pointer
<1>2. /\ p.fac \in DOMAIN factories /\ p.kind = factories[p.fac]
      /\ q.fac \in DOMAIN factories /\ q.kind = factories[q.fac]
  BY DEF OwnershipInv, NodesStored
<1>3. p.fac = q.fac
  BY <1>2, OneFactoryPerKind DEF OwnershipInv
<1>. QED
  BY <1>1, <1>3

(* An evaluation changes no diagram, so that all of this means the same    *)
(* before and after its steps.                                             *)
LEMMA SameValue ==
  ASSUME UNCHANGED heap, NEW s
  PROVE  Value(s)' = Value(s)
BY DEF Value, Evmdd, EvmddOf, LevelOf, ChildrenOf, Child, IsTerminal

LEMMA SameNodeValues ==
  ASSUME UNCHANGED heap
  PROVE  /\ \A p, state : NodeValues(p, state)' = NodeValues(p, state)
         /\ \A e, state : AllowedValues(e, state)' = AllowedValues(e, state)
         /\ \A p, state, j : EdgeAt(p, state, j)' = EdgeAt(p, state, j)
         /\ \A p, state, j : EdgeValues(p, state, j)' = EdgeValues(p, state, j)
<1>1. \A state : Consistent(state)' = Consistent(state)
  BY DEF Consistent, State, Level, NumLevels
<1>2. \A p, state : NodeValues(p, state)' = NodeValues(p, state)
  BY <1>1, SameValue DEF NodeValues, Base
<1>3. \A e, state : AllowedValues(e, state)' = AllowedValues(e, state)
  BY <1>1, SameValue DEF AllowedValues
<1>4. \A p, state, j : EdgeAt(p, state, j)' = EdgeAt(p, state, j)
  BY DEF EdgeAt, Values
<1>5. \A p, state, j : EdgeValues(p, state, j)' = EdgeValues(p, state, j)
  BY <1>2, <1>4 DEF EdgeValues
<1>. QED
  BY <1>2, <1>3, <1>4, <1>5

LEMMA SameEvaluation ==
  ASSUME UNCHANGED <<heap, held>>, NEW frames, NEW cache, NEW c, NEW a,
         EvalState(frames, cache, c, a)
  PROVE  EvalState(frames, cache, c, a)'
<1>1. NoOverflow' = NoOverflow
  <2>1. \A p, w : Fits(p, w)' = Fits(p, w)
    BY SameValue DEF Fits, State, Level, NumLevels
  <2>. QED
    BY <2>1 DEF NoOverflow
<1>2. \A fun, res, values : Returned(fun, res, values)' = Returned(fun, res, values)
  BY <1>1 DEF Returned, Right, IsGreatest, HasCheapest, ResultOf
<1>3. \A x : CallFor(x)' = CallFor(x)
  BY DEF CallFor, EvmddOf
<1>4. \A x : AnswerFor(x)' = AnswerFor(x)
  BY <1>2, <1>3, SameNodeValues DEF AnswerFor
<1>5. EvalCacheInv(cache, c)' = EvalCacheInv(cache, c)
  BY <1>2, SameNodeValues DEF EvalCacheInv
<1>6. \A fr : ValuesFor(fr, c)' = ValuesFor(fr, c)
  BY DEF ValuesFor, Values
<1>7. \A fr : EvalFrameInv(fr, c)' = EvalFrameInv(fr, c)
  BY <1>2, <1>6, SameNodeValues DEF EvalFrameInv, IsTerminal
<1>8. \A fr, next : Awaits(fr, next, c)' = Awaits(fr, next, c)
  BY <1>6, SameNodeValues DEF Awaits
<1>9. \A fun : EvalFrames(fun)' = EvalFrames(fun)
  BY DEF EvalFrames, ResultOf
<1>10. \A fr : EvalLevel(fr)' = EvalLevel(fr)
  BY DEF EvalLevel
<1>11. Evaluating(frames, cache, c)' = Evaluating(frames, cache, c)
  BY <1>3, <1>5, <1>7, <1>8, <1>9, <1>10 DEF Evaluating
<1>. QED
  BY <1>4, <1>11 DEF EvalState, Resting

----------------------------------------------------------------------------
(* The steps of an evaluation. *)

LEMMA EvalFrameTypes ==
  ASSUME NEW fun, NEW fr \in EvalFrames(fun)
  PROVE  /\ fr.node \in DOMAIN heap /\ fr.node.kind = FunKind(fun)
         /\ fr.pc \in {"enter", "children"}
         /\ fr.child_results \in Seq(ResultOf(fun)) /\ Len(fr.child_results) \in Nat
         /\ fr = [node |-> fr.node, pc |-> fr.pc, child_results |-> fr.child_results]
<1>1. /\ fr.node \in DOMAIN heap /\ fr.node.kind = FunKind(fun)
      /\ fr.pc \in {"enter", "children"}
      /\ fr.child_results \in Seq(ResultOf(fun))
      /\ fr = [node |-> fr.node, pc |-> fr.pc, child_results |-> fr.child_results]
  BY DEF EvalFrames
<1>. QED
  BY <1>1

LEMMA MakeEvalFrame ==
  ASSUME NEW fun, NEW p \in DOMAIN heap, p.kind = FunKind(fun), NEW pc \in {"enter", "children"},
         NEW rs \in Seq(ResultOf(fun))
  PROVE  [node |-> p, pc |-> pc, child_results |-> rs] \in EvalFrames(fun)
BY DEF EvalFrames

LEMMA StackOfEvaluation ==
  ASSUME NEW frames, NEW cache, NEW c, Evaluating(frames, cache, c)
  PROVE  /\ Len(frames) \in Nat \ {0} /\ DOMAIN frames = 1 .. Len(frames)
         /\ \A i \in 1 .. Len(frames) : frames[i] \in EvalFrames(c.fun)
<1>1. PICK S : S = EvalFrames(c.fun)
  OBVIOUS
<1>2. frames \in Seq(S) /\ frames # <<>>
  BY <1>1 DEF Evaluating
<1>3. DOMAIN frames = 1 .. Len(frames)
  BY <1>2
<1>. QED
  BY <1>1, <1>2, <1>3, Elements

LEMMA EvaluatingIs ==
  ASSUME NEW frames, NEW cache, NEW c, NEW n, n = Len(frames)
  PROVE  Evaluating(frames, cache, c) <=>
           /\ CallFor(c) /\ EvalCacheInv(cache, c)
           /\ frames \in Seq(EvalFrames(c.fun)) /\ frames # <<>>
           /\ frames[1].node = c.e.src
           /\ \A i \in 1 .. n : EvalFrameInv(frames[i], c)
           /\ \A i \in 1 .. n - 1 : Awaits(frames[i], frames[i + 1], c)
           /\ \A i, j \in 1 .. n : i < j => EvalLevel(frames[j]) < EvalLevel(frames[i])
           /\ \A i \in 1 .. n : frames[i].pc = "children" => frames[i].node.id \notin DOMAIN cache
BY Zenon DEF Evaluating

LEMMA StackAfterReturn ==
  ASSUME NEW S, NEW frames \in Seq(S), NEW n \in Nat \ {0}, Len(frames) = n + 1, NEW x
  PROVE  [SubSeq(frames, 1, n) EXCEPT ![n].child_results = Append(@, x)]
           = [i \in 1 .. n |-> IF i < n THEN frames[i]
                               ELSE [frames[n] EXCEPT !.child_results = Append(@, x)]]
<1>1. PICK old : old = SubSeq(frames, 1, n)
  OBVIOUS
<1>2. old = [i \in 1 .. n |-> frames[i]]
  BY <1>1
<1>3. PICK top : top = [frames[n] EXCEPT !.child_results = Append(@, x)]
  OBVIOUS
<1>4. [old EXCEPT ![n].child_results = Append(@, x)] = [old EXCEPT ![n] = top]
  BY <1>2, <1>3
<1>5. [old EXCEPT ![n] = top] = [i \in 1 .. n |-> IF i < n THEN frames[i] ELSE top]
  BY <1>2
<1>. QED
  BY <1>1, <1>3, <1>4, <1>5

(* new is the stack frames of n + 1 activations after the innermost has    *)
(* returned res: w is the weight its caller adds, top what becomes of the  *)
(* caller.                                                                 *)
ReturnedTo(frames, n, c, res, caller, w, top, new) ==
  /\ caller = frames[n]
  /\ w = EdgeAt(caller.node, c.state, Len(caller.child_results) + 1).w
  /\ top = [caller EXCEPT !.child_results = Append(@, ResPlus(c.fun, res, w))]
  /\ new \in [1 .. n -> {top} \cup {frames[i] : i \in 1 .. n}]
  /\ new[n] = top
  /\ \A i \in 1 .. n : i < n => new[i] = frames[i]

(* A recursive call returns to its caller. *)
LEMMA EvalReturns ==
  ASSUME HeapOK, ValueExists, NEW frames, NEW cache, NEW c, Evaluating(frames, cache, c),
         NEW n \in Nat \ {0}, Len(frames) = n + 1,
         NEW res, Returned(c.fun, res, NodeValues(frames[n + 1].node, c.state)),
         NEW cache2, EvalCacheInv(cache2, c), \A i \in 1 .. n : frames[i].node.id \notin DOMAIN cache2,
         NEW caller, NEW w, NEW top, NEW new, ReturnedTo(frames, n, c, res, caller, w, top, new)
  PROVE  Evaluating(new, cache2, c)
<1>. USE DEF ReturnedTo
<1>1. PICK m, j, sum, p :
        /\ m = Len(caller.child_results) /\ j = m + 1 /\ sum = ResPlus(c.fun, res, w)
        /\ p = caller.node
  OBVIOUS
<1>2. /\ Len(frames) = n + 1 /\ DOMAIN frames = 1 .. n + 1 /\ n \in 1 .. Len(frames)
      /\ \A i \in 1 .. n + 1 : frames[i] \in EvalFrames(c.fun)
  BY StackOfEvaluation
<1>30. /\ CallFor(c) /\ frames[1].node = c.e.src /\ frames \in Seq(EvalFrames(c.fun))
       /\ \A i \in 1 .. n : EvalFrameInv(frames[i], c) /\ Awaits(frames[i], frames[i + 1], c)
       /\ \A i, k \in 1 .. n : i < k => EvalLevel(frames[k]) < EvalLevel(frames[i])
  <2>1. PICK l \in Nat : l = Len(frames) /\ l = n + 1
    BY <1>2
  <2>2. /\ CallFor(c) /\ frames[1].node = c.e.src /\ frames \in Seq(EvalFrames(c.fun))
        /\ \A i \in 1 .. l : EvalFrameInv(frames[i], c)
        /\ \A i \in 1 .. l - 1 : Awaits(frames[i], frames[i + 1], c)
        /\ \A i, k \in 1 .. l : i < k => EvalLevel(frames[k]) < EvalLevel(frames[i])
    BY <2>1, EvaluatingIs
  <2>3. \A i \in 1 .. n : i \in 1 .. l /\ i \in 1 .. l - 1
    BY <2>1
  <2>. QED
    BY <2>2, <2>3
<1>3. /\ caller \in EvalFrames(c.fun) /\ p \in DOMAIN heap /\ p.kind = FunKind(c.fun)
      /\ m \in Nat /\ caller.child_results \in Seq(ResultOf(c.fun))
      /\ caller = [node |-> p, pc |-> caller.pc, child_results |-> caller.child_results]
  BY <1>1, <1>2, EvalFrameTypes
<1>4. EvalFrameInv(caller, c) /\ Awaits(caller, frames[n + 1], c) /\ CallFor(c)
  BY <1>30
<1>5. /\ caller.pc = "children" /\ ~ IsTerminal(p) /\ m < Len(ValuesFor(caller, c))
      /\ frames[n + 1].node = EdgeAt(p, c.state, j).to
  BY <1>1, <1>4 DEF Awaits, EvalFrameInv
<1>6. Len(ValuesFor(caller, c)) \in Nat /\ EdgesOf(p, c.state) = 1 .. Len(ValuesFor(caller, c))
  BY <1>1, <1>3, <1>4, <1>5, Levels, ValuesOf DEF ValuesFor, EdgesOf, CallFor
<1>7. Returned(c.fun, sum, EdgeValues(p, c.state, j))
  <2>1. j \in EdgesOf(p, c.state)
    BY <1>1, <1>3, <1>5, <1>6
  <2>. QED
    BY <1>1, <1>3, <1>4, <1>5, <2>1, EdgeReturned DEF CallFor
<1>8. PICK rs : rs = Append(caller.child_results, sum)
  OBVIOUS
<1>9. /\ rs \in Seq(ResultOf(c.fun)) /\ Len(rs) = j /\ rs[j] = sum
      /\ \A i \in 1 .. m : rs[i] = caller.child_results[i]
  <2>1. sum \in ResultOf(c.fun)
    BY <1>7 DEF Returned
  <2>. QED
    BY <1>1, <1>3, <1>8, <2>1
<1>10. top = [node |-> p, pc |-> "children", child_results |-> rs]
  BY <1>1, <1>3, <1>5, <1>8
<1>11. top \in EvalFrames(c.fun)
  <2>1. [node |-> p, pc |-> "children", child_results |-> rs] \in EvalFrames(c.fun)
    BY <1>3, <1>9, MakeEvalFrame, Zenon
  <2>. QED
    BY <1>10, <2>1, Zenon
<1>12. /\ Len(new) = n /\ new[n] = top /\ new \in Seq(EvalFrames(c.fun)) /\ new # <<>>
       /\ \A i \in 1 .. n : i # n => new[i] = frames[i]
  <2>1. new \in [1 .. n -> EvalFrames(c.fun)]
    BY <1>2, <1>11
  <2>2. new \in Seq(EvalFrames(c.fun)) /\ Len(new) = n /\ new # <<>>
    BY <2>1, SequenceOf
  <2>. QED
    BY <2>2
<1>13. EvalFrameInv(top, c)
  <2>1. ASSUME NEW i \in 1 .. Len(rs)
        PROVE  Returned(c.fun, rs[i], EdgeValues(p, c.state, i))
    <3>1. CASE i = j
      BY <1>7, <1>9, <3>1
    <3>2. CASE i # j
      <4>1. i \in 1 .. m
        BY <1>1, <1>3, <1>9, <3>2
      <4>. QED
        BY <1>1, <1>4, <1>9, <4>1 DEF EvalFrameInv
    <3>. QED
      BY <3>1, <3>2
  <2>2. ValuesFor(top, c) = ValuesFor(caller, c)
    BY <1>1, <1>10 DEF ValuesFor
  <2>3. Len(rs) <= Len(ValuesFor(top, c))
    BY <1>1, <1>3, <1>5, <1>6, <1>9, <2>2
  <2>. QED
    BY <1>5, <1>10, <2>1, <2>3 DEF EvalFrameInv
<1>14. \A i \in 1 .. n : new[i].node = frames[i].node /\ EvalLevel(new[i]) = EvalLevel(frames[i])
  BY <1>1, <1>10, <1>12 DEF EvalLevel
<1>15. \A i \in 1 .. n : EvalFrameInv(new[i], c)
  BY <1>12, <1>13, <1>30
<1>16. ASSUME NEW i \in 1 .. n - 1
       PROVE  Awaits(new[i], new[i + 1], c)
  <2>1. i \in 1 .. n /\ i # n /\ i + 1 \in 1 .. n
    OBVIOUS
  <2>2. Awaits(frames[i], frames[i + 1], c)
    BY <1>30, <2>1
  <2>. QED
    BY <1>12, <1>14, <2>1, <2>2 DEF Awaits
<1>17. \A i, k \in 1 .. n : i < k => EvalLevel(new[k]) < EvalLevel(new[i])
  BY <1>14, <1>30
<1>18. new[1].node = c.e.src
  <2>1. new[1].node = frames[1].node
    BY <1>14
  <2>. QED
    BY <1>30, <2>1
<1>19. \A i \in 1 .. n : new[i].node.id \notin DOMAIN cache2
  BY <1>14
<1>. QED
  BY <1>4, <1>12, <1>15, <1>16, <1>17, <1>18, <1>19 DEF Evaluating

(* The same for the stack as EvalReturn writes it. *)
LEMMA EvalReturnsTo ==
  ASSUME HeapOK, ValueExists, NEW frames, NEW cache, NEW c, Evaluating(frames, cache, c),
         NEW n \in Nat \ {0}, Len(frames) = n + 1,
         NEW res, Returned(c.fun, res, NodeValues(frames[n + 1].node, c.state)),
         NEW cache2, EvalCacheInv(cache2, c), \A i \in 1 .. n : frames[i].node.id \notin DOMAIN cache2,
         NEW x, x = ResPlus(c.fun, res, EdgeAt(frames[n].node, c.state, Len(frames[n].child_results) + 1).w)
  PROVE  Evaluating([SubSeq(frames, 1, n) EXCEPT ![n].child_results = Append(@, x)], cache2, c)
<1>1. PICK old : old = SubSeq(frames, 1, n)
  OBVIOUS
<1>2. PICK S : S = EvalFrames(c.fun)
  OBVIOUS
<1>3. frames \in Seq(S)
  BY <1>2, EvaluatingIs
<1>4. old = [i \in 1 .. n |-> frames[i]]
  BY <1>1, <1>3
<1>5. PICK caller, w : caller = frames[n] /\ w = EdgeAt(caller.node, c.state, Len(caller.child_results) + 1).w
  OBVIOUS
<1>6. PICK top : top = [caller EXCEPT !.child_results = Append(@, ResPlus(c.fun, res, w))]
  OBVIOUS
<1>7. top = [frames[n] EXCEPT !.child_results = Append(@, x)]
  BY <1>5, <1>6
<1>8. [old EXCEPT ![n].child_results = Append(@, x)] = [old EXCEPT ![n] = top]
  BY <1>4, <1>7
<1>9. PICK new : new = [old EXCEPT ![n] = top]
  OBVIOUS
<1>10. /\ new \in [1 .. n -> {top} \cup {frames[i] : i \in 1 .. n}]
       /\ new[n] = top /\ \A i \in 1 .. n : i < n => new[i] = frames[i]
  BY <1>4, <1>9
<1>11. ReturnedTo(frames, n, c, res, caller, w, top, new)
  BY <1>5, <1>6, <1>10 DEF ReturnedTo
<1>12. Evaluating(new, cache2, c)
  BY <1>11, EvalReturns
<1>. QED
  BY <1>1, <1>8, <1>9, <1>12

(* The outermost activation returns to evaluate_partial. *)
LEMMA EvalEnds ==
  ASSUME HeapOK, ValueExists, NEW frames, NEW cache, NEW c, Evaluating(frames, cache, c),
         Len(frames) = 1, NEW res, Returned(c.fun, res, NodeValues(frames[1].node, c.state)),
         NEW a, a = [fun |-> c.fun, e |-> c.e, state |-> c.state,
                     value |-> ResPlus(c.fun, res, c.e.input)]
  PROVE  AnswerFor(a)
<1>1. CallFor(c) /\ frames[1].node = c.e.src
  BY DEF Evaluating
<1>2. Returned(c.fun, a.value, AllowedValues(c.e, c.state))
  BY <1>1, DiagramReturned DEF CallFor
<1>3. CallFor(a)
  BY <1>1 DEF CallFor
<1>. QED
  BY <1>2, <1>3 DEF AnswerFor

(* The cache does not have the node. *)
LEMMA EvalMisses ==
  ASSUME HeapOK, NEW frames, NEW cache, NEW c, Evaluating(frames, cache, c),
         NEW n, n = Len(frames), frames[n].pc = "enter", ~ IsTerminal(frames[n].node),
         frames[n].node.id \notin DOMAIN cache,
         NEW new, new = [frames EXCEPT ![n].pc = "children"]
  PROVE  Evaluating(new, cache, c)
<1>1. PICK fr, top : fr = frames[n] /\ top = [fr EXCEPT !.pc = "children"]
  OBVIOUS
<1>2. /\ n \in Nat \ {0} /\ DOMAIN frames = 1 .. n
      /\ \A i \in 1 .. n : frames[i] \in EvalFrames(c.fun)
  BY StackOfEvaluation
<1>3. /\ fr \in EvalFrames(c.fun) /\ fr.node \in DOMAIN heap
      /\ fr = [node |-> fr.node, pc |-> fr.pc, child_results |-> fr.child_results]
      /\ n \in 1 .. n /\ EvalFrameInv(fr, c) /\ CallFor(c)
  BY <1>1, <1>2, EvalFrameTypes DEF Evaluating
<1>4. fr.child_results = <<>> /\ top = [node |-> fr.node, pc |-> "children", child_results |-> <<>>]
  BY <1>1, <1>3 DEF EvalFrameInv
<1>5. top \in EvalFrames(c.fun)
  BY <1>3, <1>4, MakeEvalFrame, EvalFrameTypes
<1>6. EvalFrameInv(top, c)
  <2>1. Len(ValuesFor(top, c)) \in Nat
    BY <1>1, <1>3, <1>4, Levels, ValuesOf DEF ValuesFor, CallFor
  <2>. QED
    BY <1>1, <1>4, <2>1 DEF EvalFrameInv
<1>7. new = [i \in 1 .. n |-> IF i = n THEN top ELSE frames[i]]
  BY <1>1, <1>2
<1>8. \A i \in 1 .. n : (IF i = n THEN top ELSE frames[i]) \in EvalFrames(c.fun)
  BY <1>2, <1>5
<1>9. new \in [1 .. n -> EvalFrames(c.fun)]
  BY <1>7, <1>8
<1>10. new \in Seq(EvalFrames(c.fun)) /\ Len(new) = n /\ new # <<>>
  BY <1>2, <1>9
<1>11. \A i \in 1 .. n : /\ new[i].node = frames[i].node
                         /\ EvalLevel(new[i]) = EvalLevel(frames[i])
                         /\ EvalFrameInv(new[i], c)
  BY <1>1, <1>4, <1>6, <1>7 DEF EvalLevel, Evaluating
<1>12. ASSUME NEW i \in 1 .. n - 1
       PROVE  Awaits(new[i], new[i + 1], c)
  <2>1. i \in 1 .. n /\ i # n /\ i + 1 \in 1 .. n
    BY <1>2
  <2>2. Awaits(frames[i], frames[i + 1], c) /\ new[i] = frames[i]
    BY <1>7, <2>1 DEF Evaluating
  <2>. QED
    BY <1>11, <2>1, <2>2 DEF Awaits
<1>13. \A i \in 1 .. n : new[i].pc = "children" => new[i].node.id \notin DOMAIN cache
  BY <1>1, <1>7, <1>11 DEF Evaluating
<1>14. /\ \A i, j \in 1 .. n : i < j => EvalLevel(new[j]) < EvalLevel(new[i])
       /\ new[1].node = c.e.src /\ EvalCacheInv(cache, c)
  BY <1>2, <1>11 DEF Evaluating
<1>. QED
  BY <1>3, <1>10, <1>11, <1>12, <1>13, <1>14 DEF Evaluating

(* The next recursive call. *)
LEMMA EvalRecurses ==
  ASSUME HeapOK, NEW frames, NEW cache, NEW c, Evaluating(frames, cache, c),
         NEW n, n = Len(frames), NEW fr, fr = frames[n], fr.pc = "children",
         Len(fr.child_results) < Len(ValuesFor(fr, c)),
         NEW q, q = EdgeAt(fr.node, c.state, Len(fr.child_results) + 1).to,
         NEW new, new = Append(frames, EvalFrame(q))
  PROVE  Evaluating(new, cache, c)
<1>1. /\ n \in Nat \ {0} /\ DOMAIN frames = 1 .. n
      /\ \A i \in 1 .. n : frames[i] \in EvalFrames(c.fun)
  BY StackOfEvaluation
<1>2. /\ CallFor(c) /\ EvalCacheInv(cache, c)
      /\ frames \in Seq(EvalFrames(c.fun)) /\ frames[1].node = c.e.src
      /\ \A i \in 1 .. n : EvalFrameInv(frames[i], c)
      /\ \A i \in 1 .. n - 1 : Awaits(frames[i], frames[i + 1], c)
      /\ \A i, j \in 1 .. n : i < j => EvalLevel(frames[j]) < EvalLevel(frames[i])
      /\ \A i \in 1 .. n : frames[i].pc = "children" => frames[i].node.id \notin DOMAIN cache
  BY EvaluatingIs
<1>3. PICK m, j, p : m = Len(fr.child_results) /\ j = m + 1 /\ p = fr.node
  OBVIOUS
<1>4. /\ p \in DOMAIN heap /\ p.kind = FunKind(c.fun) /\ m \in Nat /\ n \in 1 .. n
  BY <1>1, <1>3, EvalFrameTypes
<1>5. ~ IsTerminal(p)
  BY <1>2, <1>3, <1>4 DEF EvalFrameInv
<1>6. j \in EdgesOf(p, c.state)
  <2>1. Len(ValuesFor(fr, c)) \in Nat /\ EdgesOf(p, c.state) = 1 .. Len(ValuesFor(fr, c))
    BY <1>2, <1>3, <1>4, <1>5, Levels, ValuesOf DEF ValuesFor, EdgesOf, CallFor
  <2>. QED
    BY <1>3, <1>4, <2>1
<1>7. /\ q \in DOMAIN heap /\ q.kind = FunKind(c.fun) /\ heap[q].level < heap[p].level
      /\ heap[q].level \in Int /\ heap[p].level \in Int
  <2>1. q \in DOMAIN heap /\ q.kind = FunKind(c.fun) /\ heap[q].level < heap[p].level
    BY <1>2, <1>3, <1>4, <1>5, <1>6, EdgeTypes DEF CallFor
  <2>. QED
    BY <1>4, <2>1, Levels, DomainSizes
<1>8. PICK top : top = EvalFrame(q)
  OBVIOUS
<1>9. /\ top.node = q /\ top.pc = "enter" /\ top.child_results = <<>>
      /\ top \in EvalFrames(c.fun)
  <2>1. <<>> \in Seq(ResultOf(c.fun))
    OBVIOUS
  <2>2. [node |-> q, pc |-> "enter", child_results |-> <<>>] \in EvalFrames(c.fun)
    BY <1>7, <2>1, MakeEvalFrame
  <2>. QED
    BY <1>8, <2>2 DEF EvalFrame
<1>10. /\ new \in Seq(EvalFrames(c.fun)) /\ Len(new) = n + 1 /\ new # <<>> /\ new[n + 1] = top
       /\ \A i \in 1 .. n : new[i] = frames[i]
  BY <1>1, <1>2, <1>8, <1>9
<1>11. EvalFrameInv(top, c)
  BY <1>9 DEF EvalFrameInv
<1>12. \A i \in 1 .. n + 1 : i \in 1 .. n \/ i = n + 1
  BY <1>1
<1>13. \A i \in 1 .. n + 1 : EvalFrameInv(new[i], c)
  BY <1>2, <1>10, <1>11, <1>12
<1>14. ASSUME NEW i \in 1 .. n
       PROVE  Awaits(new[i], new[i + 1], c)
  <2>1. CASE i = n
    BY <1>1, <1>3, <1>9, <1>10, <2>1 DEF Awaits
  <2>2. CASE i # n
    <3>1. i \in 1 .. n - 1 /\ i + 1 \in 1 .. n
      BY <1>1, <2>2
    <3>. QED
      BY <1>2, <1>10, <3>1
  <2>. QED
    BY <2>1, <2>2
<1>15. ASSUME NEW i \in 1 .. n
       PROVE  heap[q].level < EvalLevel(frames[i])
  <2>1. EvalLevel(frames[n]) = heap[p].level
    BY <1>3 DEF EvalLevel
  <2>2. CASE i = n
    BY <1>7, <2>1, <2>2
  <2>3. CASE i # n
    <3>1. i < n
      BY <1>1, <2>3
    <3>2. heap[p].level < EvalLevel(frames[i])
      BY <1>2, <1>4, <2>1, <3>1
    <3>3. EvalLevel(frames[i]) \in Int
      BY <1>1, EvalFrameTypes, Levels, DomainSizes DEF EvalLevel
    <3>. QED
      BY <1>7, <3>2, <3>3
  <2>. QED
    BY <2>2, <2>3
<1>16. \A i, k \in 1 .. n + 1 : i < k => EvalLevel(new[k]) < EvalLevel(new[i])
  <2> SUFFICES ASSUME NEW i \in 1 .. n + 1, NEW k \in 1 .. n + 1, i < k
               PROVE  EvalLevel(new[k]) < EvalLevel(new[i])
    OBVIOUS
  <2>1. i \in 1 .. n /\ new[i] = frames[i]
    BY <1>1, <1>10
  <2>2. CASE k = n + 1
    <3>1. EvalLevel(new[k]) = heap[q].level
      BY <1>9, <1>10, <2>2 DEF EvalLevel
    <3>. QED
      BY <1>15, <2>1, <3>1
  <2>3. CASE k # n + 1
    BY <1>2, <1>10, <1>12, <2>1, <2>3
  <2>. QED
    BY <2>2, <2>3
<1>17. \A i \in 1 .. n + 1 : new[i].pc = "children" => new[i].node.id \notin DOMAIN cache
  BY <1>2, <1>9, <1>10, <1>12
<1>18. new[1].node = c.e.src
  <2>1. new[1] = frames[1]
    BY <1>1, <1>10
  <2>. QED
    BY <1>2, <2>1
<1>19. PICK l : l = Len(new)
  OBVIOUS
<1>20. l = n + 1 /\ l - 1 = n
  BY <1>1, <1>10, <1>19
<1>21. /\ \A i \in 1 .. l : EvalFrameInv(new[i], c)
       /\ \A i \in 1 .. l - 1 : Awaits(new[i], new[i + 1], c)
       /\ \A i, k \in 1 .. l : i < k => EvalLevel(new[k]) < EvalLevel(new[i])
       /\ \A i \in 1 .. l : new[i].pc = "children" => new[i].node.id \notin DOMAIN cache
  BY <1>13, <1>14, <1>16, <1>17, <1>20, Zenon
<1>. QED
  <2>1. /\ CallFor(c) /\ EvalCacheInv(cache, c)
        /\ new \in Seq(EvalFrames(c.fun)) /\ new # <<>>
    BY <1>2, <1>10
  <2>. QED
    BY <1>18, <1>19, <1>21, <2>1 DEF Evaluating

(* A new evaluation. *)
LEMMA EvalStarts ==
  ASSUME HeapOK, NEW fun \in EvalFun, held \subseteq Evmdd, NEW e \in held, NEW state \in PartialState,
         e.src.kind = FunKind(fun),
         NEW c, c = [fun |-> fun, e |-> e, state |-> state]
  PROVE  Evaluating(<<EvalFrame(e.src)>>, Empty, c)
<1>1. PICK kind \in Kind : e \in EvmddOf(kind)
  BY SomeKind
<1>2. e.src \in DOMAIN heap /\ e.src.kind = kind /\ kind = FunKind(fun)
  BY <1>1, Fields
<1>3. CallFor(c)
  BY <1>1, <1>2, EvalFunAssumption DEF CallFor, Functor
<1>4. PICK fr, frames : fr = EvalFrame(e.src) /\ frames = <<fr>>
  OBVIOUS
<1>5. /\ fr.node = e.src /\ fr.pc = "enter" /\ fr.child_results = <<>>
      /\ fr \in EvalFrames(fun)
  <2>1. <<>> \in Seq(ResultOf(fun))
    OBVIOUS
  <2>2. [node |-> e.src, pc |-> "enter", child_results |-> <<>>] \in EvalFrames(fun)
    BY <1>2, <2>1, MakeEvalFrame
  <2>. QED
    BY <1>4, <2>2 DEF EvalFrame
<1>6. frames \in Seq(EvalFrames(fun)) /\ Len(frames) = 1 /\ frames[1] = fr /\ frames # <<>>
  BY <1>4, <1>5
<1>7. EvalFrameInv(fr, c)
  BY <1>5 DEF EvalFrameInv
<1>8. EvalCacheInv(Empty, c)
  BY DEF EvalCacheInv, Empty
<1>9. c.fun = fun /\ c.e = e
  OBVIOUS
<1>10. /\ \A i \in 1 .. 1 : i = 1
       /\ \A i \in 1 .. 1 - 1 : FALSE
  OBVIOUS
<1>11. Evaluating(frames, Empty, c)
  <2>1. /\ \A i \in 1 .. 1 : EvalFrameInv(frames[i], c)
        /\ \A i \in 1 .. 1 - 1 : Awaits(frames[i], frames[i + 1], c)
        /\ \A i, j \in 1 .. 1 : i < j => EvalLevel(frames[j]) < EvalLevel(frames[i])
        /\ \A i \in 1 .. 1 : frames[i].pc = "children" => frames[i].node.id \notin DOMAIN Empty
    BY <1>5, <1>6, <1>7, <1>10
  <2>2. frames[1].node = c.e.src /\ frames \in Seq(EvalFrames(c.fun))
    BY <1>5, <1>6, <1>9
  <2>. QED
    BY <1>3, <1>6, <1>8, <2>1, <2>2, EvaluatingIs, Zenon
<1>. QED
  BY <1>4, <1>11

(* What the outermost node's children gave is combined, and kept. *)
LEMMA EvalCombines ==
  ASSUME HeapOK, ValueExists, ValuesDetermined, NodesIdentified,
         NEW frames, NEW cache, NEW c, Evaluating(frames, cache, c),
         NEW n, n = Len(frames), NEW fr, fr = frames[n], fr.pc = "children",
         Len(fr.child_results) = Len(ValuesFor(fr, c)),
         NEW res, res = FunApply(c.fun, fr.child_results),
         NEW cache2, cache2 = Put(cache, fr.node.id, res)
  PROVE  /\ Returned(c.fun, res, NodeValues(fr.node, c.state))
         /\ EvalCacheInv(cache2, c)
         /\ \A i \in 1 .. n - 1 : frames[i].node.id \notin DOMAIN cache2
<1>1. /\ n \in Nat \ {0} /\ \A i \in 1 .. n : frames[i] \in EvalFrames(c.fun)
  BY StackOfEvaluation
<1>2. /\ CallFor(c) /\ EvalCacheInv(cache, c)
      /\ \A i \in 1 .. n : EvalFrameInv(frames[i], c)
      /\ \A i \in 1 .. n - 1 : Awaits(frames[i], frames[i + 1], c)
      /\ \A i, j \in 1 .. n : i < j => EvalLevel(frames[j]) < EvalLevel(frames[i])
      /\ \A i \in 1 .. n : frames[i].pc = "children" => frames[i].node.id \notin DOMAIN cache
  BY EvaluatingIs
<1>3. PICK p : p = fr.node /\ p \in DOMAIN heap /\ p.kind = FunKind(c.fun)
  BY <1>1, EvalFrameTypes
<1>4. fr.child_results \in Seq(ResultOf(c.fun)) /\ EvalFrameInv(fr, c) /\ n \in 1 .. n
  BY <1>1, <1>2, EvalFrameTypes
<1>5. Returned(c.fun, res, NodeValues(p, c.state))
  BY <1>2, <1>3, <1>4, NodeReturned DEF CallFor, EvalFrameInv, ValuesFor
<1>6. p.id \in Nat
  BY <1>3 DEF HeapOK, Pointer
<1>7. /\ DOMAIN cache2 = DOMAIN cache \cup {p.id} /\ cache2[p.id] = res
      /\ \A id \in DOMAIN cache : id # p.id => cache2[id] = cache[id]
  BY <1>3 DEF Put
<1>8. EvalCacheInv(cache2, c)
  <2>1. ASSUME NEW q \in DOMAIN heap, q.kind = FunKind(c.fun), q.id \in DOMAIN cache2
        PROVE  Returned(c.fun, cache2[q.id], NodeValues(q, c.state))
    <3>1. CASE q.id = p.id
      <4>1. q = p
        BY <1>3, <2>1, <3>1 DEF NodesIdentified
      <4>. QED
        BY <1>5, <1>7, <4>1
    <3>2. CASE q.id # p.id
      BY <1>2, <1>7, <2>1, <3>2 DEF EvalCacheInv
    <3>. QED
      BY <3>1, <3>2
  <2>2. DOMAIN cache2 \subseteq Nat
    BY <1>2, <1>6, <1>7 DEF EvalCacheInv
  <2>. QED
    BY <2>1, <2>2 DEF EvalCacheInv
<1>9. ASSUME NEW i \in 1 .. n - 1
      PROVE  frames[i].node.id \notin DOMAIN cache2
  <2>1. i \in 1 .. n /\ i < n
    BY <1>1
  <2>2. frames[i].node.id \notin DOMAIN cache
    BY <1>2, <2>1 DEF Awaits
  <2>3. EvalLevel(fr) < EvalLevel(frames[i])
    BY <1>2, <1>4, <2>1
  <2>4. /\ frames[i].node \in DOMAIN heap /\ frames[i].node.kind = p.kind
        /\ EvalLevel(fr) \in Int
    BY <1>1, <1>3, <2>1, EvalFrameTypes, Levels, DomainSizes DEF EvalLevel
  <2>5. frames[i].node # p
    BY <1>3, <2>3, <2>4 DEF EvalLevel
  <2>6. frames[i].node.id # p.id
    BY <1>3, <2>4, <2>5 DEF NodesIdentified
  <2>. QED
    BY <1>7, <2>2, <2>6
<1>. QED
  BY <1>3, <1>5, <1>8, <1>9

(* What a step of an evaluation leaves, on the diagrams as they are. *)
EvalStateNext ==
  \E frames, cache, c, a :
    /\ frames = eval_stack' /\ cache = eval_cache' /\ c = eval_call' /\ a = answer'
    /\ EvalState(frames, cache, c, a)

LEMMA EvalReturnKeeps ==
  ASSUME HeapOK, ValueExists, NEW frames, frames = eval_stack, NEW c, c = eval_call,
         Evaluating(frames, eval_cache, c), AnswerFor(answer), NEW n, n = Len(frames),
         NEW res, Returned(c.fun, res, NodeValues(frames[n].node, c.state)),
         NEW cache2, EvalCacheInv(cache2, c), \A i \in 1 .. n - 1 : frames[i].node.id \notin DOMAIN cache2,
         EvalReturn(res, cache2)
  PROVE  EvalStateNext
<1>1. n \in Nat \ {0} /\ frames \in Seq(EvalFrames(c.fun))
  BY StackOfEvaluation DEF Evaluating
<1>2. CASE n = 1
  <2>1. PICK a : a = [fun |-> c.fun, e |-> c.e, state |-> c.state, value |-> ResPlus(c.fun, res, c.e.input)]
    OBVIOUS
  <2>2. AnswerFor(a)
    BY <1>2, <2>1, EvalEnds
  <2>3. eval_stack' = <<>> /\ eval_cache' = Empty /\ eval_call' = NoEvaluation /\ answer' = a
    BY <1>2, <2>1 DEF EvalReturn
  <2>. QED
    BY <2>2, <2>3 DEF EvalStateNext, EvalState, Resting
<1>3. CASE n # 1
  <2>1. PICK m \in Nat \ {0} : n = m + 1 /\ m = n - 1
    BY <1>1, <1>3
  <2>2. PICK caller, w, x, new :
          /\ caller = frames[m] /\ w = EdgeAt(caller.node, c.state, Len(caller.child_results) + 1).w
          /\ x = ResPlus(c.fun, res, w)
          /\ new = [SubSeq(frames, 1, m) EXCEPT ![m].child_results = Append(@, x)]
    OBVIOUS
  <2>3. eval_stack' = new /\ eval_cache' = cache2 /\ UNCHANGED <<eval_call, answer>>
    BY <1>3, <2>1, <2>2 DEF EvalReturn, EdgeAt
  <2>4. Len(frames) = m + 1 /\ Returned(c.fun, res, NodeValues(frames[m + 1].node, c.state))
    BY <2>1
  <2>5. \A i \in 1 .. m : frames[i].node.id \notin DOMAIN cache2
    BY <2>1
  <2>6. Evaluating(new, cache2, c)
    BY <2>2, <2>4, <2>5, EvalReturnsTo
  <2>. QED
    BY <2>3, <2>6 DEF EvalStateNext, EvalState
<1>. QED
  BY <1>2, <1>3

LEMMA EvalTerminalKeeps ==
  ASSUME RefinementInv, Evaluating(eval_stack, eval_cache, eval_call), AnswerFor(answer), EvalTerminal
  PROVE  EvalStateNext
<1>1. PICK frames, c, n, fr : frames = eval_stack /\ c = eval_call /\ n = Len(frames) /\ fr = frames[n]
  OBVIOUS
<1>2. IsTerminal(fr.node) /\ fr.pc = "enter" /\ EvalReturn(ResZero(c.fun), eval_cache)
  BY <1>1 DEF EvalTerminal, EvalTop
<1>3. HeapOK /\ ValueExists
  BY DEF RefinementInv, Invariant
<1>4. /\ n \in Nat \ {0} /\ n \in 1 .. n /\ fr \in EvalFrames(c.fun)
  BY <1>1, StackOfEvaluation
<1>5. Evaluating(frames, eval_cache, c)
  BY <1>1
<1>6. /\ CallFor(c) /\ EvalCacheInv(eval_cache, c)
      /\ \A i \in 1 .. n - 1 : Awaits(frames[i], frames[i + 1], c)
      /\ \A i \in 1 .. n : frames[i].pc = "children" => frames[i].node.id \notin DOMAIN eval_cache
  BY <1>1, <1>5, EvaluatingIs
<1>7. Returned(c.fun, ResZero(c.fun), NodeValues(fr.node, c.state))
  BY <1>2, <1>3, <1>4, <1>6, EvalFrameTypes, TerminalReturned DEF CallFor
<1>8. \A i \in 1 .. n - 1 : frames[i].node.id \notin DOMAIN eval_cache
  BY <1>4, <1>6 DEF Awaits
<1>. QED
  BY <1>1, <1>2, <1>3, <1>5, <1>6, <1>7, <1>8, EvalReturnKeeps

LEMMA EvalHitKeeps ==
  ASSUME RefinementInv, Evaluating(eval_stack, eval_cache, eval_call), AnswerFor(answer), EvalHit
  PROVE  EvalStateNext
<1>1. PICK frames, c, n, fr : frames = eval_stack /\ c = eval_call /\ n = Len(frames) /\ fr = frames[n]
  OBVIOUS
<1>2. fr.node.id \in DOMAIN eval_cache /\ EvalReturn(eval_cache[fr.node.id], eval_cache)
  BY <1>1 DEF EvalHit, EvalTop
<1>3. HeapOK /\ ValueExists
  BY DEF RefinementInv, Invariant
<1>4. /\ n \in Nat \ {0} /\ n \in 1 .. n /\ fr \in EvalFrames(c.fun)
  BY <1>1, StackOfEvaluation
<1>5. Evaluating(frames, eval_cache, c)
  BY <1>1
<1>6. /\ CallFor(c) /\ EvalCacheInv(eval_cache, c)
      /\ \A i \in 1 .. n - 1 : Awaits(frames[i], frames[i + 1], c)
      /\ \A i \in 1 .. n : frames[i].pc = "children" => frames[i].node.id \notin DOMAIN eval_cache
  BY <1>1, <1>5, EvaluatingIs
<1>7. Returned(c.fun, eval_cache[fr.node.id], NodeValues(fr.node, c.state))
  BY <1>2, <1>4, <1>6, EvalFrameTypes DEF EvalCacheInv
<1>8. \A i \in 1 .. n - 1 : frames[i].node.id \notin DOMAIN eval_cache
  BY <1>4, <1>6 DEF Awaits
<1>. QED
  BY <1>1, <1>2, <1>3, <1>5, <1>6, <1>7, <1>8, EvalReturnKeeps

LEMMA EvalCombineKeeps ==
  ASSUME RefinementInv, NodesIdentified,
         Evaluating(eval_stack, eval_cache, eval_call), AnswerFor(answer), EvalCombine
  PROVE  EvalStateNext
<1>1. PICK frames, cache, c, n, fr :
        frames = eval_stack /\ cache = eval_cache /\ c = eval_call /\ n = Len(frames) /\ fr = frames[n]
  OBVIOUS
<1>2. PICK res, cache2 : res = FunApply(c.fun, fr.child_results) /\ cache2 = Put(cache, fr.node.id, res)
  OBVIOUS
<1>3. /\ fr.pc = "children" /\ Len(fr.child_results) = Len(ValuesFor(fr, c))
      /\ EvalReturn(res, cache2)
  BY <1>1, <1>2 DEF EvalCombine, EvalTop, TopValues, ValuesFor
<1>4. HeapOK /\ ValueExists /\ ValuesDetermined
  BY DEF RefinementInv, Invariant
<1>5. Evaluating(frames, cache, c)
  BY <1>1
<1>6. /\ Returned(c.fun, res, NodeValues(fr.node, c.state))
      /\ EvalCacheInv(cache2, c)
      /\ \A i \in 1 .. n - 1 : frames[i].node.id \notin DOMAIN cache2
  BY <1>1, <1>2, <1>3, <1>4, <1>5, EvalCombines
<1>. QED
  BY <1>1, <1>3, <1>4, <1>5, <1>6, EvalReturnKeeps

LEMMA EvalStepKeeps ==
  ASSUME RefinementInv, NodesIdentified,
         EvalState(eval_stack, eval_cache, eval_call, answer), EvalStep
  PROVE  EvalStateNext
<1>1. ~ NotEvaluating
  BY DEF EvalStep, EvalTerminal, EvalHit, EvalMiss, EvalRecurse, EvalCombine
<1>2. Evaluating(eval_stack, eval_cache, eval_call) /\ AnswerFor(answer)
  BY <1>1 DEF EvalState, Resting, NotEvaluating
<1>3. PICK frames, cache, c, n, fr :
        frames = eval_stack /\ cache = eval_cache /\ c = eval_call /\ n = Len(frames) /\ fr = frames[n]
  OBVIOUS
<1>4. Evaluating(frames, cache, c) /\ HeapOK
  BY <1>2, <1>3 DEF RefinementInv, Invariant
<1>5. CASE EvalMiss
  <2>1. PICK new : new = [frames EXCEPT ![n].pc = "children"]
    OBVIOUS
  <2>2. /\ fr.pc = "enter" /\ ~ IsTerminal(fr.node) /\ fr.node.id \notin DOMAIN cache
        /\ eval_stack' = new /\ UNCHANGED <<eval_cache, eval_call, answer>>
    BY <1>3, <1>5, <2>1 DEF EvalMiss, EvalTop
  <2>3. Evaluating(new, cache, c)
    BY <1>3, <1>4, <2>1, <2>2, EvalMisses
  <2>. QED
    BY <1>2, <1>3, <2>2, <2>3 DEF EvalStateNext, EvalState
<1>6. CASE EvalRecurse
  <2>1. PICK q, new : /\ q = EdgeAt(fr.node, c.state, Len(fr.child_results) + 1).to
                      /\ new = Append(frames, EvalFrame(q))
    OBVIOUS
  <2>2. /\ fr.pc = "children" /\ Len(fr.child_results) + 1 <= Len(ValuesFor(fr, c))
        /\ eval_stack' = new /\ UNCHANGED <<eval_cache, eval_call, answer>>
    BY <1>3, <1>6, <2>1 DEF EvalRecurse, EvalTop, TopValues, ValuesFor, EdgeAt
  <2>3. Len(fr.child_results) < Len(ValuesFor(fr, c))
    <3>1. n \in 1 .. n /\ fr \in EvalFrames(c.fun) /\ CallFor(c) /\ EvalFrameInv(fr, c)
      BY <1>3, <1>4, StackOfEvaluation DEF Evaluating
    <3>2. Len(fr.child_results) \in Nat /\ Len(ValuesFor(fr, c)) \in Nat
      BY <1>4, <2>2, <3>1, EvalFrameTypes, Levels, ValuesOf DEF EvalFrameInv, ValuesFor, CallFor
    <3>. QED
      BY <2>2, <3>2
  <2>4. Evaluating(new, cache, c)
    BY <1>3, <1>4, <2>1, <2>2, <2>3, EvalRecurses
  <2>. QED
    BY <1>2, <1>3, <2>2, <2>4 DEF EvalStateNext, EvalState
<1>. QED
  BY <1>2, <1>5, <1>6, EvalTerminalKeeps, EvalHitKeeps, EvalCombineKeeps DEF EvalStep

(* The inductive invariant of partial evaluation. *)
LEMMA EvalInvIsKept ==
  ASSUME OneFactory, HashIsInjective, OpTypesDistinct, EvalInv, [EvalNext]_<<vars, evalVars>>
  PROVE  EvalInv'
<1>1. RefinementInv /\ OwnershipInv /\ NodesIdentified
  BY IdsIdentify DEF EvalInv
<1>2. CASE NotEvaluating /\ Next /\ answer' = NoEvaluation
           /\ UNCHANGED <<eval_cache, eval_stack, eval_call>>
  <2>1. RefinementInv' /\ OwnershipInv'
    BY <1>1, <1>2, RefinementInvIsKept, OwnershipIsKept
  <2>2. Resting(eval_stack, eval_cache, eval_call)
    BY <1>2 DEF EvalInv, EvalState, Evaluating, NotEvaluating
  <2>3. EvalState(eval_stack, eval_cache, eval_call, answer)'
    BY <1>2, <2>2 DEF EvalState, Resting, AnswerFor
  <2>. QED
    BY <2>1, <2>3 DEF EvalInv
<1>3. ASSUME UNCHANGED vars, EvalStateNext
      PROVE  EvalInv'
  <2>1. RefinementInv' /\ OwnershipInv'
    BY <1>1, <1>3, RefinementInvIsKept, OwnershipIsKept
  <2>2. PICK frames, cache, c, a :
          /\ frames = eval_stack' /\ cache = eval_cache' /\ c = eval_call' /\ a = answer'
          /\ EvalState(frames, cache, c, a)
    BY <1>3 DEF EvalStateNext
  <2>3. UNCHANGED <<heap, held>>
    BY <1>3 DEF vars
  <2>4. EvalState(frames, cache, c, a)'
    BY <2>2, <2>3, SameEvaluation
  <2>5. EvalState(eval_stack, eval_cache, eval_call, answer)'
    BY <2>2, <2>4
  <2>. QED
    BY <2>1, <2>5 DEF EvalInv
<1>4. CASE \E fun \in EvalFun, e \in held, state \in PartialState : EvaluatePartial(fun, e, state)
  <2>1. PICK fun \in EvalFun, e \in held, state \in PartialState : EvaluatePartial(fun, e, state)
    BY <1>4
  <2>2. PICK c : c = [fun |-> fun, e |-> e, state |-> state]
    OBVIOUS
  <2>3. /\ e.src.kind = FunKind(fun) /\ eval_call' = c /\ eval_stack' = <<EvalFrame(e.src)>>
        /\ answer' = NoEvaluation /\ UNCHANGED vars /\ eval_cache' = eval_cache
    BY <2>1, <2>2 DEF EvaluatePartial
  <2>4. eval_cache = Empty
    BY <2>1 DEF EvaluatePartial, EvalInv, EvalState, Resting, Evaluating, NotEvaluating
  <2>5. HeapOK /\ held \subseteq Evmdd
    BY <1>1 DEF RefinementInv, Invariant, ClientOK
  <2>6. Evaluating(<<EvalFrame(e.src)>>, Empty, c)
    BY <2>2, <2>3, <2>5, EvalStarts
  <2>7. EvalStateNext
    BY <2>3, <2>4, <2>6 DEF EvalStateNext, EvalState, AnswerFor
  <2>. QED
    BY <1>3, <2>3, <2>7
<1>5. CASE EvalStep
  <2>1. UNCHANGED vars
    BY <1>5 DEF EvalStep, EvalTerminal, EvalHit, EvalMiss, EvalRecurse, EvalCombine
  <2>2. EvalStateNext
    BY <1>1, <1>5, EvalStepKeeps DEF EvalInv
  <2>. QED
    BY <1>3, <2>1, <2>2
<1>6. CASE UNCHANGED <<vars, evalVars>>
  <2>1. EvalStateNext
    BY <1>6 DEF EvalInv, EvalStateNext, evalVars
  <2>. QED
    BY <1>3, <1>6, <2>1
<1>. QED
  BY <1>2, <1>4, <1>5, <1>6 DEF EvalNext

LEMMA EvalInvInitially ==
  ASSUME EvalInit
  PROVE  EvalInv
<1>1. Init
  BY DEF EvalInit
<1>2. RefinementInv
  BY <1>1, InitMaps
<1>3. OwnershipInv
  BY <1>1, CanonicalInvInitially DEF CanonicalInv
<1>4. EvalState(eval_stack, eval_cache, eval_call, answer)
  BY DEF EvalInit, EvalState, Resting, AnswerFor
<1>. QED
  BY <1>2, <1>3, <1>4 DEF EvalInv

THEOREM EvalInvHolds ==
  ASSUME OneFactory, HashIsInjective, OpTypesDistinct
  PROVE  EvalSpec => []EvalInv
<1>1. EvalInit => EvalInv
  BY EvalInvInitially
<1>2. EvalInv /\ [EvalNext]_<<vars, evalVars>> => EvalInv'
  BY EvalInvIsKept
<1>. QED
  BY <1>1, <1>2, PTL DEF EvalSpec

(* What an evaluation's recursion relies on: every activation works on the *)
(* child that its caller needs next, and a node that is still being        *)
(* evaluated is not in the cache (Node::evaluate).                         *)
LEMMA EvalInvTyped ==
  ASSUME EvalInv
  PROVE  EvalTypeOK
<1>1. PICK frames, cache, c : frames = eval_stack /\ cache = eval_cache /\ c = eval_call
  OBVIOUS
<1>2. CASE Resting(frames, cache, c)
  <2>1. DOMAIN cache = {} /\ DOMAIN frames = {} /\ Len(frames) = 0
    BY <1>2 DEF Resting, Empty
  <2>2. \A i \in 1 .. Len(frames) - 1 : FALSE
    BY <2>1
  <2>. QED
    BY <1>1, <1>2, <2>1, <2>2 DEF EvalTypeOK, Resting, NotEvaluating
<1>3. CASE Evaluating(frames, cache, c)
  <2>1. PICK n : n = Len(frames)
    OBVIOUS
  <2>2. /\ CallFor(c) /\ EvalCacheInv(cache, c) /\ frames # <<>>
        /\ \A i \in 1 .. n - 1 : Awaits(frames[i], frames[i + 1], c)
        /\ \A i \in 1 .. n : frames[i].pc = "children" => frames[i].node.id \notin DOMAIN cache
    BY <1>3, <2>1, EvaluatingIs
  <2>3. DOMAIN frames = 1 .. n /\ \A i \in 1 .. n : frames[i] \in EvalFrames(c.fun)
    BY <1>3, <2>1, StackOfEvaluation
  <2>4. DOMAIN cache \subseteq Nat
    BY <2>2 DEF EvalCacheInv
  <2>5. \A i \in 1 .. n : frames[i].node \in DOMAIN heap /\ frames[i].pc \in {"enter", "children"}
    BY <2>3, EvalFrameTypes
  <2>6. \A i \in 1 .. n - 1 :
          /\ Len(frames[i].child_results) < Len(Values(c.state, heap[frames[i].node].level))
          /\ frames[i + 1].node =
               heap[frames[i].node].children
                 [Values(c.state, heap[frames[i].node].level)[Len(frames[i].child_results) + 1]].to
    BY <2>2 DEF Awaits, ValuesFor, EdgeAt
  <2>7. c # NoEvaluation
    BY <2>2 DEF CallFor, Functor, NoEvaluation
  <2>. QED
    BY <1>1, <2>1, <2>2, <2>3, <2>4, <2>5, <2>6, <2>7 DEF EvalTypeOK, NotEvaluating
<1>. QED
  BY <1>1, <1>2, <1>3 DEF EvalInv, EvalState

(* Every reachable state keeps the discipline of the recursion: each       *)
(* activation of Node::evaluate works on the child its caller needs next,  *)
(* and no node that is being evaluated is in EvalCache.                    *)
THEOREM EvaluationTyped ==
  ASSUME OneFactory, HashIsInjective, OpTypesDistinct
  PROVE  EvalSpec => []EvalTypeOK
<1>1. EvalInv => EvalTypeOK
  BY EvalInvTyped
<1>. QED
  BY <1>1, EvalInvHolds, PTL

(* The greatest value is the only one that is greatest.                    *)
LEMMA GreatestIsUnique ==
  ASSUME NEW values \in SUBSET Ints, NEW res, IsGreatest(res, values)
  PROVE  res = Greatest(values)
<1>1. PICK g : g = Greatest(values) /\ g \in values /\ \A x \in values : x <= g
  BY GreatestOf DEF IsGreatest
<1>2. res \in Ints /\ g \in Ints /\ res <= g /\ g <= res
  BY <1>1 DEF IsGreatest
<1>. QED
  BY <1>1, <1>2, Machine

LEMMA LeastIsUnique ==
  ASSUME NEW values \in SUBSET Ints, NEW res \in values, \A x \in values : res <= x
  PROVE  res = Least(values)
<1>1. PICK l : l = Least(values) /\ l \in values /\ \A x \in values : l <= x
  BY LeastOf
<1>2. res \in Ints /\ l \in Ints /\ res <= l /\ l <= res
  BY <1>1
<1>. QED
  BY <1>1, <1>2, Machine

LEMMA AllowedValuesTyped ==
  ASSUME HeapOK, ValueExists, NEW kind \in Kind, NEW e \in EvmddOf(kind), NEW state \in PartialState
  PROVE  AllowedValues(e, state) \subseteq Carrier(kind)
BY ValuesTyped DEF AllowedValues, Consistent

LEMMA EvalInvMax ==
  ASSUME EvalInv, NoOverflow
  PROVE  MaxIsGreatest
<1> SUFFICES ASSUME answer.fun = "max"
             PROVE  answer.value = Greatest({Value(s)[answer.e] : s \in Consistent(answer.state)})
  BY DEF MaxIsGreatest
<1>1. HeapOK /\ ValueExists
  BY DEF EvalInv, RefinementInv, Invariant
<1>2. PICK a : a = answer
  OBVIOUS
<1>3. a # NoEvaluation
  BY <1>2 DEF NoEvaluation
<1>4. CallFor(a) /\ Returned(a.fun, a.value, AllowedValues(a.e, a.state))
  BY <1>2, <1>3 DEF EvalInv, EvalState, AnswerFor
<1>5. PICK values : values = AllowedValues(a.e, a.state)
  OBVIOUS
<1>6. Carrier(FunKind("max")) = Ints
  BY <1>2, <1>4, WeightsOf DEF CallFor
<1>7. values \in SUBSET Ints
  BY <1>1, <1>2, <1>4, <1>5, <1>6, AllowedValuesTyped DEF CallFor
<1>8. IsGreatest(a.value, values)
  BY <1>2, <1>4, <1>5 DEF Returned, Right
<1>9. a.value = Greatest(values)
  BY <1>7, <1>8, GreatestIsUnique
<1>. QED
  BY <1>2, <1>5, <1>9 DEF AllowedValues

(* "Computes max_{s \in S} E(s)" (get_max, evmdd/evmdd.h): the answer is   *)
(* the greatest value of the diagram on the allowed states, if no addition *)
(* along a path wraps around.                                              *)
THEOREM MaxComputed ==
  ASSUME OneFactory, HashIsInjective, OpTypesDistinct
  PROVE  EvalSpec => [](NoOverflow => MaxIsGreatest)
<1>1. EvalInv => (NoOverflow => MaxIsGreatest)
  BY EvalInvMax
<1>. QED
  BY <1>1, EvalInvHolds, PTL

LEMMA EvalInvRelaxation ==
  ASSUME EvalInv, NoOverflow
  PROVE  RelaxationIsCheapest
<1>1. HeapOK /\ ValueExists
  BY DEF EvalInv, RefinementInv, Invariant
<1>2. PICK a : a = answer
  OBVIOUS
<1>3. CASE a.fun # "Relaxation"
  BY <1>2, <1>3 DEF RelaxationIsCheapest
<1>4. CASE a.fun = "Relaxation"
  <2>1. a # NoEvaluation
    BY <1>4 DEF NoEvaluation
  <2>2. CallFor(a) /\ Returned(a.fun, a.value, AllowedValues(a.e, a.state))
    BY <1>2, <2>1 DEF EvalInv, EvalState, AnswerFor
  <2>3. PICK values, costs : values = AllowedValues(a.e, a.state) /\ costs = a.value.cheapest_facts
    OBVIOUS
  <2>4. Carrier(FunKind("Relaxation")) = Effects
    BY <1>4, <2>2, WeightsOf DEF CallFor
  <2>5. values \in SUBSET Effects
    BY <1>1, <1>4, <2>2, <2>3, <2>4, AllowedValuesTyped DEF CallFor
  <2>6. /\ DOMAIN costs = UNION {x[1] : x \in values}
        /\ \A fact \in DOMAIN costs : \E x \in values : fact \in x[1] /\ x[2] = costs[fact]
        /\ \A x \in values : \A fact \in x[1] : costs[fact] <= x[2]
    BY <1>4, <2>2, <2>3 DEF Returned, Right, HasCheapest
  <2>7. ASSUME NEW fact \in DOMAIN costs
        PROVE  costs[fact] = Least({x[2] : x \in {y \in values : fact \in y[1]}})
    <3>1. PICK numbers : numbers = {x[2] : x \in {y \in values : fact \in y[1]}}
      OBVIOUS
    <3>2. numbers \in SUBSET Ints
      BY <2>5, <3>1 DEF Effects
    <3>3. costs[fact] \in numbers /\ \A x \in numbers : costs[fact] <= x
      BY <2>6, <2>7, <3>1
    <3>4. costs[fact] = Least(numbers)
      BY <3>2, <3>3, LeastIsUnique
    <3>. QED
      BY <3>1, <3>4
  <2>8. values = {Value(s)[answer.e] : s \in Consistent(answer.state)}
    BY <1>2, <2>3 DEF AllowedValues
  <2>. QED
    BY <1>2, <2>3, <2>6, <2>7, <2>8 DEF RelaxationIsCheapest
<1>. QED
  BY <1>3, <1>4

(* "for each fact it's cheapest cost among all paths is stored"            *)
(* (evmdd/product_evmdd.h): the answer of Relaxation has the facts that    *)
(* the diagram's values on allowed states have, each with its least cost,  *)
(* if no addition along a path wraps around.                               *)
THEOREM RelaxationComputed ==
  ASSUME OneFactory, HashIsInjective, OpTypesDistinct
  PROVE  EvalSpec => [](NoOverflow => RelaxationIsCheapest)
<1>1. EvalInv => (NoOverflow => RelaxationIsCheapest)
  BY EvalInvRelaxation
<1>. QED
  BY <1>1, EvalInvHolds, PTL

----------------------------------------------------------------------------
(* Facts on the paths of a diagram. *)

(* One step of the definition of FactsBelow. *)
FactsStep(B, p) ==
  UNION {heap[p].children[i].w[1] \cup B[heap[p].children[i].to] : i \in DOMAIN heap[p].children}

AreFacts(B) == \A p \in DOMAIN heap : B[p] = FactsStep(B, p)

(* What the types of nodes say of their edges. *)
EdgesDescend ==
  \A p \in DOMAIN heap :
    /\ p.kind \in Kind /\ heap[p].level \in Nat
    /\ \A i \in DOMAIN heap[p].children :
         /\ heap[p].children[i].w \in Carrier(p.kind)
         /\ heap[p].children[i].to \in DOMAIN heap
         /\ heap[p].children[i].to.kind = p.kind
         /\ heap[heap[p].children[i].to].level < heap[p].level

LEMMA NodeEdges == HeapOK => EdgesDescend
<1> SUFFICES ASSUME HeapOK, NEW p \in DOMAIN heap
             PROVE  /\ p.kind \in Kind /\ heap[p].level \in Nat
                    /\ \A i \in DOMAIN heap[p].children :
                         /\ heap[p].children[i].w \in Carrier(p.kind)
                         /\ heap[p].children[i].to \in DOMAIN heap
                         /\ heap[p].children[i].to.kind = p.kind
                         /\ heap[heap[p].children[i].to].level < heap[p].level
  BY DEF EdgesDescend
<1>1. Node(p) /\ p.kind \in Kind /\ heap[p].level \in Nat
  BY Levels, DomainSizes DEF HeapOK, Pointer
<1>2. CASE IsTerminal(p)
  BY <1>1, <1>2 DEF Node, TerminalNode
<1>3. CASE ~ IsTerminal(p)
  <2>1. PICK c, nodes : c = heap[p].children /\ nodes = {q \in DOMAIN heap : q.kind = p.kind}
    OBVIOUS
  <2>2. /\ c \in [1 .. DomainSize[heap[p].level] -> [w : Carrier(p.kind), to : nodes]]
        /\ \A i \in DOMAIN c : heap[c[i].to].level < heap[p].level
    BY <1>1, <1>3, <2>1 DEF Node
  <2>3. \A i \in DOMAIN c : c[i].w \in Carrier(p.kind) /\ c[i].to \in nodes
    BY <2>2
  <2>. QED
    BY <1>1, <2>1, <2>2, <2>3
<1>. QED
  BY <1>2, <1>3

(* FactsBelow is the only solution of its equation. *)
LEMMA FactsAreUnique ==
  ASSUME HeapOK, NEW B, AreFacts(B), NEW C, AreFacts(C)
  PROVE  \A p \in DOMAIN heap : B[p] = C[p]
<1>1. PICK level : level = [p \in DOMAIN heap |-> heap[p].level]
  OBVIOUS
<1>2. PICK D : D = {p \in DOMAIN heap : B[p] = C[p]}
  OBVIOUS
<1>3. EdgesDescend
  BY NodeEdges
<1>4. \A p \in DOMAIN heap : level[p] \in Nat
  BY <1>1, <1>3 DEF EdgesDescend
<1>5. ASSUME NEW p \in DOMAIN heap, \A q \in DOMAIN heap : level[q] < level[p] => q \in D
      PROVE  p \in D
  <2>1. \A i \in DOMAIN heap[p].children : heap[p].children[i].to \in D
    BY <1>1, <1>3, <1>5 DEF EdgesDescend
  <2>2. FactsStep(B, p) = FactsStep(C, p)
    BY <1>2, <2>1 DEF FactsStep
  <2>. QED
    BY <1>2, <2>2 DEF AreFacts
<1>6. DOMAIN heap \subseteq D
  BY <1>4, <1>5, LevelInduction
<1>. QED
  BY <1>2, <1>6

LEMMA FactsBelowAre ==
  ASSUME HeapOK, NEW B, AreFacts(B)
  PROVE  \A p \in DOMAIN heap : FactsBelow[p] = B[p]
<1> DEFINE P(F) == F = [p \in DOMAIN heap |->
                      UNION {heap[p].children[i].w[1] \cup F[heap[p].children[i].to] :
                               i \in DOMAIN heap[p].children}]
<1>1. PICK F : F = [p \in DOMAIN heap |-> B[p]]
  OBVIOUS
<1>2. EdgesDescend
  BY NodeEdges
<1>3. \A p \in DOMAIN heap : F[p] = FactsStep(F, p)
  <2>1. ASSUME NEW p \in DOMAIN heap
        PROVE  F[p] = FactsStep(F, p)
    <3>1. \A i \in DOMAIN heap[p].children : heap[p].children[i].to \in DOMAIN heap
      BY <1>2 DEF EdgesDescend
    <3>2. FactsStep(F, p) = FactsStep(B, p)
      BY <1>1, <3>1 DEF FactsStep
    <3>. QED
      BY <1>1, <3>2 DEF AreFacts
  <2>. QED
    BY <2>1
<1>4. F = [p \in DOMAIN heap |-> FactsStep(F, p)]
  BY <1>1, <1>3
<1>5. \E G : P(G)
  BY <1>4 DEF FactsStep
<1>6. FactsBelow = CHOOSE G : P(G)
  BY DEF FactsBelow
<1>7. P(FactsBelow)
  BY <1>5, <1>6
<1>8. AreFacts(FactsBelow)
  BY <1>7 DEF AreFacts, FactsStep
<1>. QED
  BY <1>8, FactsAreUnique

(* Nothing on the way to e.src is below it. *)
Once(B, e) ==
  e.src \in DOMAIN heap /\ (e.src.kind = "pair" => e.input[1] \cap B[e.src] = {})

EdgeOf(p, i) == [src |-> heap[p].children[i].to, input |-> heap[p].children[i].w]

(* No fact occurs twice on a path of what there is: nodes, the client's    *)
(* diagrams, cached results, and what the activations have collected.      *)
FactsInvFor(B) ==
  /\ AreFacts(B)
  /\ \A p \in DOMAIN heap : \A i \in DOMAIN heap[p].children : Once(B, EdgeOf(p, i))
  /\ \A e \in held : Once(B, e)
  /\ \A entry \in DOMAIN evmdd_cache : Once(B, evmdd_cache[entry])
  /\ \A i \in 1 .. Len(stack) : \A j \in 1 .. Len(stack[i].done) : Once(B, stack[i].done[j])

FactsInv == \E B : FactsInvFor(B)

(* C says of the heap that a step has left what B says of the one before. *)
Continues(C, B) == AreFacts(C)' /\ \A q \in DOMAIN heap : C[q] = B[q]

LEMMA OnceStable ==
  ASSUME HeapGrows, NEW B, NEW C, Continues(C, B), NEW e, Once(B, e)
  PROVE  Once(C, e)'
BY DEF HeapGrows, Continues, Once

LEMMA TerminalOnce ==
  ASSUME HeapOK', NEW B, NEW C, Continues(C, B), NEW e, e.src \in DOMAIN heap', IsTerminal(e.src)
  PROVE  Once(C, e)'
<1>1. heap'[e.src].children = <<>>
  BY DEF HeapOK, Node, IsTerminal, TerminalNode
<1>2. DOMAIN heap'[e.src].children = {}
  BY <1>1
<1>3. C[e.src] = {}
  BY <1>2 DEF Continues, AreFacts, FactsStep
<1>. QED
  BY <1>3 DEF Once

(* The facts below a node that is added to the heap. *)
LEMMA SomeContinuation ==
  ASSUME HeapOK, HeapOK', HeapGrows, NEW p, DOMAIN heap' \subseteq DOMAIN heap \cup {p},
         NEW B, AreFacts(B)
  PROVE  \E C : Continues(C, B)
<1>1. PICK C : C = [q \in DOMAIN heap' |-> IF q \in DOMAIN heap THEN B[q] ELSE FactsStep(B, q)']
  OBVIOUS
<1>2. \A q \in DOMAIN heap : q \in DOMAIN heap' /\ C[q] = B[q]
  BY <1>1 DEF HeapGrows
<1>3. EdgesDescend /\ EdgesDescend'
  BY NodeEdges, PTL
<1>4. ASSUME NEW q \in DOMAIN heap'
      PROVE  C[q] = FactsStep(C, q)'
  <2>1. \A i \in DOMAIN heap'[q].children : heap'[q].children[i].to \in DOMAIN heap
    <3>1. CASE q \in DOMAIN heap
      BY <1>3, <3>1 DEF HeapGrows, EdgesDescend
    <3>2. CASE q = p
      <4>1. ASSUME NEW i \in DOMAIN heap'[q].children
            PROVE  heap'[q].children[i].to \in DOMAIN heap
        <5>1. PICK t : t = heap'[q].children[i].to
          OBVIOUS
        <5>2. t \in DOMAIN heap' /\ heap'[t].level < heap'[q].level /\ heap'[q].level \in Nat
          BY <1>3, <5>1 DEF EdgesDescend
        <5>3. t # q
          BY <5>2
        <5>. QED
          BY <3>2, <5>1, <5>2, <5>3
      <4>. QED
        BY <4>1
    <3>. QED
      BY <3>1, <3>2
  <2>2. FactsStep(C, q)' = FactsStep(B, q)'
    BY <1>2, <2>1 DEF FactsStep
  <2>3. CASE q \in DOMAIN heap
    <3>1. FactsStep(B, q)' = FactsStep(B, q)
      BY <2>3 DEF FactsStep, HeapGrows
    <3>. QED
      BY <1>2, <2>2, <2>3, <3>1 DEF AreFacts
  <2>4. CASE q \notin DOMAIN heap
    BY <1>1, <2>2, <2>4
  <2>. QED
    BY <2>3, <2>4
<1>. QED
  BY <1>2, <1>4 DEF Continues, AreFacts

(* A step that makes the diagrams S and at most one node. *)
LEMMA FactsAfter ==
  ASSUME HeapOK, HeapOK', HeapGrows, NEW p, DOMAIN heap' \subseteq DOMAIN heap \cup {p},
         NEW B, FactsInvFor(B),
         \A q \in DOMAIN heap' : q \notin DOMAIN heap =>
           \A i \in DOMAIN heap'[q].children : Once(B, EdgeOf(q, i)'),
         NEW S, \A e \in S : \A C : Continues(C, B) => Once(C, e)',
         \A e \in held' : e \in held \/ e \in S,
         \A entry \in DOMAIN evmdd_cache' : evmdd_cache'[entry] \in S \/ Once(B, evmdd_cache'[entry]),
         \A i \in 1 .. Len(stack') : \A j \in 1 .. Len(stack'[i].done) :
            stack'[i].done[j] \in S \/ Once(B, stack'[i].done[j])
  PROVE  FactsInv'
<1>1. PICK C : Continues(C, B)
  BY SomeContinuation DEF FactsInvFor
<1>2. \A e : Once(B, e) \/ e \in S => Once(C, e)'
  BY <1>1, OnceStable
<1>3. ASSUME NEW q \in DOMAIN heap', NEW i \in DOMAIN heap'[q].children
      PROVE  Once(C, EdgeOf(q, i))'
  <2>1. CASE q \in DOMAIN heap
    <3>1. EdgeOf(q, i)' = EdgeOf(q, i) /\ i \in DOMAIN heap[q].children
      BY <2>1 DEF EdgeOf, HeapGrows
    <3>2. Once(B, EdgeOf(q, i))
      BY <2>1, <3>1 DEF FactsInvFor
    <3>3. PICK e : e = EdgeOf(q, i) /\ e = EdgeOf(q, i)'
      BY <3>1
    <3>4. Once(C, e)'
      BY <1>2, <3>2, <3>3
    <3>. QED
      BY <3>3, <3>4 DEF Once
  <2>2. CASE q \notin DOMAIN heap
    <3>1. PICK e : e = EdgeOf(q, i)'
      OBVIOUS
    <3>2. Once(C, e)'
      BY <1>2, <2>2, <3>1
    <3>. QED
      BY <3>1, <3>2 DEF Once
  <2>. QED
    BY <2>1, <2>2
<1>4. \A e \in held' : Once(C, e)'
  BY <1>2 DEF FactsInvFor
<1>5. FactsInvFor(C)'
  BY <1>1, <1>2, <1>3, <1>4 DEF FactsInvFor, Continues, Once
<1>. QED
  BY <1>5 DEF FactsInv

(* The facts below the node of a diagram that a step made. *)
LEMMA NodeOnce ==
  ASSUME NEW B, NEW C, Continues(C, B), NEW e, NEW edges, e.src \in DOMAIN heap',
         heap'[e.src].children = edges, \A i \in DOMAIN edges : edges[i].to \in DOMAIN heap,
         e.src.kind = "pair" =>
           \A i \in DOMAIN edges : e.input[1] \cap (edges[i].w[1] \cup B[edges[i].to]) = {}
  PROVE  Once(C, e)'
<1>1. C[e.src] = UNION {edges[i].w[1] \cup C[edges[i].to] : i \in DOMAIN edges}
  BY DEF Continues, AreFacts, FactsStep
<1>2. \A i \in DOMAIN edges : C[edges[i].to] = B[edges[i].to]
  BY DEF Continues
<1>. QED
  BY <1>1, <1>2 DEF Once

(* create_evmdd: the facts that all children have move to the input, and   *)
(* the monus leaves the edges none of them.                                *)
LEMMA CreatedFacts ==
  ASSUME "pair" \in Kind, NEW level \in Level, NEW children \in Offspring("pair", level),
         NEW i \in 1 .. DomainSize[level]
  PROVE  LET w    == MinWeight("pair", children)
             edge == Edges("pair", children)[i]
         IN  /\ w[1] \subseteq children[i].input[1]
             /\ edge.w[1] \subseteq children[i].input[1]
             /\ w[1] \cap edge.w[1] = {}
<1>1. PICK w, edge, x : w = MinWeight("pair", children) /\ edge = Edges("pair", children)[i]
                        /\ x = children[i].input
  OBVIOUS
<1>2. /\ \A a, b \in Carrier("pair") : Monus("pair", a, b) = <<a[1] \ b[1], IntMonus(a[2], b[2])>>
      /\ \A a, b \in Carrier("pair") : Plus("pair", a, b) = <<a[1] \cup b[1], IntPlus(a[2], b[2])>>
  BY EvalMonoidAssumption DEF MonoidMonus, PairMonus, FactsMonus, MonoidPlus, PairPlus, FactsPlus
<1>3. x \in Carrier("pair") /\ w \in Carrier("pair") /\ i \in DOMAIN children
  BY <1>1, EdgesOfOffspring, Fields DEF Offspring
<1>4. edge.w = Monus("pair", x, w)
  BY <1>1, <1>3 DEF Edges
<1>5. x = Plus("pair", w, edge.w) /\ edge.w \in Carrier("pair")
  <2>1. [src |-> edge.to, input |-> Plus("pair", w, edge.w)] = children[i]
    BY <1>1, EdgesOfOffspring
  <2>. QED
    BY <1>1, <1>3, <1>4, <2>1, MonoidAssumption
<1>6. edge.w[1] = x[1] \ w[1] /\ x[1] = w[1] \cup edge.w[1]
  BY <1>2, <1>3, <1>4, <1>5
<1>. QED
  BY <1>1, <1>6

(* Steps that return a diagram. *)
LEMMA FactsAfterReturn ==
  ASSUME Invariant, HeapOK', HeapGrows, ~ Idle,
         NEW p, DOMAIN heap' \subseteq DOMAIN heap \cup {p},
         NEW B, FactsInvFor(B),
         \A q \in DOMAIN heap' : q \notin DOMAIN heap =>
           \A i \in DOMAIN heap'[q].children : Once(B, EdgeOf(q, i)'),
         NEW S, \A e \in S : \A C : Continues(C, B) => Once(C, e)',
         NEW result, result \in S \/ Once(B, result), Return(result),
         \A entry \in DOMAIN evmdd_cache' : evmdd_cache'[entry] \in S \/ Once(B, evmdd_cache'[entry])
  PROVE  FactsInv'
<1>1. \A i \in 1 .. Len(stack') : \A j \in 1 .. Len(stack'[i].done) :
        stack'[i].done[j] \in S \/ Once(B, stack'[i].done[j])
  BY DoneAfterReturn DEF FactsInvFor
<1>2. PICK T : T = S \cup {e \in {result} : Once(B, result)}
  OBVIOUS
<1>3. \A e \in T : \A C : Continues(C, B) => Once(C, e)'
  BY <1>2, OnceStable
<1>4. \A e \in held' : e \in held \/ e \in T
  BY <1>2 DEF Return
<1>5. /\ \A entry \in DOMAIN evmdd_cache' : evmdd_cache'[entry] \in T \/ Once(B, evmdd_cache'[entry])
      /\ \A i \in 1 .. Len(stack') : \A j \in 1 .. Len(stack'[i].done) :
           stack'[i].done[j] \in T \/ Once(B, stack'[i].done[j])
  BY <1>1, <1>2
<1>. QED
  BY <1>3, <1>4, <1>5, FactsAfter DEF Invariant

(* Steps that make no diagram. *)
LEMMA FactsAfterOthers ==
  ASSUME HeapOK, HeapOK', HeapGrows, NEW p, DOMAIN heap' \subseteq DOMAIN heap \cup {p},
         NEW B, FactsInvFor(B),
         \A q \in DOMAIN heap' : q \notin DOMAIN heap => DOMAIN heap'[q].children = {},
         UNCHANGED <<held, evmdd_cache>>,
         \A i \in 1 .. Len(stack') :
            stack'[i].done = <<>> \/ (i \in 1 .. Len(stack) /\ stack'[i].done = stack[i].done)
  PROVE  FactsInv'
<1>1. PICK S : S = {}
  OBVIOUS
<1>2. /\ \A e \in S : \A C : Continues(C, B) => Once(C, e)'
      /\ \A e \in held' : e \in held \/ e \in S
      /\ \A entry \in DOMAIN evmdd_cache' : evmdd_cache'[entry] \in S \/ Once(B, evmdd_cache'[entry])
      /\ \A i \in 1 .. Len(stack') : \A j \in 1 .. Len(stack'[i].done) :
           stack'[i].done[j] \in S \/ Once(B, stack'[i].done[j])
  BY <1>1 DEF FactsInvFor
<1>. QED
  BY <1>2, FactsAfter

LEMMA TerminalCaseKeepsFacts ==
  ASSUME Invariant, HeapOK', HeapGrows, NEW B, FactsInvFor(B), TerminalCase
  PROVE  FactsInv'
<1>1. PICK result : result = [src   |-> TerminalOf(call.fac),
                              input |-> OpFun(call.op, Top.l.input, Top.r.input)]
  OBVIOUS
<1>2. ~ Idle /\ Return(result) /\ UNCHANGED <<heap, evmdd_cache>>
  BY <1>1 DEF TerminalCase
<1>3. result.src \in DOMAIN heap' /\ IsTerminal(result.src)
  BY <1>1, <1>2, StackTypes, TerminalStored DEF Invariant
<1>4. \A C : Continues(C, B) => Once(C, result)'
  BY <1>3, TerminalOnce
<1>5. PICK S : S = {result}
  OBVIOUS
<1>6. \A entry \in DOMAIN evmdd_cache' : evmdd_cache'[entry] \in S \/ Once(B, evmdd_cache'[entry])
  BY <1>2 DEF FactsInvFor
<1>. QED
  BY <1>2, <1>4, <1>5, <1>6, FactsAfterReturn

LEMMA CacheHitKeepsFacts ==
  ASSUME Invariant, HeapOK', HeapGrows, NEW B, FactsInvFor(B), CacheHit
  PROVE  FactsInv'
<1>1. PICK result : result = evmdd_cache[CacheKey]
  OBVIOUS
<1>2. ~ Idle /\ Return(result) /\ UNCHANGED <<heap, evmdd_cache>>
  BY <1>1 DEF CacheHit
<1>3. Once(B, result)
  BY <1>1 DEF CacheHit, FactsInvFor
<1>4. PICK S : S = {}
  OBVIOUS
<1>5. \A entry \in DOMAIN evmdd_cache' : evmdd_cache'[entry] \in S \/ Once(B, evmdd_cache'[entry])
  BY <1>2 DEF FactsInvFor
<1>. QED
  BY <1>2, <1>3, <1>4, <1>5, FactsAfterReturn

LEMMA CombineKeepsFacts ==
  ASSUME HashIsInjective, Invariant, HeapOK', HeapGrows, NEW B, FactsInvFor(B), Combine
  PROVE  FactsInv'
<1>1. PICK op, f, fr, level, kind, result, key :
        /\ op = call.op /\ f = call.fac /\ fr = Top /\ level = RootLevel(fr.l, fr.r)
        /\ kind = OpResult(op) /\ result = Created(f, level, fr.done) /\ key = CacheKey
  OBVIOUS
<1>2. /\ ~ Idle /\ fr.pc = "children" /\ Len(fr.done) = Len(sub_evmdds(fr.l, fr.r))
      /\ CreateEvmdd(f, level, fr.done) /\ evmdd_cache' = Put(evmdd_cache, key, result)
      /\ Return(result) /\ UNCHANGED factories
  BY <1>1 DEF Combine
<1>3. HeapOK /\ StoreInv /\ ValueExists /\ CallOK /\ StackInv
  BY DEF Invariant
<1>4. /\ op \in Op /\ f \in DOMAIN factories /\ factories[f] = kind /\ kind \in Kind
      /\ Len(stack) \in 1 .. Len(stack) /\ fr = stack[Len(stack)]
  BY <1>1, <1>2, <1>3, StackTypes, OpAssumption
<1>5. FrameInv(fr, op)
  BY <1>1, <1>3, <1>4 DEF StackInv
<1>6. PICK children : children = fr.done
  OBVIOUS
<1>7. level \in Level /\ children \in Offspring(kind, level)
  BY <1>1, <1>2, <1>3, <1>4, <1>5, <1>6, AllDone
<1>8. DomainSize[level] \in Nat \ {0} /\ DOMAIN children = 1 .. DomainSize[level]
  BY <1>7, DomainSizes DEF Offspring
<1>9. \A i \in 1 .. DomainSize[level] : Once(B, children[i])
  <2>1. Len(children) = DomainSize[level]
    BY <1>8
  <2>. QED
    BY <1>4, <1>6, <2>1 DEF FactsInvFor
<1>10. CASE AllEqual(children)
  <2>1. UNCHANGED heap /\ Once(B, result)
    BY <1>1, <1>2, <1>6, <1>8, <1>9, <1>10 DEF Created, CreateEvmdd
  <2>2. PICK S : S = {}
    OBVIOUS
  <2>3. \A entry \in DOMAIN evmdd_cache' : evmdd_cache'[entry] \in S \/ Once(B, evmdd_cache'[entry])
    BY <1>2, <2>1 DEF Put, FactsInvFor
  <2>. QED
    BY <1>2, <2>1, <2>2, <2>3, FactsAfterReturn
<1>11. CASE ~ AllEqual(children)
  <2>1. PICK edges, w, p :
          /\ edges = Edges(kind, children) /\ w = MinWeight(kind, children)
          /\ p = NodeAt(f, level, edges)
    OBVIOUS
  <2>2. StoreNode(f, level, edges) /\ result = [src |-> p, input |-> w]
    BY <1>1, <1>2, <1>4, <1>6, <1>11, <2>1 DEF CreateEvmdd, Created
  <2>3. edges \in EdgesFor(kind, level) /\ \A i \in 1 .. DomainSize[level] : edges[i].to = children[i].src
    BY <1>4, <1>7, <1>8, <2>1, EdgesOfOffspring DEF Edges
  <2>4. p \in DOMAIN heap' /\ p.kind = kind /\ heap'[p].children = edges
    BY <1>2, <1>3, <1>4, <1>7, <2>1, <2>2, <2>3, MakeNode
  <2>5. DOMAIN edges = 1 .. DomainSize[level] /\ \A i \in DOMAIN edges : edges[i].to \in DOMAIN heap
    BY <1>7, <2>3, EdgesToHeap
  <2>6. ASSUME NEW i \in DOMAIN edges, kind = "pair"
        PROVE  /\ edges[i].w[1] \cap B[edges[i].to] = {}
               /\ w[1] \cap (edges[i].w[1] \cup B[edges[i].to]) = {}
    <3>1. /\ w[1] \subseteq children[i].input[1] /\ edges[i].w[1] \subseteq children[i].input[1]
          /\ w[1] \cap edges[i].w[1] = {}
      BY <1>4, <1>7, <2>1, <2>5, <2>6, CreatedFacts
    <3>2. children[i].src.kind = kind
      BY <1>4, <1>7, <2>5, <2>6, Fields DEF Offspring
    <3>3. children[i].input[1] \cap B[edges[i].to] = {}
      BY <1>9, <2>3, <2>5, <2>6, <3>2 DEF Once
    <3>. QED
      BY <3>1, <3>3
  <2>7. ASSUME NEW C, Continues(C, B)
        PROVE  Once(C, result)'
    <3>1. result.src = p /\ result.input = w
      BY <2>2
    <3>2. kind = "pair" => \A i \in DOMAIN edges : w[1] \cap (edges[i].w[1] \cup B[edges[i].to]) = {}
      BY <2>6
    <3>. QED
      BY <2>4, <2>5, <2>7, <3>1, <3>2, NodeOnce
  <2>8. /\ DOMAIN heap' \subseteq DOMAIN heap \cup {p}
        /\ \A q \in DOMAIN heap' : q \notin DOMAIN heap => q = p
    BY <2>1, <2>2 DEF StoreNode, Put
  <2>9. ASSUME NEW q \in DOMAIN heap', q \notin DOMAIN heap, NEW i \in DOMAIN heap'[q].children
        PROVE  Once(B, EdgeOf(q, i)')
    <3>0. q = p /\ heap'[q].children = edges /\ i \in DOMAIN edges
      BY <2>4, <2>8, <2>9
    <3>4. PICK e : e = [src |-> edges[i].to, input |-> edges[i].w]
      OBVIOUS
    <3>1. e = EdgeOf(q, i)' /\ e.src = edges[i].to /\ e.input = edges[i].w /\ i \in DOMAIN edges
      BY <3>0, <3>4 DEF EdgeOf
    <3>2. edges[i].to.kind = kind
      BY <1>7, <2>3, <2>5, <3>1, EdgesToHeap
    <3>3. Once(B, e)
      BY <2>5, <2>6, <3>1, <3>2 DEF Once
    <3>. QED
      BY <3>1, <3>3
  <2>10. PICK S : S = {result}
    OBVIOUS
  <2>11. \A entry \in DOMAIN evmdd_cache' : evmdd_cache'[entry] \in S \/ Once(B, evmdd_cache'[entry])
    BY <1>2, <2>10 DEF Put, FactsInvFor
  <2>. QED
    BY <1>2, <2>7, <2>8, <2>9, <2>10, <2>11, FactsAfterReturn
<1>. QED
  BY <1>10, <1>11

LEMMA MakeVarKeepsFacts ==
  ASSUME HashIsInjective, Invariant, HeapOK', HeapGrows, NEW B, FactsInvFor(B),
         NEW f \in Live, NEW level \in Level,
         NEW values \in [1 .. DomainSize[level] -> Carrier(factories[f])], MakeVar(f, level, values)
  PROVE  FactsInv'
<1>1. HeapOK /\ StoreInv /\ ValueExists /\ ClientOK
  BY DEF Invariant
<1>2. PICK t, kind, edges, p, e :
        /\ t = TerminalOf(f) /\ kind = factories[f]
        /\ edges = [i \in DOMAIN values |-> [w |-> values[i], to |-> t]]
        /\ p = NodeAt(f, level, edges) /\ e = [src |-> p, input |-> Neutral(kind)]
  OBVIOUS
<1>3. /\ held' = held \cup {e} /\ StoreNode(f, level, edges)
      /\ UNCHANGED <<factories, evmdd_cache, stack>>
  BY <1>2 DEF MakeVar
<1>4. f \in DOMAIN factories /\ kind \in Kind
  BY <1>1, <1>2, LiveFactories DEF HeapOK
<1>5. t \in DOMAIN heap /\ t.kind = kind /\ IsTerminal(t) /\ heap[t].level = 0
  BY <1>1, <1>2, <1>4, TerminalStored
<1>6. edges \in EdgesFor(kind, level)
  <2>1. PICK nodes : nodes = {q \in DOMAIN heap : q.kind = kind}
    OBVIOUS
  <2>2. edges \in [1 .. DomainSize[level] -> [w : Carrier(kind), to : nodes]]
    BY <1>2, <1>5, <2>1
  <2>3. \A i \in 1 .. DomainSize[level] : heap[edges[i].to].level < level
    BY <1>2, <1>5, DomainSizes DEF Level
  <2>. QED
    BY <2>1, <2>2, <2>3 DEF EdgesFor
<1>7. p \in DOMAIN heap' /\ p.kind = kind /\ heap'[p].children = edges
  BY <1>1, <1>2, <1>3, <1>4, <1>6, MakeNode
<1>8. \A i \in DOMAIN edges : edges[i].to = t
  BY <1>2
<1>9. B[t] = {}
  <2>1. DOMAIN heap[t].children = {}
    BY <1>1, <1>5 DEF HeapOK, Node, TerminalNode
  <2>. QED
    BY <1>5, <2>1 DEF FactsInvFor, AreFacts, FactsStep
<1>10. kind = "pair" => Neutral(kind)[1] = {}
  <2>1. "pair" \in Kind => Neutral("pair") = <<{}, 0>>
    BY EvalMonoidAssumption DEF NeutralElement
  <2>. QED
    BY <1>4, <2>1
<1>11. ASSUME NEW C, Continues(C, B)
       PROVE  Once(C, e)'
  <2>1. e.src = p /\ e.input = Neutral(kind)
    BY <1>2
  <2>2. kind = "pair" => \A i \in DOMAIN edges : e.input[1] \cap (edges[i].w[1] \cup B[edges[i].to]) = {}
    BY <1>10, <2>1
  <2>3. \A i \in DOMAIN edges : edges[i].to \in DOMAIN heap
    BY <1>5, <1>8
  <2>. QED
    BY <1>7, <1>11, <2>1, <2>2, <2>3, NodeOnce
<1>12. /\ DOMAIN heap' \subseteq DOMAIN heap \cup {p}
       /\ \A q \in DOMAIN heap' : q \notin DOMAIN heap => q = p
  BY <1>2, <1>3 DEF StoreNode, Put
<1>13. ASSUME NEW q \in DOMAIN heap', q \notin DOMAIN heap, NEW i \in DOMAIN heap'[q].children
       PROVE  Once(B, EdgeOf(q, i)')
  <2>1. q = p /\ heap'[q].children = edges /\ i \in DOMAIN edges
    BY <1>7, <1>12, <1>13
  <2>2. PICK d : d = [src |-> edges[i].to, input |-> edges[i].w]
    OBVIOUS
  <2>3. d = EdgeOf(q, i)' /\ d.src = t
    BY <1>8, <2>1, <2>2 DEF EdgeOf
  <2>. QED
    BY <1>5, <1>9, <2>3 DEF Once
<1>14. PICK S : S = {e}
  OBVIOUS
<1>15. /\ \A d \in S : \A C : Continues(C, B) => Once(C, d)'
       /\ \A d \in held' : d \in held \/ d \in S
       /\ \A entry \in DOMAIN evmdd_cache' : evmdd_cache'[entry] \in S \/ Once(B, evmdd_cache'[entry])
       /\ \A i \in 1 .. Len(stack') : \A j \in 1 .. Len(stack'[i].done) :
            stack'[i].done[j] \in S \/ Once(B, stack'[i].done[j])
  BY <1>3, <1>11, <1>14 DEF FactsInvFor
<1>. QED
  BY <1>1, <1>12, <1>13, <1>15, FactsAfter

LEMMA MakeConstKeepsFacts ==
  ASSUME Invariant, HeapOK', HeapGrows, NEW B, FactsInvFor(B),
         NEW f \in Live, NEW w, MakeConst(f, w)
  PROVE  FactsInv'
<1>1. PICK e, S : e = [src |-> TerminalOf(f), input |-> w] /\ S = {e}
  OBVIOUS
<1>2. held' = held \cup {e} /\ UNCHANGED <<heap, evmdd_cache, stack>>
  BY <1>1 DEF MakeConst
<1>3. e.src \in DOMAIN heap' /\ IsTerminal(e.src)
  BY <1>1, <1>2, LiveFactories, TerminalStored DEF Invariant
<1>4. \A d \in S : \A C : Continues(C, B) => Once(C, d)'
  BY <1>1, <1>3, TerminalOnce
<1>5. /\ \A d \in held' : d \in held \/ d \in S
      /\ \A entry \in DOMAIN evmdd_cache' : evmdd_cache'[entry] \in S \/ Once(B, evmdd_cache'[entry])
      /\ \A i \in 1 .. Len(stack') : \A j \in 1 .. Len(stack'[i].done) :
           stack'[i].done[j] \in S \/ Once(B, stack'[i].done[j])
      /\ DOMAIN heap' \subseteq DOMAIN heap \cup {e.src}
      /\ \A q \in DOMAIN heap' : q \in DOMAIN heap
  BY <1>1, <1>2 DEF FactsInvFor
<1>. QED
  BY <1>4, <1>5, FactsAfter DEF Invariant

LEMMA GetFactoryKeepsFacts ==
  ASSUME Invariant, HeapOK', HeapGrows, NEW B, FactsInvFor(B), NEW kind, NEW key, GetFactory(kind, key)
  PROVE  FactsInv'
<1>1. PICK p : p = [kind |-> kind, fac |-> Len(factories) + 1, id |-> 0]
  OBVIOUS
<1>2. heap' = Put(heap, p, TerminalNode) /\ UNCHANGED <<evmdd_cache, stack, held>>
  BY <1>1 DEF GetFactory
<1>3. /\ DOMAIN heap' \subseteq DOMAIN heap \cup {p}
      /\ \A q \in DOMAIN heap' : q \notin DOMAIN heap => heap'[q].children = <<>>
  BY <1>2 DEF Put, TerminalNode
<1>4. \A q \in DOMAIN heap' : q \notin DOMAIN heap => DOMAIN heap'[q].children = {}
  BY <1>3
<1>. QED
  BY <1>2, <1>3, <1>4, FactsAfterOthers DEF Invariant

LEMMA SameHeapKeepsFacts ==
  ASSUME Invariant, HeapOK', HeapGrows, NEW B, FactsInvFor(B), UNCHANGED <<heap, held, evmdd_cache>>,
         \A i \in 1 .. Len(stack') :
            stack'[i].done = <<>> \/ (i \in 1 .. Len(stack) /\ stack'[i].done = stack[i].done)
  PROVE  FactsInv'
<1>1. PICK p : TRUE
  OBVIOUS
<1>2. DOMAIN heap' \subseteq DOMAIN heap \cup {p} /\ \A q \in DOMAIN heap' : q \in DOMAIN heap
  OBVIOUS
<1>. QED
  BY <1>2, FactsAfterOthers DEF Invariant

LEMMA FactsInvIsKept ==
  ASSUME HashIsInjective, OpTypesDistinct, Invariant, FactsInv, [Next]_vars
  PROVE  FactsInv'
<1>1. Invariant' /\ HeapGrows /\ HeapOK'
  BY InvariantIsKept DEF Invariant
<1>2. PICK B : FactsInvFor(B)
  BY DEF FactsInv
<1>3. ASSUME UNCHANGED <<heap, held, evmdd_cache, stack>>
      PROVE  FactsInv'
  BY <1>1, <1>2, <1>3, SameHeapKeepsFacts
<1>4. CASE UNCHANGED vars
  BY <1>3, <1>4 DEF vars
<1>5. CASE Client
  <2>1. ASSUME NEW kind \in Kind, NEW key \in Key, GetFactory(kind, key)
        PROVE  FactsInv'
    BY <1>1, <1>2, <2>1, GetFactoryKeepsFacts
  <2>2. ASSUME NEW kind \in ResetKind, Reset(kind)
        PROVE  FactsInv'
    BY <1>3, <2>2 DEF Reset
  <2>3. ASSUME NEW f \in Live, NEW c \in ConstInput, MakeConst(f, c.w)
        PROVE  FactsInv'
    BY <1>1, <1>2, <2>3, MakeConstKeepsFacts
  <2>4. ASSUME NEW f \in Live, NEW v \in VarInput, v.kind = factories[f],
               MakeVar(f, v.level, v.values)
        PROVE  FactsInv'
    <3>1. v.level \in Level /\ v.values \in [1 .. DomainSize[v.level] -> Carrier(factories[f])]
      BY <2>4, InputAssumption
    <3>. QED
      BY <1>1, <1>2, <2>4, <3>1, MakeVarKeepsFacts
  <2>5. ASSUME NEW op \in Op, NEW f \in Live, NEW l \in held, NEW r \in held, Apply(op, f, l, r)
        PROVE  FactsInv'
    <3>1. UNCHANGED <<heap, held, evmdd_cache>> /\ stack' = <<Frame(l, r)>>
      BY <2>5 DEF Apply
    <3>2. \A i \in 1 .. Len(stack') : stack'[i].done = <<>>
      BY <3>1 DEF Frame
    <3>. QED
      BY <1>1, <1>2, <3>1, <3>2, SameHeapKeepsFacts
  <2>. QED
    BY <1>5, <2>1, <2>2, <2>3, <2>4, <2>5 DEF Client
<1>6. CASE TerminalThrow
  <2>1. UNCHANGED <<heap, held, evmdd_cache>> /\ Len(stack') = 0
    BY <1>6 DEF TerminalThrow
  <2>. QED
    BY <1>1, <1>2, <2>1, SameHeapKeepsFacts
<1>7. CASE CacheMiss
  <2>1. PICK n, op : n = Len(stack) /\ op = call.op
    OBVIOUS
  <2>2. ~ Idle /\ stack' = [stack EXCEPT ![n].pc = "children"] /\ UNCHANGED <<heap, held, evmdd_cache>>
    BY <1>7, <2>1 DEF CacheMiss
  <2>3. n \in Nat \ {0} /\ stack \in Seq(Activation(op)) /\ \A i \in 1 .. n : stack[i] \in Activation(op)
    BY <2>1, <2>2, StackTypes DEF Invariant
  <2>4. \A i \in 1 .. n : stack[i] = [l |-> stack[i].l, r |-> stack[i].r,
                                      pc |-> stack[i].pc, done |-> stack[i].done]
    BY <2>3, FrameTypes
  <2>5. Len(stack') = n /\ \A i \in 1 .. n : stack'[i].done = stack[i].done
    BY <2>1, <2>2, <2>3, <2>4
  <2>. QED
    BY <1>1, <1>2, <2>1, <2>2, <2>5, SameHeapKeepsFacts
<1>8. CASE Recurse
  <2>1. PICK n, new : n = Len(stack) /\ new.done = <<>> /\ stack' = Append(stack, new)
    BY <1>8 DEF Recurse, Frame
  <2>2. ~ Idle /\ UNCHANGED <<heap, held, evmdd_cache>>
    BY <1>8 DEF Recurse
  <2>3. n \in Nat \ {0} /\ stack \in Seq(Activation(call.op))
    BY <2>1, <2>2, StackTypes DEF Invariant
  <2>4. Len(stack') = n + 1 /\ stack'[n + 1] = new /\ \A i \in 1 .. n : stack'[i] = stack[i]
    BY <2>1, <2>3
  <2>5. \A i \in 1 .. n + 1 : i = n + 1 \/ i \in 1 .. n
    BY <2>3
  <2>. QED
    BY <1>1, <1>2, <2>1, <2>2, <2>4, <2>5, SameHeapKeepsFacts
<1>9. CASE Step
  BY <1>1, <1>2, <1>6, <1>7, <1>8, <1>9, TerminalCaseKeepsFacts, CacheHitKeepsFacts,
     CombineKeepsFacts DEF Step
<1>. QED
  BY <1>4, <1>5, <1>9 DEF Next

LEMMA FactsInitially ==
  ASSUME Init
  PROVE  FactsInv
<1>1. PICK B : B = [p \in {} |-> {}]
  OBVIOUS
<1>2. DOMAIN heap = {} /\ held = {} /\ DOMAIN evmdd_cache = {} /\ Len(stack) = 0
  BY DEF Init, Empty
<1>3. \A i \in 1 .. Len(stack) : FALSE
  BY <1>2
<1>4. FactsInvFor(B)
  BY <1>2, <1>3 DEF FactsInvFor, AreFacts
<1>. QED
  BY <1>4 DEF FactsInv

LEMMA FactsInvSuffices ==
  ASSUME HeapOK, FactsInv
  PROVE  FactsOccurOnce
<1>1. PICK B : FactsInvFor(B)
  BY DEF FactsInv
<1>2. \A p \in DOMAIN heap : FactsBelow[p] = B[p]
  BY <1>1, FactsBelowAre DEF FactsInvFor
<1>3. ASSUME NEW p \in DOMAIN heap, p.kind = "pair", NEW i \in DOMAIN heap[p].children
      PROVE  heap[p].children[i].w[1] \cap FactsBelow[heap[p].children[i].to] = {}
  <2>1. PICK to, w : to = heap[p].children[i].to /\ w = heap[p].children[i].w
    OBVIOUS
  <2>2. to \in DOMAIN heap /\ to.kind = "pair"
    BY <1>3, <2>1, NodeEdges DEF EdgesDescend
  <2>3. Once(B, [src |-> to, input |-> w])
    BY <1>1, <2>1 DEF FactsInvFor, EdgeOf
  <2>. QED
    BY <1>2, <2>1, <2>2, <2>3 DEF Once
<1>4. ASSUME NEW e \in held, e.src.kind = "pair"
      PROVE  e.input[1] \cap FactsBelow[e.src] = {}
  <2>1. Once(B, e)
    BY <1>1 DEF FactsInvFor
  <2>. QED
    BY <1>2, <1>4, <2>1 DEF Once
<1>. QED
  BY <1>3, <1>4 DEF FactsOccurOnce

(* An evaluation takes no step of apply. *)
LEMMA EvalNextIsNext ==
  ASSUME [EvalNext]_<<vars, evalVars>>
  PROVE  [Next]_vars
BY DEF EvalNext, EvaluatePartial, EvalStep, EvalTerminal, EvalHit, EvalMiss, EvalRecurse, EvalCombine

(* The assertion in EvaluationType::operator+= (evmdd/product_evmdd.h): no *)
(* fact occurs twice on a path of a diagram of effects and costs, because  *)
(* create_evmdd leaves the edges none of the facts that it moves up, and   *)
(* moves up none that is still below.  This needs no restriction on the    *)
(* factories.                                                              *)
THEOREM FactsOccurOnceOnPaths ==
  ASSUME HashIsInjective, OpTypesDistinct
  PROVE  EvalSpec => []FactsOccurOnce
<1>1. EvalInit => Invariant /\ FactsInv
  BY InvariantHoldsInitially, FactsInitially DEF EvalInit
<1>2. Invariant /\ FactsInv /\ [EvalNext]_<<vars, evalVars>> => (Invariant /\ FactsInv)'
  BY EvalNextIsNext, InvariantIsKept, FactsInvIsKept
<1>3. Invariant /\ FactsInv => FactsOccurOnce
  BY FactsInvSuffices DEF Invariant
<1>. QED
  BY <1>1, <1>2, <1>3, PTL DEF EvalSpec

----------------------------------------------------------------------------
(* The weights of the library: what EvmddApply assumes of its monoids, and *)
(* what InputsAreMinimal asks of their greatest lower bounds, holds of the *)
(* monoids of evmdd/monoids/, of machine integers of every width and of    *)
(* every set of facts.  The assumptions themselves are not used here.      *)

LibraryKind == {"int", "bool", "Facts", "pair"}

(* The monoids are those of the library. *)
LibraryWeights ==
  /\ Kind \subseteq LibraryKind
  /\ \A kind \in Kind :
       /\ Carrier(kind) = MonoidCarrier(kind)
       /\ Neutral(kind) = NeutralElement(kind)
       /\ \A a, b \in Carrier(kind) : /\ Plus(kind, a, b) = MonoidPlus(kind, a, b)
                                      /\ Monus(kind, a, b) = MonoidMonus(kind, a, b)
                                      /\ Glb(kind, a, b) = MonoidGlb(kind, a, b)

(* What MonoidAssumption, NeutralAssumption and RightNeutralAssumption say. *)
MonoidLaws ==
  \A kind \in Kind :
    /\ Neutral(kind) \in Carrier(kind)
    /\ \A a, b \in Carrier(kind) : /\ Plus(kind, a, b) \in Carrier(kind)
                                   /\ Monus(kind, a, b) \in Carrier(kind)
    /\ \A a \in Carrier(kind) : Plus(kind, Neutral(kind), a) = a /\ Plus(kind, a, Neutral(kind)) = a
    /\ \A v \in Level : \A ws \in [1 .. DomainSize[v] -> Carrier(kind)] :
         /\ GlbAll(kind, ws) \in Carrier(kind)
         /\ \A i \in 1 .. DomainSize[v] :
              Plus(kind, GlbAll(kind, ws), Monus(kind, ws[i], GlbAll(kind, ws))) = ws[i]

(* Machine integers: the lesser of two, and difference and sum around the  *)
(* limits, where what is subtracted may be any other integer.              *)
LEMMA IntWeights ==
  /\ \A a, b \in Ints : /\ IntGlb(a, b) \in Ints /\ IntGlb(a, b) = IntGlb(b, a)
                        /\ IntGlb(a, a) = a
                        /\ IntMonus(a, b) \in Ints
                        /\ IntPlus(b, IntMonus(a, b)) = a
  /\ \A a, b, c \in Ints : IntGlb(IntGlb(a, b), c) = IntGlb(a, IntGlb(b, c))
<1>1. \A a \in Ints : a \in Int
  BY Machine
<1>2. \A a, b \in Ints : IntGlb(a, b) \in Ints /\ IntGlb(a, b) = IntGlb(b, a) /\ IntGlb(a, a) = a
  BY <1>1 DEF IntGlb
<1>3. \A a, b, c \in Ints : IntGlb(IntGlb(a, b), c) = IntGlb(a, IntGlb(b, c))
  BY <1>1 DEF IntGlb
<1>4. ASSUME NEW a \in Ints, NEW b \in Ints
      PROVE  IntMonus(a, b) \in Ints /\ IntPlus(b, IntMonus(a, b)) = a
  <2>1. a \in Int /\ b \in Int
    BY <1>1
  <2>2. PICK d \in Int : d = a - b
    BY <2>1
  <2>3. IntMonus(a, b) = Wrap(d) /\ Wrap(d) \in Ints /\ Wrap(d) \in Int
    BY <1>1, <2>2, Machine DEF IntMonus
  <2>4. Wrap(Wrap(d) + b) = Wrap(d + b)
    BY <2>1, WrapOfSum
  <2>5. d + b = a /\ Wrap(d) + b = b + Wrap(d)
    BY <2>1, <2>2, <2>3
  <2>6. Wrap(a) = a
    BY Machine
  <2>. QED
    BY <2>3, <2>4, <2>5, <2>6 DEF IntPlus
<1>. QED
  BY <1>2, <1>3, <1>4

(* Sets of facts. *)
FactSets == SUBSET Fact

LEMMA EmptyFacts == {} \in FactSets
BY DEF FactSets

LEMMA FactsWeights ==
  /\ \A a, b \in FactSets :
       /\ FactsGlb(a, b) \in FactSets /\ FactsGlb(a, b) = FactsGlb(b, a) /\ FactsGlb(a, a) = a
       /\ FactsPlus(a, b) \in FactSets /\ FactsMonus(a, b) \in FactSets
       /\ FactsPlus({}, a) = a /\ FactsPlus(a, {}) = a
       /\ FactsGlb(b, a) = b => FactsPlus(b, FactsMonus(a, b)) = a
  /\ \A a, b, c \in FactSets : FactsGlb(FactsGlb(a, b), c) = FactsGlb(a, FactsGlb(b, c))
BY DEF FactSets, FactsGlb, FactsPlus, FactsMonus

LEMMA BoolWeights ==
  /\ \A a, b \in BOOLEAN :
       /\ BoolGlb(a, b) \in BOOLEAN /\ BoolGlb(a, b) = BoolGlb(b, a) /\ BoolGlb(a, a) = a
       /\ BoolPlus(a, b) \in BOOLEAN /\ BoolMonus(a, b) \in BOOLEAN
       /\ BoolPlus(FALSE, a) = a /\ BoolPlus(a, FALSE) = a
       /\ BoolGlb(b, a) = b => BoolPlus(b, BoolMonus(a, b)) = a
  /\ \A a, b, c \in BOOLEAN : BoolGlb(BoolGlb(a, b), c) = BoolGlb(a, BoolGlb(b, c))
BY DEF BoolGlb, BoolPlus, BoolMonus

(* Products. *)
LEMMA PairWeights ==
  /\ \A a, b \in FactSets \X Ints :
       /\ PairGlb(a, b) \in FactSets \X Ints
       /\ PairGlb(a, b) = PairGlb(b, a) /\ PairGlb(a, a) = a
       /\ PairPlus(a, b) \in FactSets \X Ints /\ PairMonus(a, b) \in FactSets \X Ints
       /\ <<{}, 0>> \in FactSets \X Ints
       /\ PairPlus(<<{}, 0>>, a) = a /\ PairPlus(a, <<{}, 0>>) = a
       /\ PairGlb(b, a) = b => PairPlus(b, PairMonus(a, b)) = a
  /\ \A a, b, c \in FactSets \X Ints : PairGlb(PairGlb(a, b), c) = PairGlb(a, PairGlb(b, c))
<1>1. \A a \in FactSets \X Ints : a[1] \in FactSets /\ a[2] \in Ints /\ a = <<a[1], a[2]>>
  OBVIOUS
<1>2. ASSUME NEW a \in FactSets \X Ints, NEW b \in FactSets \X Ints
      PROVE  /\ PairGlb(a, b) \in FactSets \X Ints
             /\ PairGlb(a, b) = PairGlb(b, a) /\ PairGlb(a, a) = a
             /\ PairPlus(a, b) \in FactSets \X Ints /\ PairMonus(a, b) \in FactSets \X Ints
             /\ <<{}, 0>> \in FactSets \X Ints
             /\ PairPlus(<<{}, 0>>, a) = a /\ PairPlus(a, <<{}, 0>>) = a
  <2>1. PairGlb(a, b) = PairGlb(b, a) /\ PairGlb(a, a) = a
    BY <1>1, FactsWeights, IntWeights DEF PairGlb
  <2>2. /\ PairGlb(a, b) \in FactSets \X Ints
        /\ PairPlus(a, b) \in FactSets \X Ints /\ PairMonus(a, b) \in FactSets \X Ints
    BY <1>1, FactsWeights, IntWeights, IntPlusLaws DEF PairGlb, PairPlus, PairMonus
  <2>3. <<{}, 0>> \in FactSets \X Ints
    BY EmptyFacts, Machine
  <2>4. PairPlus(<<{}, 0>>, a) = a
    BY <1>1, FactsWeights, IntPlusLaws DEF PairPlus
  <2>5. PairPlus(a, <<{}, 0>>) = a
    BY <1>1, FactsWeights, IntPlusLaws DEF PairPlus
  <2>. QED
    BY <2>1, <2>2, <2>3, <2>4, <2>5
<1>3. ASSUME NEW a \in FactSets \X Ints, NEW b \in FactSets \X Ints, PairGlb(b, a) = b
      PROVE  PairPlus(b, PairMonus(a, b)) = a
  <2>1. FactsGlb(b[1], a[1]) = b[1]
    BY <1>1, <1>3 DEF PairGlb
  <2>2. /\ FactsPlus(b[1], FactsMonus(a[1], b[1])) = a[1]
        /\ IntPlus(b[2], IntMonus(a[2], b[2])) = a[2]
    BY <1>1, <2>1, FactsWeights, IntWeights
  <2>. QED
    BY <1>1, <2>2 DEF PairPlus, PairMonus
<1>4. ASSUME NEW a \in FactSets \X Ints, NEW b \in FactSets \X Ints, NEW c \in FactSets \X Ints
      PROVE  PairGlb(PairGlb(a, b), c) = PairGlb(a, PairGlb(b, c))
  <2>1. /\ FactsGlb(FactsGlb(a[1], b[1]), c[1]) = FactsGlb(a[1], FactsGlb(b[1], c[1]))
        /\ IntGlb(IntGlb(a[2], b[2]), c[2]) = IntGlb(a[2], IntGlb(b[2], c[2]))
    BY <1>1, FactsWeights, IntWeights
  <2>. QED
    BY <2>1 DEF PairGlb
<1>. QED
  BY <1>2, <1>3, <1>4

(* The four of them. *)
LibraryLaw(kind, a, b, c) ==
  /\ MonoidGlb(kind, a, b) \in MonoidCarrier(kind)
  /\ MonoidGlb(kind, a, b) = MonoidGlb(kind, b, a)
  /\ MonoidGlb(kind, a, a) = a
  /\ MonoidGlb(kind, MonoidGlb(kind, a, b), c) = MonoidGlb(kind, a, MonoidGlb(kind, b, c))
  /\ NeutralElement(kind) \in MonoidCarrier(kind)
  /\ MonoidPlus(kind, a, b) \in MonoidCarrier(kind)
  /\ MonoidMonus(kind, a, b) \in MonoidCarrier(kind)
  /\ MonoidPlus(kind, NeutralElement(kind), a) = a
  /\ MonoidPlus(kind, a, NeutralElement(kind)) = a
  /\ MonoidGlb(kind, b, a) = b => MonoidPlus(kind, b, MonoidMonus(kind, a, b)) = a

LEMMA LibraryLaws ==
  ASSUME NEW kind \in LibraryKind,
         NEW a \in MonoidCarrier(kind), NEW b \in MonoidCarrier(kind), NEW c \in MonoidCarrier(kind)
  PROVE  LibraryLaw(kind, a, b, c)
<1>1. CASE kind = "int"
  <2>1. MonoidCarrier(kind) = Ints /\ NeutralElement(kind) = 0
    BY <1>1 DEF MonoidCarrier, NeutralElement
  <2>2. \A x, y : /\ MonoidGlb(kind, x, y) = IntGlb(x, y)
                 /\ MonoidPlus(kind, x, y) = IntPlus(x, y)
                 /\ MonoidMonus(kind, x, y) = IntMonus(x, y)
    BY <1>1 DEF MonoidGlb, MonoidPlus, MonoidMonus
  <2>3. a \in Ints /\ b \in Ints /\ c \in Ints
    BY <2>1
  <2>. QED
    BY <2>1, <2>2, <2>3, IntWeights, IntPlusLaws, Machine DEF LibraryLaw
<1>2. CASE kind = "bool"
  <2>1. MonoidCarrier(kind) = BOOLEAN /\ NeutralElement(kind) = FALSE
    BY <1>2 DEF MonoidCarrier, NeutralElement
  <2>2. \A x, y : /\ MonoidGlb(kind, x, y) = BoolGlb(x, y)
                 /\ MonoidPlus(kind, x, y) = BoolPlus(x, y)
                 /\ MonoidMonus(kind, x, y) = BoolMonus(x, y)
    BY <1>2 DEF MonoidGlb, MonoidPlus, MonoidMonus
  <2>3. a \in BOOLEAN /\ b \in BOOLEAN /\ c \in BOOLEAN
    BY <2>1
  <2>4. /\ BoolGlb(a, b) = BoolGlb(b, a) /\ BoolGlb(a, a) = a
        /\ BoolGlb(BoolGlb(a, b), c) = BoolGlb(a, BoolGlb(b, c))
    BY <2>3, BoolWeights
  <2>5. /\ BoolPlus(FALSE, a) = a /\ BoolPlus(a, FALSE) = a
        /\ (BoolGlb(b, a) = b => BoolPlus(b, BoolMonus(a, b)) = a)
    BY <2>3, BoolWeights
  <2>6. /\ NeutralElement(kind) \in MonoidCarrier(kind)
        /\ BoolGlb(a, b) \in MonoidCarrier(kind)
        /\ BoolPlus(a, b) \in MonoidCarrier(kind) /\ BoolMonus(a, b) \in MonoidCarrier(kind)
    BY <2>1, <2>3, BoolWeights
  <2>7. BoolPlus(NeutralElement(kind), a) = a /\ BoolPlus(a, NeutralElement(kind)) = a
    BY <2>1, <2>5
  <2>. QED
    BY <2>2, <2>4, <2>5, <2>6, <2>7 DEF LibraryLaw
<1>3. CASE kind = "Facts"
  <2>1. MonoidCarrier(kind) = FactSets /\ NeutralElement(kind) = {}
    BY <1>3 DEF FactSets, MonoidCarrier, NeutralElement
  <2>2. \A x, y : /\ MonoidGlb(kind, x, y) = FactsGlb(x, y)
                 /\ MonoidPlus(kind, x, y) = FactsPlus(x, y)
                 /\ MonoidMonus(kind, x, y) = FactsMonus(x, y)
    BY <1>3 DEF MonoidGlb, MonoidPlus, MonoidMonus
  <2>3. a \in FactSets /\ b \in FactSets /\ c \in FactSets
    BY <2>1
  <2>4. /\ FactsGlb(a, b) = FactsGlb(b, a) /\ FactsGlb(a, a) = a
        /\ FactsGlb(FactsGlb(a, b), c) = FactsGlb(a, FactsGlb(b, c))
    BY <2>3, FactsWeights
  <2>5. /\ FactsPlus({}, a) = a /\ FactsPlus(a, {}) = a
        /\ (FactsGlb(b, a) = b => FactsPlus(b, FactsMonus(a, b)) = a)
    BY <2>3, FactsWeights
  <2>6. /\ NeutralElement(kind) \in MonoidCarrier(kind)
        /\ FactsGlb(a, b) \in MonoidCarrier(kind)
        /\ FactsPlus(a, b) \in MonoidCarrier(kind) /\ FactsMonus(a, b) \in MonoidCarrier(kind)
    BY <2>1, <2>3, FactsWeights, EmptyFacts
  <2>7. FactsPlus(NeutralElement(kind), a) = a /\ FactsPlus(a, NeutralElement(kind)) = a
    BY <2>1, <2>5
  <2>. QED
    BY <2>2, <2>4, <2>5, <2>6, <2>7 DEF LibraryLaw
<1>4. CASE kind = "pair"
  <2>1. MonoidCarrier(kind) = FactSets \X Ints /\ NeutralElement(kind) = <<{}, 0>>
    BY <1>4 DEF FactSets, MonoidCarrier, NeutralElement
  <2>2. \A x, y : /\ MonoidGlb(kind, x, y) = PairGlb(x, y)
                 /\ MonoidPlus(kind, x, y) = PairPlus(x, y)
                 /\ MonoidMonus(kind, x, y) = PairMonus(x, y)
    BY <1>4 DEF MonoidGlb, MonoidPlus, MonoidMonus
  <2>3. a \in FactSets \X Ints /\ b \in FactSets \X Ints /\ c \in FactSets \X Ints
    BY <2>1
  <2>. QED
    BY <2>1, <2>2, <2>3, PairWeights DEF LibraryLaw
<1>. QED
  BY <1>1, <1>2, <1>3, <1>4 DEF LibraryKind

(* The library's weights are monoids as apply needs them. *)
THEOREM LibraryWeightsSuffice ==
  ASSUME LibraryWeights
  PROVE  GlbIsMeet /\ MonoidLaws
<1>1. ASSUME NEW kind \in Kind, NEW a \in Carrier(kind), NEW b \in Carrier(kind), NEW c \in Carrier(kind)
      PROVE  /\ Glb(kind, a, b) \in Carrier(kind) /\ Glb(kind, a, b) = Glb(kind, b, a)
             /\ Glb(kind, a, a) = a
             /\ Glb(kind, Glb(kind, a, b), c) = Glb(kind, a, Glb(kind, b, c))
             /\ Plus(kind, a, b) \in Carrier(kind) /\ Monus(kind, a, b) \in Carrier(kind)
             /\ Plus(kind, Neutral(kind), a) = a /\ Plus(kind, a, Neutral(kind)) = a
             /\ Glb(kind, b, a) = b => Plus(kind, b, Monus(kind, a, b)) = a
  <2>1. PICK C : C = Carrier(kind)
    OBVIOUS
  <2>2. /\ kind \in LibraryKind /\ C = MonoidCarrier(kind) /\ Neutral(kind) = NeutralElement(kind)
        /\ \A x, y \in C : /\ Plus(kind, x, y) = MonoidPlus(kind, x, y)
                            /\ Monus(kind, x, y) = MonoidMonus(kind, x, y)
                            /\ Glb(kind, x, y) = MonoidGlb(kind, x, y)
    BY <2>1 DEF LibraryWeights
  <2>3. \A x, y, z \in C : LibraryLaw(kind, x, y, z)
    BY <2>2, LibraryLaws
  <2>4. \A x, y \in C : MonoidGlb(kind, x, y) \in C /\ MonoidMonus(kind, x, y) \in C
    BY <2>2, <2>3 DEF LibraryLaw
  <2>5. LibraryLaw(kind, a, b, c)
    BY <2>1, <2>3
  <2>6. /\ Glb(kind, a, b) \in C /\ Glb(kind, a, b) = Glb(kind, b, a) /\ Glb(kind, a, a) = a
        /\ Plus(kind, a, b) \in C /\ Monus(kind, a, b) \in C
    BY <2>1, <2>2, <2>5 DEF LibraryLaw
  <2>7. Glb(kind, Glb(kind, a, b), c) = Glb(kind, a, Glb(kind, b, c))
    <3>1. /\ Glb(kind, Glb(kind, a, b), c) = MonoidGlb(kind, MonoidGlb(kind, a, b), c)
          /\ Glb(kind, a, Glb(kind, b, c)) = MonoidGlb(kind, a, MonoidGlb(kind, b, c))
      BY <2>1, <2>2, <2>4
    <3>. QED
      BY <2>5, <3>1 DEF LibraryLaw
  <2>8. Plus(kind, Neutral(kind), a) = a /\ Plus(kind, a, Neutral(kind)) = a
    <3>1. Neutral(kind) \in C
      BY <2>2, <2>5 DEF LibraryLaw
    <3>. QED
      BY <2>1, <2>2, <2>5, <3>1 DEF LibraryLaw
  <2>9. Glb(kind, b, a) = b => Plus(kind, b, Monus(kind, a, b)) = a
    <3>1. Plus(kind, b, Monus(kind, a, b)) = MonoidPlus(kind, b, MonoidMonus(kind, a, b))
      BY <2>1, <2>2, <2>4
    <3>. QED
      BY <2>1, <2>2, <2>5, <3>1 DEF LibraryLaw
  <2>. QED
    BY <2>1, <2>6, <2>7, <2>8, <2>9
<1>2. \A kind \in Kind : Neutral(kind) \in Carrier(kind)
  <2> SUFFICES ASSUME NEW kind \in Kind
               PROVE  Neutral(kind) \in Carrier(kind)
    OBVIOUS
  <2>1. kind \in LibraryKind /\ Carrier(kind) = MonoidCarrier(kind) /\ Neutral(kind) = NeutralElement(kind)
    BY DEF LibraryWeights
  <2>. QED
    BY <2>1, Machine DEF LibraryKind, MonoidCarrier, NeutralElement
<1>3. GlbIsMeet
  BY <1>1 DEF GlbIsMeet
<1>4. ASSUME NEW kind \in Kind, NEW v \in Level, NEW ws \in [1 .. DomainSize[v] -> Carrier(kind)]
      PROVE  /\ GlbAll(kind, ws) \in Carrier(kind)
             /\ \A i \in 1 .. DomainSize[v] :
                  Plus(kind, GlbAll(kind, ws), Monus(kind, ws[i], GlbAll(kind, ws))) = ws[i]
  <2>1. PICK g : g = GlbAll(kind, ws)
    OBVIOUS
  <2>2. IsGlb(kind, {ws[i] : i \in 1 .. DomainSize[v]}, g)
    BY <1>3, <2>1, DomainSizes, GlbAllIsGlb
  <2>3. g \in Carrier(kind) /\ \A i \in 1 .. DomainSize[v] : ws[i] \in Carrier(kind) /\ Glb(kind, g, ws[i]) = g
    BY <2>2 DEF IsGlb, Below
  <2>. QED
    BY <1>1, <2>1, <2>3
<1>. QED
  BY <1>1, <1>2, <1>3, <1>4 DEF MonoidLaws
=============================================================================
