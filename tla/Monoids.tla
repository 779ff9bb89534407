------------------------------ MODULE Monoids ------------------------------
(***************************************************************************)
(* The weights of LEMON-DD (evmdd/monoid.h and evmdd/monoids/).            *)
(*                                                                         *)
(* A weight is an element of a monoid.  The code has one C++ type          *)
(* Monoid<M,F> per carrier M; here a monoid is named by its kind:          *)
(*                                                                         *)
(*   "int"    Monoid<int, std::plus<int>>, a machine integer of IntBits    *)
(*            bits, so that addition and subtraction wrap around           *)
(*   "bool"   Monoid<bool, std::logical_or<bool>>                          *)
(*   "Facts"  Monoid<Facts, Union>                                         *)
(*   "pair"   ProductMonoid<Facts, int, Union, std::plus<int>>, the weight *)
(*            of a product EVMDD: an effect and its cost                   *)
(***************************************************************************)
EXTENDS Integers

CONSTANTS
  IntBits,      \* width of the machine integer
  Fact          \* the facts (variable-value pairs) that effects can produce

ASSUME IntBitsAssumption == IntBits \in Nat \ {0}

(* Arithmetic that the proofs need to be told: powers of two. *)
ASSUME PowerAssumption ==
  2 ^ (IntBits - 1) \in Nat \ {0} /\ 2 ^ IntBits = 2 * (2 ^ (IntBits - 1))

IntMin == -(2 ^ (IntBits - 1))
IntMax == 2 ^ (IntBits - 1) - 1
Ints   == IntMin .. IntMax

(* What the machine keeps of the mathematical result x. *)
Wrap(x) == ((x - IntMin) % (2 ^ IntBits)) + IntMin

(* The elements of the monoid. *)
MonoidCarrier(kind) ==
  CASE kind = "int"   -> Ints
    [] kind = "bool"  -> BOOLEAN
    [] kind = "Facts" -> SUBSET Fact
    [] kind = "pair"  -> (SUBSET Fact) \X Ints

----------------------------------------------------------------------------
(* operator+ *)
IntPlus(a, b)   == Wrap(a + b)
BoolPlus(a, b)  == a \/ b
FactsPlus(a, b) == a \cup b
PairPlus(a, b)  == <<FactsPlus(a[1], b[1]), IntPlus(a[2], b[2])>>

(* operator-, the monus *)
IntMonus(a, b)   == Wrap(a - b)
BoolMonus(a, b)  == a /\ ~b
FactsMonus(a, b) == a \ b
PairMonus(a, b)  == <<FactsMonus(a[1], b[1]), IntMonus(a[2], b[2])>>

(* greatest_lower_bound *)
IntGlb(a, b)   == IF b < a THEN b ELSE a
BoolGlb(a, b)  == a /\ b
FactsGlb(a, b) == a \cap b
PairGlb(a, b)  == <<FactsGlb(a[1], b[1]), IntGlb(a[2], b[2])>>

----------------------------------------------------------------------------
(* The same, by kind. *)
MonoidPlus(kind, a, b) ==
  CASE kind = "int"   -> IntPlus(a, b)
    [] kind = "bool"  -> BoolPlus(a, b)
    [] kind = "Facts" -> FactsPlus(a, b)
    [] kind = "pair"  -> PairPlus(a, b)

MonoidMonus(kind, a, b) ==
  CASE kind = "int"   -> IntMonus(a, b)
    [] kind = "bool"  -> BoolMonus(a, b)
    [] kind = "Facts" -> FactsMonus(a, b)
    [] kind = "pair"  -> PairMonus(a, b)

MonoidGlb(kind, a, b) ==
  CASE kind = "int"   -> IntGlb(a, b)
    [] kind = "bool"  -> BoolGlb(a, b)
    [] kind = "Facts" -> FactsGlb(a, b)
    [] kind = "pair"  -> PairGlb(a, b)

(* neutral_element, also what the default constructor yields *)
NeutralElement(kind) ==
  CASE kind = "int"   -> 0
    [] kind = "bool"  -> FALSE
    [] kind = "Facts" -> {}
    [] kind = "pair"  -> <<{}, 0>>
=============================================================================
