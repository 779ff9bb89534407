------------------------- MODULE Refinement_proofs -------------------------
(***************************************************************************)
(* Proofs that no result is computed twice, that the diagrams implement    *)
(* pointwise operations on functions, that they are canonical, and that    *)
(* their inputs are the minimum of their values.                           *)
(*                                                                         *)
(* EvmddApply, with every diagram mapped to the function it evaluates to,  *)
(* implements FunctionAlgebra.                                             *)
(*                                                                         *)
(* Nodes that are added do not change the function of a diagram that the   *)
(* client holds, because a diagram has one value in each state.  A call of *)
(* apply that throws does so for a state of its operands and not of some   *)
(* pair of sub-diagrams that belongs to none, because a sub-diagram does   *)
(* not depend on the variables above it, so that these can be set to reach *)
(* it.                                                                     *)
(*                                                                         *)
(* One factory per kind of weight that is never reset gives more: two      *)
(* results of apply that denote one function are one diagram, and what     *)
(* apply returns is in the store of the factory it was called on.  The     *)
(* argument is the one of decision diagrams.  A set of diagrams that is    *)
(* closed under children, and whose diagrams are reduced and normalised,   *)
(* stays canonical when such diagrams over it are added.  The diagrams of  *)
(* variables are outside of this set.                                      *)
(*                                                                         *)
(* At the end, that the input of a result is the greatest lower bound of   *)
(* its values, where that of monoid.h is the meet of a semi-lattice.  The  *)
(* greatest lower bound that create_evmdd pulls out of the children is one *)
(* of greatest lower bounds; hence it is that of all their values, which   *)
(* are the values of the new diagram.                                      *)
(***************************************************************************)
EXTENDS EvmddApply_proofs, WellFoundedInduction

----------------------------------------------------------------------------
(* A finished computation keeps its result: no two activations of apply    *)
(* that wait for children have the same operands, because the level of the *)
(* operands falls along the stack; hence the entry that an activation adds *)
(* to the cache is a new one.                                              *)

FrameLevel(fr) == RootLevel(fr.l, fr.r)

(* The levels fall along the whole stack. *)
Descends ==
  \A i, j \in 1 .. Len(stack) : i < j => FrameLevel(stack[j]) < FrameLevel(stack[i])

(* What an activation is computing is not in the cache yet. *)
NotCachedYet ==
  \A i \in 1 .. Len(stack) :
    stack[i].pc = "children" => <<OpType(call.op), stack[i].l, stack[i].r>> \notin DOMAIN evmdd_cache

MemoInv == Invariant /\ Descends /\ NotCachedYet

CacheGrows ==
  \A entry \in DOMAIN evmdd_cache :
    entry \in DOMAIN evmdd_cache' /\ evmdd_cache'[entry] = evmdd_cache[entry]

(* Every activation has a level. *)
LEMMA FrameLevels ==
  ASSUME Invariant, ~ Idle, NEW i \in 1 .. Len(stack)
  PROVE  /\ stack[i] \in Activation(call.op)
         /\ stack[i].l.src \in DOMAIN heap /\ stack[i].r.src \in DOMAIN heap
         /\ FrameLevel(stack[i]) \in Int
<1>1. stack[i] \in Activation(call.op) /\ call.op \in Op
  BY StackTypes DEF Invariant
<1>2. stack[i].l.src \in DOMAIN heap /\ stack[i].r.src \in DOMAIN heap
  BY <1>1, FrameTypes
<1>3. FrameLevel(stack[i]) \in Int
  <2>1. /\ heap[stack[i].l.src].level \in 0 .. NumLevels
        /\ heap[stack[i].r.src].level \in 0 .. NumLevels
    BY <1>2, Levels DEF Invariant
  <2>. QED
    BY <2>1 DEF FrameLevel, RootLevel, LevelOf
<1>. QED
  BY <1>1, <1>2, <1>3

(* The level of an activation does not change. *)
LEMMA FrameLevelStable ==
  ASSUME Invariant, HeapGrows, ~ Idle, NEW i \in 1 .. Len(stack), NEW x, x = stack[i]
  PROVE  FrameLevel(x)' = FrameLevel(x)
BY FrameLevels, StableSubs DEF FrameLevel

(* A return takes one activation away, and only adds a result to another. *)
LEMMA ReturnFrames ==
  ASSUME Invariant, ~ Idle, NEW result, Return(result)
  PROVE  /\ Len(stack) \in Nat \ {0}
         /\ Len(stack') = Len(stack) - 1
         /\ Len(stack') > 0 => call' = call
         /\ \A i \in 1 .. Len(stack') : /\ stack'[i].l = stack[i].l
                                        /\ stack'[i].r = stack[i].r
                                        /\ stack'[i].pc = stack[i].pc
<1>1. /\ Len(stack) \in Nat \ {0}
      /\ stack \in Seq(Activation(call.op))
      /\ DOMAIN stack = 1 .. Len(stack)
  BY StackTypes DEF Invariant
<1>2. CASE Len(stack) = 1
  BY <1>1, <1>2 DEF Return
<1>3. CASE Len(stack) # 1
  <2>1. PICK n : n = Len(stack) - 1 /\ n \in Nat \ {0} /\ Len(stack) = n + 1
    BY <1>1, <1>3
  <2>2. PICK new : new = [stack[n] EXCEPT !.done = Append(@, result)]
    OBVIOUS
  <2>3. /\ stack' = [i \in 1 .. n |-> IF i < n THEN stack[i] ELSE new]
        /\ UNCHANGED call
    <3>1. /\ stack' = [i \in 1 .. Len(stack) - 1 |->
                         IF i < Len(stack) - 1 THEN stack[i]
                         ELSE [stack[i] EXCEPT !.done = Append(@, result)]]
          /\ UNCHANGED call
      BY <1>1, <1>3 DEF Return
    <3>2. Len(stack) - 1 = n
      BY <2>1
    <3>3. /\ stack' = [i \in 1 .. n |-> IF i < n THEN stack[i]
                                       ELSE [stack[i] EXCEPT !.done = Append(@, result)]]
          /\ UNCHANGED call
      BY <3>1, <3>2, Zenon
    <3>4. \A i \in 1 .. n : (IF i < n THEN stack[i]
                             ELSE [stack[i] EXCEPT !.done = Append(@, result)])
                          = (IF i < n THEN stack[i] ELSE new)
      <4>1. \A i \in 1 .. n : ~ (i < n) => i = n
        BY <2>1
      <4>. QED
        BY <2>2, <4>1, Zenon
    <3>. QED
      BY <3>3, <3>4, Zenon
  <2>4. Len(stack') = n
    <3>1. stack' \in Seq(Range(stack')) /\ DOMAIN stack' = 1 .. n
      BY <2>1, <2>3 DEF Range
    <3>. QED
      BY <2>1, <3>1
  <2>5. ASSUME NEW i \in 1 .. n
        PROVE  stack'[i].l = stack[i].l /\ stack'[i].r = stack[i].r /\ stack'[i].pc = stack[i].pc
    <3>1. CASE i < n
      BY <2>1, <2>3, <3>1
    <3>2. CASE i = n
      <4>1. stack[n] \in Activation(call.op)
        BY <1>1, <2>1
      <4>2. stack[n] = [l |-> stack[n].l, r |-> stack[n].r, pc |-> stack[n].pc, done |-> stack[n].done]
        BY <4>1, FrameTypes
      <4>. QED
        BY <2>1, <2>2, <2>3, <3>2, <4>2
    <3>. QED
      BY <2>1, <3>1, <3>2
  <2>. QED
    BY <1>1, <2>1, <2>3, <2>4, <2>5
<1>. QED
  BY <1>2, <1>3

(* A return keeps the levels falling along the stack. *)
LEMMA ReturnDescends ==
  ASSUME MemoInv, HeapGrows, ~ Idle, NEW result, Return(result)
  PROVE  Descends'
<1> SUFFICES ASSUME NEW i \in 1 .. Len(stack'), NEW j \in 1 .. Len(stack'), i < j,
                    NEW x, x = stack'[i], NEW y, y = stack'[j]
             PROVE  FrameLevel(y)' < FrameLevel(x)'
  BY DEF Descends
<1>1. /\ i \in 1 .. Len(stack) /\ j \in 1 .. Len(stack)
      /\ x.l = stack[i].l /\ x.r = stack[i].r /\ y.l = stack[j].l /\ y.r = stack[j].r
  BY ReturnFrames DEF MemoInv
<1>2. PICK u, v : u = stack[i] /\ v = stack[j]
  OBVIOUS
<1>3. FrameLevel(u)' = FrameLevel(u) /\ FrameLevel(v)' = FrameLevel(v)
  BY <1>1, <1>2, FrameLevelStable DEF MemoInv
<1>4. FrameLevel(v) < FrameLevel(u)
  BY <1>1, <1>2 DEF MemoInv, Descends
<1>5. FrameLevel(x)' = FrameLevel(u)' /\ FrameLevel(y)' = FrameLevel(v)'
  BY <1>1, <1>2 DEF FrameLevel
<1>. QED
  BY <1>3, <1>4, <1>5

(* Neither changes while the cache does not and an activation returns. *)
LEMMA ReturnKeepsMemo ==
  ASSUME MemoInv, HeapGrows, ~ Idle, NEW result, Return(result), UNCHANGED evmdd_cache
  PROVE  Descends' /\ NotCachedYet'
<1>1. NotCachedYet'
  BY ReturnFrames DEF MemoInv, NotCachedYet
<1>. QED
  BY <1>1, ReturnDescends

(* The activation that returns adds an entry that was not there. *)
LEMMA CombineKeepsMemo ==
  ASSUME MemoInv, HeapGrows, Combine
  PROVE  Descends' /\ NotCachedYet' /\ CacheGrows
<1>1. PICK op, fr, n, key, result :
        /\ op = call.op /\ fr = Top /\ n = Len(stack) /\ key = CacheKey
        /\ result = Created(call.fac, RootLevel(Top.l, Top.r), Top.done)
  OBVIOUS
<1>2. /\ ~ Idle /\ fr.pc = "children" /\ Return(result)
      /\ evmdd_cache' = Put(evmdd_cache, key, result)
      /\ key = <<OpType(op), fr.l, fr.r>>
  BY <1>1 DEF Combine, CacheKey
<1>3. fr = stack[n] /\ n \in Nat \ {0}
  BY <1>1, <1>2, StackTypes DEF MemoInv, Invariant
<1>4. key \notin DOMAIN evmdd_cache
  BY <1>1, <1>2, <1>3 DEF MemoInv, NotCachedYet
<1>5. CacheGrows /\ DOMAIN evmdd_cache' = DOMAIN evmdd_cache \cup {key}
  BY <1>2, <1>4 DEF CacheGrows, Put
<1>6. ASSUME NEW i \in 1 .. Len(stack'), stack'[i].pc = "children"
      PROVE  <<OpType(call'.op), stack'[i].l, stack'[i].r>> \notin DOMAIN evmdd_cache'
  <2>1. /\ i \in 1 .. n /\ i < n
        /\ call' = call
        /\ stack'[i].l = stack[i].l /\ stack'[i].r = stack[i].r /\ stack[i].pc = "children"
    BY <1>1, <1>2, <1>6, ReturnFrames DEF MemoInv
  <2>2. <<OpType(op), stack[i].l, stack[i].r>> \notin DOMAIN evmdd_cache
    BY <1>1, <2>1 DEF MemoInv, NotCachedYet
  <2>3. FrameLevel(stack[n]) < FrameLevel(stack[i])
    BY <1>1, <1>3, <2>1 DEF MemoInv, Descends
  <2>4. FrameLevel(stack[n]) \in Int /\ FrameLevel(stack[i]) \in Int
    BY <1>1, <1>2, <1>3, <2>1, FrameLevels DEF MemoInv
  <2>5. ~ (stack[i].l = fr.l /\ stack[i].r = fr.r)
    BY <1>3, <2>3, <2>4 DEF FrameLevel
  <2>6. <<OpType(op), stack[i].l, stack[i].r>> # key
    BY <1>2, <2>5
  <2>. QED
    BY <1>1, <1>5, <2>1, <2>2, <2>6
<1>7. NotCachedYet'
  BY <1>6 DEF NotCachedYet
<1>. QED
  BY <1>2, <1>5, <1>7, ReturnDescends

(* An activation begins to wait when its entry is not in the cache. *)
LEMMA CacheMissKeepsMemo ==
  ASSUME MemoInv, HeapGrows, CacheMiss
  PROVE  Descends' /\ NotCachedYet'
<1>1. PICK op, fr, n : op = call.op /\ fr = Top /\ n = Len(stack)
  OBVIOUS
<1>2. /\ ~ Idle /\ <<OpType(op), fr.l, fr.r>> \notin DOMAIN evmdd_cache
      /\ stack' = [stack EXCEPT ![n].pc = "children"]
      /\ UNCHANGED <<call, evmdd_cache>>
  BY <1>1 DEF CacheMiss, CacheKey
<1>3. /\ n \in Nat \ {0} /\ DOMAIN stack = 1 .. n /\ fr = stack[n]
      /\ stack \in Seq(Activation(op)) /\ fr \in Activation(op)
  BY <1>1, <1>2, StackTypes DEF MemoInv, Invariant
<1>4. fr = [l |-> fr.l, r |-> fr.r, pc |-> fr.pc, done |-> fr.done]
  BY <1>3, FrameTypes
<1>5. /\ Len(stack') = n
      /\ \A i \in 1 .. n : /\ stack'[i].l = stack[i].l
                           /\ stack'[i].r = stack[i].r
                           /\ i # n => stack'[i].pc = stack[i].pc
  BY <1>2, <1>3, <1>4
<1>6. NotCachedYet'
  BY <1>1, <1>2, <1>3, <1>5 DEF MemoInv, NotCachedYet
<1>7. Descends'
  <2> SUFFICES ASSUME NEW i \in 1 .. Len(stack'), NEW j \in 1 .. Len(stack'), i < j,
                      NEW x, x = stack'[i], NEW y, y = stack'[j]
               PROVE  FrameLevel(y)' < FrameLevel(x)'
    BY DEF Descends
  <2>1. PICK u, v : u = stack[i] /\ v = stack[j]
    OBVIOUS
  <2>2. FrameLevel(u)' = FrameLevel(u) /\ FrameLevel(v)' = FrameLevel(v)
    BY <1>1, <1>2, <1>5, <2>1, FrameLevelStable DEF MemoInv
  <2>3. FrameLevel(v) < FrameLevel(u)
    BY <1>1, <1>5, <2>1 DEF MemoInv, Descends
  <2>4. FrameLevel(x)' = FrameLevel(u)' /\ FrameLevel(y)' = FrameLevel(v)'
    BY <1>5, <2>1 DEF FrameLevel
  <2>. QED
    BY <2>2, <2>3, <2>4
<1>. QED
  BY <1>6, <1>7

(* The operands of a recursive call lie below those of its caller. *)
LEMMA CallsDescend ==
  ASSUME HeapOK, NEW op \in Op, NEW fr, NEW next, FrameInv(fr, op), Calls(fr, next)
  PROVE  FrameLevel(next) < FrameLevel(fr)
<1>1. /\ fr.l \in EvmddOf(OpLeft(op)) /\ fr.r \in EvmddOf(OpRight(op)) /\ Len(fr.done) \in Nat
      /\ OpLeft(op) \in Kind /\ OpRight(op) \in Kind
      /\ ~ (IsTerminal(fr.l.src) /\ IsTerminal(fr.r.src))
  BY FrameTypes, OpAssumption DEF FrameInv, Calls
<1>2. PICK level, d : level = RootLevel(fr.l, fr.r) /\ d = DomainSize[level]
  OBVIOUS
<1>3. /\ d \in Nat /\ Len(sub_evmdds(fr.l, fr.r)) = d /\ RootLevel(fr.r, fr.l) = level
      /\ \A k \in 1 .. d : LevelOf(sub_evmdds(fr.l, fr.r)[k]) < level
  BY <1>1, <1>2, Subs
<1>4. \A k \in 1 .. d : LevelOf(sub_evmdds(fr.r, fr.l)[k]) < level
  BY <1>1, <1>2, <1>3, Subs
<1>5. Len(fr.done) + 1 \in 1 .. d
  BY <1>1, <1>3 DEF Calls
<1>6. LevelOf(next.l) < level /\ LevelOf(next.r) < level
  BY <1>3, <1>4, <1>5 DEF Calls
<1>. QED
  BY <1>2, <1>6 DEF FrameLevel, RootLevel

(* A recursive call goes to a lower level than all that wait. *)
LEMMA RecurseKeepsMemo ==
  ASSUME MemoInv, HeapGrows, Recurse
  PROVE  Descends' /\ NotCachedYet'
<1>1. PICK op, fr, n, new :
        /\ op = call.op /\ fr = Top /\ n = Len(stack)
        /\ new = Frame(sub_evmdds(fr.l, fr.r)[Len(fr.done) + 1], sub_evmdds(fr.r, fr.l)[Len(fr.done) + 1])
  OBVIOUS
<1>2. /\ ~ Idle /\ fr.pc = "children" /\ Len(fr.done) + 1 <= Len(sub_evmdds(fr.l, fr.r))
      /\ stack' = Append(stack, new)
      /\ UNCHANGED <<heap, call, evmdd_cache>>
  BY <1>1 DEF Recurse
<1>3. /\ n \in Nat \ {0} /\ DOMAIN stack = 1 .. n /\ fr = stack[n] /\ op \in Op
      /\ stack \in Seq(Activation(op)) /\ fr \in Activation(op) /\ FrameInv(fr, op) /\ HeapOK
  BY <1>1, <1>2, StackTypes DEF MemoInv, Invariant, StackInv
<1>4. new.l = sub_evmdds(fr.l, fr.r)[Len(fr.done) + 1] /\ new.r = sub_evmdds(fr.r, fr.l)[Len(fr.done) + 1]
      /\ new.pc = "enter"
  BY <1>1 DEF Frame
<1>5. Calls(fr, new)
  <2>1. ~ (IsTerminal(fr.l.src) /\ IsTerminal(fr.r.src)) /\ Len(fr.done) \in Nat
    BY <1>2, <1>3, FrameTypes DEF FrameInv
  <2>2. Len(sub_evmdds(fr.l, fr.r)) \in Nat
    BY <1>3, <2>1, FrameTypes, Subs, OpAssumption
  <2>. QED
    BY <1>2, <1>4, <2>1, <2>2 DEF Calls
<1>6. FrameLevel(new) < FrameLevel(fr)
  BY <1>3, <1>5, CallsDescend
<1>7. /\ Len(stack') = n + 1
      /\ \A i \in 1 .. n : stack'[i] = stack[i]
      /\ stack'[n + 1] = new
  BY <1>1, <1>2, <1>3
<1>8. NotCachedYet'
  <2> SUFFICES ASSUME NEW i \in 1 .. n + 1, stack'[i].pc = "children"
               PROVE  <<OpType(op), stack'[i].l, stack'[i].r>> \notin DOMAIN evmdd_cache
    BY <1>1, <1>2, <1>7 DEF NotCachedYet
  <2>1. i \in 1 .. n
    BY <1>3, <1>4, <1>7
  <2>. QED
    BY <1>1, <1>7, <2>1 DEF MemoInv, NotCachedYet
<1>9. Descends'
  <2> SUFFICES ASSUME NEW i \in 1 .. n + 1, NEW j \in 1 .. n + 1, i < j,
                      NEW x, x = stack'[i], NEW y, y = stack'[j]
               PROVE  FrameLevel(y)' < FrameLevel(x)'
    BY <1>7 DEF Descends
  <2>1. FrameLevel(x)' = FrameLevel(x) /\ FrameLevel(y)' = FrameLevel(y)
    BY <1>2 DEF FrameLevel, RootLevel, LevelOf
  <2>2. x = stack[i] /\ i \in 1 .. n
    BY <1>3, <1>7
  <2>3. CASE j \in 1 .. n
    BY <1>1, <1>7, <2>1, <2>2, <2>3 DEF MemoInv, Descends
  <2>4. CASE j = n + 1
    <3>1. FrameLevel(y) < FrameLevel(fr) /\ FrameLevel(fr) \in Int /\ FrameLevel(x) \in Int
      BY <1>1, <1>2, <1>3, <1>6, <1>7, <2>2, <2>4, FrameLevels DEF MemoInv
    <3>2. FrameLevel(y) \in Int
      <4>1. y.l.src \in DOMAIN heap /\ y.r.src \in DOMAIN heap
        <5>1. Len(fr.done) + 1 \in 1 .. Len(sub_evmdds(fr.l, fr.r)) /\ ~ (IsTerminal(fr.l.src) /\ IsTerminal(fr.r.src))
          BY <1>2, <1>3, FrameTypes DEF FrameInv
        <5>2. y.l = sub_evmdds(fr.l, fr.r)[Len(fr.done) + 1] /\ y.r = sub_evmdds(fr.r, fr.l)[Len(fr.done) + 1]
          BY <1>4, <1>7, <2>4
        <5>3. PICK k, d : k = Len(fr.done) + 1 /\ d = DomainSize[RootLevel(fr.l, fr.r)]
          OBVIOUS
        <5>4. /\ k \in 1 .. d
              /\ sub_evmdds(fr.l, fr.r) \in [1 .. d -> EvmddOf(OpLeft(op))]
              /\ RootLevel(fr.r, fr.l) = RootLevel(fr.l, fr.r)
          BY <1>3, <5>1, <5>3, FrameTypes, Subs, OpAssumption
        <5>5. sub_evmdds(fr.r, fr.l) \in [1 .. d -> EvmddOf(OpRight(op))]
          BY <1>3, <5>1, <5>3, <5>4, FrameTypes, Subs, OpAssumption
        <5>6. y.l \in EvmddOf(OpLeft(op)) /\ y.r \in EvmddOf(OpRight(op))
          BY <5>2, <5>3, <5>4, <5>5
        <5>. QED
          BY <5>6 DEF EvmddOf
      <4>2. LevelOf(y.l) \in Int /\ LevelOf(y.r) \in Int
        BY <1>3, <4>1, Levels DEF LevelOf
      <4>. QED
        BY <4>2 DEF FrameLevel, RootLevel
    <3>3. i = n \/ FrameLevel(fr) < FrameLevel(x)
      <4>1. i # n => i < n /\ n \in 1 .. n
        BY <1>3, <2>2
      <4>. QED
        BY <1>1, <1>3, <2>2, <4>1 DEF MemoInv, Descends
    <3>. QED
      BY <1>3, <2>1, <2>2, <3>1, <3>2, <3>3
  <2>. QED
    BY <1>3, <2>3, <2>4
<1>. QED
  BY <1>8, <1>9

(* Every step keeps the descent, and no step changes an entry of the cache. *)
LEMMA MemoIsKept ==
  ASSUME HashIsInjective, OpTypesDistinct, MemoInv, [Next]_vars
  PROVE  MemoInv' /\ HeapGrows /\ CacheGrows
<1>1. Invariant' /\ HeapGrows
  BY InvariantIsKept DEF MemoInv
<1>2. CASE UNCHANGED vars
  <2>1. UNCHANGED <<evmdd_cache, stack, call, heap>>
    BY <1>2 DEF vars
  <2>2. NotCachedYet' /\ CacheGrows
    BY <2>1 DEF MemoInv, NotCachedYet, CacheGrows
  <2>3. Descends'
    BY <2>1 DEF MemoInv, Descends, FrameLevel, RootLevel, LevelOf
  <2>. QED
    BY <1>1, <2>2, <2>3 DEF MemoInv
<1>3. CASE Client
  <2>1. UNCHANGED evmdd_cache
    BY <1>3 DEF Client, GetFactory, Reset, MakeConst, MakeVar, Apply
  <2>2. stack' = <<>> \/ \E l, r : stack' = <<Frame(l, r)>>
    BY <1>3 DEF Client, GetFactory, Reset, MakeConst, MakeVar, Apply, Idle
  <2>3. Descends' /\ NotCachedYet'
    BY <2>2 DEF Descends, NotCachedYet, Frame
  <2>. QED
    BY <1>1, <2>1, <2>3 DEF MemoInv, CacheGrows
<1>4. CASE TerminalCase
  <2>1. PICK result : ~ Idle /\ Return(result) /\ UNCHANGED evmdd_cache
    BY <1>4 DEF TerminalCase
  <2>. QED
    BY <1>1, <2>1, ReturnKeepsMemo DEF MemoInv, CacheGrows
<1>5. CASE TerminalThrow
  <2>1. stack' = <<>> /\ UNCHANGED evmdd_cache
    BY <1>5 DEF TerminalThrow
  <2>. QED
    BY <1>1, <2>1 DEF MemoInv, Descends, NotCachedYet, CacheGrows
<1>6. CASE CacheHit
  <2>1. PICK result : ~ Idle /\ Return(result) /\ UNCHANGED evmdd_cache
    BY <1>6 DEF CacheHit
  <2>. QED
    BY <1>1, <2>1, ReturnKeepsMemo DEF MemoInv, CacheGrows
<1>7. CASE CacheMiss
  BY <1>1, <1>7, CacheMissKeepsMemo DEF MemoInv, CacheGrows, CacheMiss
<1>8. CASE Recurse
  <2>1. UNCHANGED evmdd_cache
    BY <1>8 DEF Recurse
  <2>. QED
    BY <1>1, <1>8, <2>1, RecurseKeepsMemo DEF MemoInv, CacheGrows
<1>9. CASE Combine
  BY <1>1, <1>9, CombineKeepsMemo DEF MemoInv
<1>. QED
  BY <1>2, <1>3, <1>4, <1>5, <1>6, <1>7, <1>8, <1>9 DEF Next, Step

(* A finished computation stays in the cache with the result it had, and a *)
(* node once made keeps its level and edges.                               *)
THEOREM NothingIsForgotten ==
  ASSUME HashIsInjective, OpTypesDistinct
  PROVE  Spec => NothingForgotten
<1>1. Init => MemoInv
  <2> SUFFICES ASSUME Init
               PROVE  MemoInv
    OBVIOUS
  <2>1. Invariant
    BY InvariantHoldsInitially
  <2>2. Len(stack) = 0
    BY DEF Init
  <2>. QED
    BY <2>1, <2>2 DEF MemoInv, Descends, NotCachedYet
<1>2. MemoInv /\ [Next]_vars => MemoInv'
  BY MemoIsKept
<1>3. MemoInv /\ [Next]_vars =>
        [/\ \A entry \in DOMAIN evmdd_cache :
               entry \in DOMAIN evmdd_cache' /\ evmdd_cache'[entry] = evmdd_cache[entry]
         /\ \A p \in DOMAIN heap : p \in DOMAIN heap' /\ heap'[p] = heap[p]]_vars
  BY MemoIsKept DEF HeapGrows, CacheGrows
<1>. QED
  BY <1>1, <1>2, <1>3, PTL DEF Spec, NothingForgotten

----------------------------------------------------------------------------
(* The value of a diagram. *)

SameBelow(s, t, level) == \A v \in Level : v <= level => s[v] = t[v]

(* The recursion of evaluate has one solution at most, and a diagram       *)
(* depends on the variables up to its level only.                          *)
ValuesDetermined ==
  \A s, t \in State : \A V, W : IsValue(V, s) /\ IsValue(W, t) =>
    \A e \in Evmdd : SameBelow(s, t, LevelOf(e)) => V[e] = W[e]

(* A diagram whose node is new has the values of the children of the node, *)
(* which are old.                                                          *)
LEMMA ValueOfNew ==
  ASSUME HeapOK', NEW p, DOMAIN heap' \subseteq DOMAIN heap \cup {p}, HeapGrows,
         NEW e \in Evmdd', e.src \notin DOMAIN heap, ~ IsTerminal(e.src),
         NEW level, level = LevelOf(e)'
  PROVE  /\ level \in Level
         /\ \A s \in State :
              /\ Child(e, s[level])' \in Evmdd
              /\ LevelOf(Child(e, s[level])') < level
              /\ \A V : IsValue(V, s)' => V[e] = V[Child(e, s[level])']
<1>1. PICK kind \in Kind : e \in EvmddOf(kind)'
  BY DEF Evmdd, EvmddOf
<1>2. e.src \in DOMAIN heap' /\ e.src.kind = kind /\ e.input \in Carrier(kind) /\ e.src = p
  BY <1>1 DEF EvmddOf
<1>3. Node(e.src)'
  BY <1>2 DEF HeapOK
<1>4. PICK node : node = heap'[e.src]
  OBVIOUS
<1>5. /\ level = node.level /\ level \in Level
      /\ node.children \in [1 .. DomainSize[level] ->
           [w : Carrier(kind), to : {q \in DOMAIN heap' : q.kind = kind}]]
      /\ \A i \in DOMAIN node.children : heap'[node.children[i].to].level < level
  BY <1>2, <1>3, <1>4 DEF Node, IsTerminal, Level, NumLevels, LevelOf
<1>6. ASSUME NEW s \in State, NEW c, c = Child(e, s[level])'
      PROVE  c \in Evmdd /\ LevelOf(c) < level
  <2>1. PICK i : i = s[level] /\ i \in 1 .. DomainSize[level]
    BY <1>5, States
  <2>2. c = [src |-> node.children[i].to, input |-> Plus(kind, e.input, node.children[i].w)]
    BY <1>2, <1>4, <1>6, <2>1 DEF Child, ChildrenOf
  <2>3. /\ node.children[i].w \in Carrier(kind)
        /\ node.children[i].to \in DOMAIN heap' /\ node.children[i].to.kind = kind
        /\ heap'[node.children[i].to].level < level
    BY <1>5, <2>1
  <2>4. node.children[i].to \in DOMAIN heap
    <3>1. node.children[i].to # p
      <4>1. ~ (level < level)
        BY <1>5, DomainSizes DEF Level
      <4>. QED
        BY <1>2, <1>4, <1>5, <2>3, <4>1
    <3>. QED
      BY <2>3, <3>1
  <2>5. c \in EvmddOf(kind)
    <3>1. Plus(kind, e.input, node.children[i].w) \in Carrier(kind)
      BY <1>2, <2>3, MonoidAssumption
    <3>. QED
      BY <2>2, <2>3, <2>4, <3>1 DEF EvmddOf
  <2>6. c \in Evmdd
    BY <2>5, Fields
  <2>7. LevelOf(c) = heap'[node.children[i].to].level
    BY <2>2, <2>4 DEF LevelOf, HeapGrows
  <2>. QED
    BY <2>3, <2>6, <2>7
<1>7. ASSUME NEW s \in State, NEW V, IsValue(V, s)'
      PROVE  V[e] = V[Child(e, s[level])']
  <2>1. V[e] = StepValue(V, s, e)'
    BY <1>7 DEF IsValue
  <2>2. StepValue(V, s, e)' = V[Child(e, s[level])']
    BY DEF StepValue, IsTerminal, Child, ChildrenOf, LevelOf
  <2>. QED
    BY <2>1, <2>2
<1>. QED
  BY <1>5, <1>6, <1>7

(* Values stay determined while nodes are added one by one. *)
LEMMA ValuesStayDetermined ==
  ASSUME HeapOK, HeapOK', NEW p, DOMAIN heap' \subseteq DOMAIN heap \cup {p}, HeapGrows,
         ValuesDetermined
  PROVE  ValuesDetermined'
<1> SUFFICES ASSUME NEW s \in State, NEW t \in State, NEW V, NEW W,
                    IsValue(V, s)', IsValue(W, t)', NEW e \in Evmdd',
                    NEW level, level = LevelOf(e)', SameBelow(s, t, level)
             PROVE  V[e] = W[e]
  <2>1. State' = State /\ \A s, t, level : SameBelow(s, t, level)' <=> SameBelow(s, t, level)
    BY DEF State, SameBelow, Level, NumLevels
  <2>. QED
    BY <2>1 DEF ValuesDetermined, SameBelow
<1>1. IsValue(V, s) /\ IsValue(W, t)
  BY ValueOfOld
<1>2. CASE e.src \in DOMAIN heap
  <2>1. e \in Evmdd
    BY <1>2 DEF Evmdd, EvmddOf
  <2>2. LevelOf(e) = level
    BY <1>2, Stable
  <2>. QED
    BY <1>1, <2>1, <2>2 DEF ValuesDetermined
<1>3. CASE e.src \notin DOMAIN heap /\ IsTerminal(e.src)
  <2>1. V[e] = StepValue(V, s, e)' /\ W[e] = StepValue(W, t, e)'
    BY DEF IsValue
  <2>2. StepValue(V, s, e)' = e.input /\ StepValue(W, t, e)' = e.input
    BY <1>3 DEF StepValue, IsTerminal
  <2>. QED
    BY <2>1, <2>2
<1>4. CASE e.src \notin DOMAIN heap /\ ~ IsTerminal(e.src)
  <2>1. PICK c : c = Child(e, s[level])'
    OBVIOUS
  <2>2. level \in Level /\ c \in Evmdd /\ LevelOf(c) < level /\ V[e] = V[c]
    BY <1>4, <2>1, ValueOfNew
  <2>3. s[level] = t[level]
    BY <2>2, DomainSizes DEF SameBelow, Level
  <2>4. W[e] = W[c]
    BY <1>4, <2>1, <2>3, ValueOfNew
  <2>5. SameBelow(s, t, LevelOf(c))
    <3>1. LevelOf(c) \in Int /\ level \in Int
      BY <2>2, Levels, DomainSizes, SomeKind, Fields DEF LevelOf, Level
    <3>. QED
      BY <2>2, <3>1, DomainSizes DEF SameBelow, Level
  <2>6. V[c] = W[c]
    BY <1>1, <2>2, <2>5 DEF ValuesDetermined
  <2>. QED
    BY <2>2, <2>4, <2>6
<1>. QED
  BY <1>2, <1>3, <1>4

(* After a step, too, Value(s) satisfies its equation. *)
LEMMA NewValueIsValue ==
  ASSUME ValueExists', NEW s \in State, NEW W, W = Value(s)'
  PROVE  IsValue(W, s)'
<1> DEFINE P(V) == V = [e \in Evmdd' |->
                      IF IsTerminal(e.src) THEN e.input ELSE V[Child(e, s[LevelOf(e)])']]
<1>1. State' = State
  BY DEF State, Level, NumLevels
<1>2. \E V : P(V)
  BY <1>1 DEF ValueExists, StepValue, IsTerminal
<1>3. W = CHOOSE V : P(V)
  BY DEF Value, IsTerminal
<1>4. P(W)
  BY <1>2, <1>3
<1>. QED
  BY <1>4 DEF IsValue, StepValue, IsTerminal

(* The function of a diagram does not change while nodes are added. *)
LEMMA OldValues ==
  ASSUME HeapGrows, ValueExists, ValueExists', ValuesDetermined, NEW e \in Evmdd
  PROVE  /\ \A s \in State : Value(s)'[e] = Value(s)[e]
         /\ Denotation(e)' = Denotation(e)
<1>1. ASSUME NEW s \in State
      PROVE  Value(s)'[e] = Value(s)[e]
  <2>1. PICK V, W : V = Value(s) /\ W = Value(s)'
    OBVIOUS
  <2>2. IsValue(V, s) /\ IsValue(W, s)
    BY <2>1, ValueIsValue, NewValueIsValue, ValueOfOld
  <2>3. SameBelow(s, s, LevelOf(e))
    BY DEF SameBelow
  <2>. QED
    BY <2>1, <2>2, <2>3 DEF ValuesDetermined
<1>2. State' = State
  BY DEF State, Level, NumLevels
<1>. QED
  BY <1>1, <1>2 DEF Denotation

(* No step adds more than one node. *)
LEMMA StoreAddsOneNode ==
  ASSUME NEW f, NEW level, NEW children, StoreNode(f, level, children)
  PROVE  \E p : DOMAIN heap' \subseteq DOMAIN heap \cup {p}
BY DEF StoreNode, Put

LEMMA OneNodeAdded ==
  ASSUME [Next]_vars
  PROVE  \E p : DOMAIN heap' \subseteq DOMAIN heap \cup {p}
<1>1. ASSUME UNCHANGED heap
      PROVE  \E p : DOMAIN heap' \subseteq DOMAIN heap \cup {p}
  BY <1>1
<1>2. CASE UNCHANGED vars
  BY <1>1, <1>2 DEF vars
<1>3. ASSUME NEW kind \in Kind, NEW key \in Key, GetFactory(kind, key)
      PROVE  \E p : DOMAIN heap' \subseteq DOMAIN heap \cup {p}
  BY <1>3 DEF GetFactory, Put
<1>4. ASSUME NEW f \in Live, NEW v \in VarInput, MakeVar(f, v.level, v.values)
      PROVE  \E p : DOMAIN heap' \subseteq DOMAIN heap \cup {p}
  BY <1>4, StoreAddsOneNode DEF MakeVar
<1>5. CASE Client
  BY <1>1, <1>3, <1>4, <1>5 DEF Client, Reset, MakeConst, Apply
<1>6. CASE Combine
  BY <1>1, <1>6, StoreAddsOneNode DEF Combine, CreateEvmdd
<1>7. CASE Step
  BY <1>1, <1>6, <1>7 DEF Step, TerminalCase, TerminalThrow, CacheHit, CacheMiss, Recurse
<1>. QED
  BY <1>2, <1>5, <1>7 DEF Next

----------------------------------------------------------------------------
(* The states in which the operator is applied. *)

(* The operands of b have no pair of values that those of a do not have. *)
Reaches(a, b) ==
  \A s \in State : \E t \in State :
    Value(t)[a.l] = Value(s)[b.l] /\ Value(t)[a.r] = Value(s)[b.r]

StackReaches == \A i \in 1 .. Len(stack) : Reaches(stack[1], stack[i])

RefinementInv == Invariant /\ ValuesDetermined /\ StackReaches

(* A variable can be set without an effect on the diagrams below it. *)
LEMMA Set ==
  ASSUME HeapOK, ValueExists, ValuesDetermined, NEW s \in State,
         NEW level \in Level, NEW i \in 1 .. DomainSize[level]
  PROVE  \E t \in State :
           /\ t[level] = i
           /\ \A v \in Level : v # level => t[v] = s[v]
           /\ \A e \in Evmdd : LevelOf(e) < level => Value(t)[e] = Value(s)[e]
<1>1. PICK t : t = [s EXCEPT ![level] = i]
  OBVIOUS
<1>2. /\ DOMAIN t = Level /\ t[level] = i
      /\ \A v \in Level : v # level => t[v] = s[v]
  BY <1>1 DEF State
<1>3. t \in State
  <2>1. \A v \in Level : t[v] \in 1 .. DomainSize[v]
    BY <1>2, States
  <2>2. \A v \in Level : t[v] \in UNION {1 .. DomainSize[u] : u \in Level} /\ t[v] <= DomainSize[v]
    BY <2>1, DomainSizes
  <2>3. t = [v \in Level |-> t[v]]
    BY <1>1, <1>2 DEF State
  <2>. QED
    BY <2>2, <2>3 DEF State
<1>4. ASSUME NEW e \in Evmdd, LevelOf(e) < level
      PROVE  Value(t)[e] = Value(s)[e]
  <2>1. LevelOf(e) \in Int
    BY Levels, DomainSizes, SomeKind, Fields DEF LevelOf
  <2>2. SameBelow(t, s, LevelOf(e))
    BY <1>2, <1>4, <2>1, DomainSizes DEF SameBelow, Level
  <2>3. IsValue(Value(t), t) /\ IsValue(Value(s), s)
    BY <1>3, ValueIsValue
  <2>. QED
    BY <1>3, <2>2, <2>3 DEF ValuesDetermined
<1>. QED
  BY <1>2, <1>3, <1>4

(* The operands of an activation. *)
LEMMA Operands ==
  ASSUME Invariant, ~ Idle, NEW i \in 1 .. Len(stack)
  PROVE  /\ call.op \in Op
         /\ stack[i].l \in EvmddOf(OpLeft(call.op)) /\ stack[i].l \in Evmdd
         /\ stack[i].r \in EvmddOf(OpRight(call.op)) /\ stack[i].r \in Evmdd
BY StackTypes, FrameTypes, OpAssumption, Fields DEF Invariant

(* A recursive call works in states that its caller works in. *)
LEMMA RecursionReaches ==
  ASSUME RefinementInv, Recurse
  PROVE  LET new == Frame(sub_evmdds(Top.l, Top.r)[Len(Top.done) + 1],
                          sub_evmdds(Top.r, Top.l)[Len(Top.done) + 1])
         IN  /\ new.l \in Evmdd /\ new.r \in Evmdd
             /\ Reaches(stack[1], new)
<1>1. /\ HeapOK /\ ValueExists /\ CallOK /\ StackInv /\ ValuesDetermined /\ Invariant
  BY DEF RefinementInv, Invariant
<1>2. PICK op, fr, j, new :
        /\ op = call.op /\ fr = Top /\ j = Len(fr.done) + 1
        /\ new = Frame(sub_evmdds(fr.l, fr.r)[j], sub_evmdds(fr.r, fr.l)[j])
  OBVIOUS
<1>3. ~ Idle /\ fr.pc = "children" /\ j <= Len(sub_evmdds(fr.l, fr.r))
  BY <1>2 DEF Recurse
<1>4. /\ op \in Op /\ OpLeft(op) \in Kind /\ OpRight(op) \in Kind
      /\ Len(stack) \in 1 .. Len(stack) /\ fr = stack[Len(stack)]
      /\ fr.l \in EvmddOf(OpLeft(op)) /\ fr.r \in EvmddOf(OpRight(op))
      /\ Len(fr.done) \in Nat
  BY <1>1, <1>2, <1>3, StackTypes, FrameTypes, OpAssumption
<1>5. ~ (IsTerminal(fr.l.src) /\ IsTerminal(fr.r.src))
  BY <1>1, <1>2, <1>3, <1>4 DEF StackInv, FrameInv
<1>6. PICK level, d : level = RootLevel(fr.l, fr.r) /\ d = DomainSize[level]
  OBVIOUS
<1>7. /\ level \in Level /\ d \in Nat /\ Len(sub_evmdds(fr.l, fr.r)) = d
      /\ sub_evmdds(fr.l, fr.r) \in [1 .. d -> EvmddOf(OpLeft(op))]
      /\ \A i \in 1 .. d : LevelOf(sub_evmdds(fr.l, fr.r)[i]) < level
      /\ RootLevel(fr.r, fr.l) = level
  BY <1>1, <1>4, <1>5, <1>6, Subs
<1>8. /\ sub_evmdds(fr.r, fr.l) \in [1 .. d -> EvmddOf(OpRight(op))]
      /\ \A i \in 1 .. d : LevelOf(sub_evmdds(fr.r, fr.l)[i]) < level
  BY <1>1, <1>4, <1>5, <1>6, <1>7, Subs
<1>9. j \in 1 .. d
  BY <1>2, <1>3, <1>4, <1>7
<1>10. /\ new.l = sub_evmdds(fr.l, fr.r)[j] /\ new.r = sub_evmdds(fr.r, fr.l)[j]
       /\ new.l \in Evmdd /\ new.r \in Evmdd
       /\ LevelOf(new.l) < level /\ LevelOf(new.r) < level
  BY <1>2, <1>4, <1>7, <1>8, <1>9, Fields DEF Frame
<1>11. Reaches(fr, new)
  <2> SUFFICES ASSUME NEW s \in State
               PROVE  \E t \in State : Value(t)[fr.l] = Value(s)[new.l] /\ Value(t)[fr.r] = Value(s)[new.r]
    BY DEF Reaches
  <2>1. PICK t \in State :
          /\ t[level] = j
          /\ \A e \in Evmdd : LevelOf(e) < level => Value(t)[e] = Value(s)[e]
    BY <1>1, <1>6, <1>7, <1>9, Set
  <2>2. PICK V : V = Value(t) /\ IsValue(V, t)
    BY <1>1, ValueIsValue
  <2>3. V[fr.l] = V[new.l] /\ V[fr.r] = V[new.r]
    BY <1>1, <1>4, <1>5, <1>6, <1>7, <1>10, <2>1, <2>2, ValueOfSub
  <2>. QED
    BY <1>10, <2>1, <2>2, <2>3
<1>12. Reaches(stack[1], fr)
  BY <1>4 DEF RefinementInv, StackReaches
<1>13. Reaches(stack[1], new)
  <2> SUFFICES ASSUME NEW s \in State
               PROVE  \E t \in State :
                 Value(t)[stack[1].l] = Value(s)[new.l] /\ Value(t)[stack[1].r] = Value(s)[new.r]
    BY DEF Reaches
  <2>1. PICK u \in State : Value(u)[fr.l] = Value(s)[new.l] /\ Value(u)[fr.r] = Value(s)[new.r]
    BY <1>11 DEF Reaches
  <2>2. PICK t \in State : Value(t)[stack[1].l] = Value(u)[fr.l] /\ Value(t)[stack[1].r] = Value(u)[fr.r]
    BY <1>12 DEF Reaches
  <2>. QED
    BY <2>1, <2>2
<1>. QED
  BY <1>2, <1>10, <1>13

(* What is reached is still reached after a step: the values are the same. *)
LEMMA ReachesStable ==
  ASSUME HeapGrows, ValueExists, ValueExists', ValuesDetermined,
         NEW a, NEW b, a.l \in Evmdd, a.r \in Evmdd, b.l \in Evmdd, b.r \in Evmdd, Reaches(a, b),
         NEW x, NEW y, x.l = a.l, x.r = a.r, y.l = b.l, y.r = b.r
  PROVE  Reaches(x, y)'
<1>1. State' = State
  BY DEF State, Level, NumLevels
<1>2. \A s \in State : /\ Value(s)'[a.l] = Value(s)[a.l] /\ Value(s)'[a.r] = Value(s)[a.r]
                       /\ Value(s)'[b.l] = Value(s)[b.l] /\ Value(s)'[b.r] = Value(s)[b.r]
  BY OldValues
<1>. QED
  BY <1>1, <1>2 DEF Reaches

LEMMA AllReached ==
  ASSUME \A i \in 1 .. Len(stack') : \A x, y : x = stack'[1] /\ y = stack'[i] => Reaches(x, y)'
  PROVE  StackReaches'
<1> SUFFICES ASSUME NEW i \in 1 .. Len(stack')
             PROVE  Reaches(stack[1], stack[i])'
  BY DEF StackReaches
<1>1. PICK x, y : x = stack'[1] /\ y = stack'[i]
  OBVIOUS
<1>2. Reaches(x, y)'
  BY <1>1
<1>. QED
  BY <1>1, <1>2

(* The activations keep their operands. *)
LEMMA SameOperands ==
  ASSUME RefinementInv, Invariant', HeapGrows, ~ Idle,
         Len(stack') \in Nat, Len(stack') <= Len(stack),
         \A i \in 1 .. Len(stack') : stack'[i].l = stack[i].l /\ stack'[i].r = stack[i].r
  PROVE  StackReaches'
<1>1. /\ ValueExists /\ ValueExists' /\ ValuesDetermined /\ Len(stack) \in Nat \ {0}
  BY StackTypes DEF RefinementInv, Invariant
<1> SUFFICES ASSUME NEW i \in 1 .. Len(stack'), NEW x, x = stack'[1], NEW y, y = stack'[i]
             PROVE  Reaches(x, y)'
  BY AllReached
<1>2. PICK a, b : a = stack[1] /\ b = stack[i]
  OBVIOUS
<1>3. 1 \in 1 .. Len(stack') /\ 1 \in 1 .. Len(stack) /\ i \in 1 .. Len(stack)
  BY <1>1
<1>4. Reaches(a, b)
  BY <1>2, <1>3 DEF RefinementInv, StackReaches
<1>5. a.l \in Evmdd /\ a.r \in Evmdd /\ b.l \in Evmdd /\ b.r \in Evmdd
  BY <1>2, <1>3, Operands DEF RefinementInv
<1>6. x.l = a.l /\ x.r = a.r /\ y.l = b.l /\ y.r = b.r
  BY <1>2, <1>3
<1>. QED
  BY <1>1, <1>4, <1>5, <1>6, ReachesStable

(* The invariant of the refinement is kept. *)
LEMMA RecurseKeepsReach ==
  ASSUME RefinementInv, Invariant', HeapGrows, Recurse
  PROVE  StackReaches'
<1>1. /\ ValueExists /\ ValueExists' /\ ValuesDetermined /\ CallOK
  BY DEF RefinementInv, Invariant
<1>2. PICK n, new :
        /\ n = Len(stack)
        /\ new = Frame(sub_evmdds(Top.l, Top.r)[Len(Top.done) + 1],
                       sub_evmdds(Top.r, Top.l)[Len(Top.done) + 1])
  OBVIOUS
<1>3. ~ Idle /\ stack' = Append(stack, new)
  BY <1>2 DEF Recurse
<1>4. n \in Nat \ {0} /\ stack \in Seq(Activation(call.op))
  BY <1>1, <1>2, <1>3, StackTypes
<1>5. /\ Len(stack') = n + 1 /\ stack'[n + 1] = new
      /\ \A i \in 1 .. n : stack'[i] = stack[i]
  BY <1>2, <1>3, <1>4
<1>6. new.l \in Evmdd /\ new.r \in Evmdd /\ Reaches(stack[1], new)
  BY <1>2, RecursionReaches
<1> SUFFICES ASSUME NEW i \in 1 .. n + 1, NEW x, x = stack'[1], NEW y, y = stack'[i]
             PROVE  Reaches(x, y)'
  BY <1>5, AllReached
<1>7. x = stack[1] /\ x.l \in Evmdd /\ x.r \in Evmdd
  BY <1>2, <1>3, <1>4, <1>5, Operands DEF RefinementInv
<1>8. y.l \in Evmdd /\ y.r \in Evmdd /\ Reaches(x, y)
  <2>1. CASE i = n + 1
    BY <1>5, <1>6, <1>7, <2>1
  <2>2. CASE i \in 1 .. n
    BY <1>2, <1>3, <1>5, <1>7, <2>2, Operands DEF RefinementInv, StackReaches
  <2>. QED
    BY <1>4, <2>1, <2>2
<1>. QED
  BY <1>1, <1>7, <1>8, ReachesStable

LEMMA EmptyStackReaches ==
  ASSUME stack' = <<>>
  PROVE  StackReaches'
BY DEF StackReaches

LEMMA ReturnKeepsReach ==
  ASSUME RefinementInv, Invariant', HeapGrows, ~ Idle, NEW result, Return(result)
  PROVE  StackReaches'
BY ReturnFrames, SameOperands DEF RefinementInv

LEMMA RefinementInvIsKept ==
  ASSUME HashIsInjective, OpTypesDistinct, RefinementInv, [Next]_vars
  PROVE  RefinementInv' /\ HeapGrows
<1>1. Invariant' /\ HeapGrows
  BY InvariantIsKept DEF RefinementInv
<1>2. ValuesDetermined'
  <2>1. PICK p : DOMAIN heap' \subseteq DOMAIN heap \cup {p}
    BY OneNodeAdded
  <2>. QED
    BY <1>1, <2>1, ValuesStayDetermined DEF RefinementInv, Invariant
<1>3. StackReaches'
  <2>1. CASE UNCHANGED vars
    <3>1. UNCHANGED stack
      BY <2>1 DEF vars
    <3>2. CASE Idle
      BY <3>1, <3>2, EmptyStackReaches DEF Idle
    <3>3. CASE ~ Idle
      BY <1>1, <3>1, <3>3, SameOperands, StackTypes DEF RefinementInv, Invariant
    <3>. QED
      BY <3>2, <3>3
  <2>2. ASSUME NEW op \in Op, NEW f \in Live, NEW l \in held, NEW r \in held, Apply(op, f, l, r)
        PROVE  StackReaches'
    <3>1. stack' = <<Frame(l, r)>>
      BY <2>2 DEF Apply
    <3>2. Len(stack') = 1 /\ \A i \in 1 .. 1 : stack'[i] = stack'[1]
      BY <3>1
    <3>3. ASSUME NEW x
          PROVE  Reaches(x, x)'
      BY DEF Reaches
    <3>. QED
      BY <3>2, <3>3, AllReached
  <2>3. CASE Client
    <3>1. ASSUME Idle, UNCHANGED stack
          PROVE  StackReaches'
      BY <3>1, EmptyStackReaches DEF Idle
    <3>. QED
      BY <2>2, <2>3, <3>1 DEF Client, GetFactory, Reset, MakeConst, MakeVar
  <2>4. CASE TerminalCase \/ CacheHit \/ Combine
    BY <1>1, <2>4, ReturnKeepsReach DEF TerminalCase, CacheHit, Combine
  <2>5. CASE TerminalThrow
    BY <2>5, EmptyStackReaches DEF TerminalThrow
  <2>6. CASE CacheMiss
    <3>1. PICK n : n = Len(stack)
      OBVIOUS
    <3>2. ~ Idle /\ stack' = [stack EXCEPT ![n].pc = "children"]
      BY <2>6, <3>1 DEF CacheMiss
    <3>3. stack \in Seq(Activation(call.op)) /\ n \in Nat \ {0}
      BY <3>1, <3>2, StackTypes DEF RefinementInv, Invariant
    <3>4. Len(stack') = n /\ \A i \in 1 .. n : stack'[i].l = stack[i].l /\ stack'[i].r = stack[i].r
      <4>1. \A i \in 1 .. n : stack[i] = [l |-> stack[i].l, r |-> stack[i].r,
                                          pc |-> stack[i].pc, done |-> stack[i].done]
        BY <3>1, <3>3, FrameTypes
      <4>. QED
        BY <3>1, <3>2, <3>3, <4>1
    <3>. QED
      BY <1>1, <3>1, <3>2, <3>3, <3>4, SameOperands
  <2>7. CASE Recurse
    BY <1>1, <2>7, RecurseKeepsReach
  <2>. QED
    BY <2>1, <2>3, <2>4, <2>5, <2>6, <2>7 DEF Next, Step
<1>. QED
  BY <1>1, <1>2, <1>3 DEF RefinementInv

----------------------------------------------------------------------------
(* The steps, mapped. *)

(* What FunctionAlgebra sees of the client and of the running call. *)
Known == {Denotation(e) : e \in held}

Pending ==
  IF Idle THEN [op |-> "none"]
  ELSE [op |-> call.op, left |-> Denotation(stack[1].l), right |-> Denotation(stack[1].r)]

LEMMA SameStates == Functions!State = State /\ State' = State
BY DEF Functions!State, Functions!Level, State, Level, NumLevels

LEMMA Stutters ==
  ASSUME Known' = Known, Pending' = Pending, outcome'.status = outcome.status
  PROVE  [Functions!Next]_(Functions!fvars)
BY DEF Known, Pending, Functions!fvars

(* A client that gets no diagram knows what it knew. *)
LEMMA KnowsTheSame ==
  ASSUME Invariant, Invariant', ValuesDetermined, HeapGrows, held' = held
  PROVE  Known' = Known
<1>1. \A e \in held : Denotation(e)' = Denotation(e)
  BY OldValues DEF Invariant, ClientOK
<1>. QED
  BY <1>1 DEF Known

(* One that gets a diagram knows its function, too. *)
LEMMA KnowsMore ==
  ASSUME Invariant, Invariant', ValuesDetermined, HeapGrows,
         NEW e, held' = held \cup {e}, NEW d, d = Denotation(e)'
  PROVE  Known' = Known \cup {d}
<1>1. \A x \in held : Denotation(x)' = Denotation(x)
  BY OldValues DEF Invariant, ClientOK
<1>. QED
  BY <1>1 DEF Known

(* The call that runs is for the same functions throughout. *)
LEMMA SamePending ==
  ASSUME RefinementInv, Invariant', HeapGrows, ~ Idle, stack' # <<>>, call' = call,
         stack'[1].l = stack[1].l, stack'[1].r = stack[1].r
  PROVE  Pending' = Pending
<1>1. 1 \in 1 .. Len(stack)
  BY StackTypes DEF RefinementInv, Invariant
<1>2. PICK l, r : l = stack[1].l /\ r = stack[1].r
  OBVIOUS
<1>3. Denotation(l)' = Denotation(l) /\ Denotation(r)' = Denotation(r)
  BY <1>1, <1>2, Operands, OldValues DEF RefinementInv, Invariant
<1>4. Denotation(stack[1].l)' = Denotation(l)' /\ Denotation(stack[1].r)' = Denotation(r)'
  BY <1>2 DEF Denotation
<1>. QED
  BY <1>2, <1>3, <1>4 DEF Pending, Idle

(* While the client calls no operation, it learns a function or none. *)
LEMMA Learns ==
  ASSUME Idle, UNCHANGED stack, outcome' = NoOutcome,
         \/ Known' = Known
         \/ \E c \in ConstInput : Known' = Known \cup {Functions!Constant(c)}
         \/ \E v \in VarInput : Known' = Known \cup {Functions!Variable(v)}
  PROVE  Functions!Next
<1>1. Idle' /\ outcome'.status = "none"
  BY DEF Idle, NoOutcome
<1>. QED
  BY <1>1 DEF Known, Functions!Next, Functions!Learn, Functions!NothingPending

(* The diagram of a constant. *)
LEMMA MakeConstMaps ==
  ASSUME RefinementInv, Invariant', HeapGrows, NEW f \in Live, NEW c \in ConstInput,
         c.kind = factories[f], MakeConst(f, c.w)
  PROVE  Functions!Next
<1>1. HeapOK /\ StoreInv /\ ClientOK /\ ValueExists' /\ Invariant /\ ValuesDetermined
  BY DEF RefinementInv, Invariant
<1>2. PICK e : e = [src |-> TerminalOf(f), input |-> c.w]
  OBVIOUS
<1>3. /\ Idle /\ held' = held \cup {e} /\ outcome' = NoOutcome /\ UNCHANGED stack
  BY <1>2 DEF MakeConst
<1>4. e \in Evmdd' /\ IsTerminal(e.src) /\ e.src.kind = c.kind
  <2>1. e \in held'
    BY <1>3
  <2>2. IsTerminal(e.src) /\ e.src.kind = c.kind
    BY <1>1, <1>2, LiveFactories, TerminalStored
  <2>. QED
    BY <2>1, <2>2 DEF Invariant, ClientOK
<1>5. \A s \in State : Value(s)'[e] = c.w
  <2> SUFFICES ASSUME NEW s \in State, NEW W, W = Value(s)'
               PROVE  W[e] = c.w
    OBVIOUS
  <2>1. IsValue(W, s)'
    BY <1>1, NewValueIsValue
  <2>2. W[e] = StepValue(W, s, e)'
    BY <1>4, <2>1 DEF IsValue
  <2>. QED
    BY <1>2, <1>4, <2>2 DEF StepValue, IsTerminal
<1>6. PICK d : d = Denotation(e)'
  OBVIOUS
<1>7. d = Functions!Constant(c)
  BY <1>4, <1>5, <1>6, SameStates DEF Denotation, Functions!Constant
<1>8. Known' = Known \cup {Functions!Constant(c)}
  BY <1>1, <1>3, <1>6, <1>7, KnowsMore
<1>. QED
  BY <1>3, <1>8, Learns

(* The diagram of a variable: a node whose edges have the values. *)
LEMMA MakeVarMaps ==
  ASSUME HashIsInjective, RefinementInv, Invariant', HeapGrows, NEW f \in Live, NEW v \in VarInput,
         v.kind = factories[f], MakeVar(f, v.level, v.values)
  PROVE  Functions!Next
<1>1. HeapOK /\ StoreInv /\ ClientOK /\ ValueExists /\ ValueExists' /\ Invariant /\ ValuesDetermined
  BY DEF RefinementInv, Invariant
<1>2. PICK level, values, kind, t, p, e :
        /\ level = v.level /\ values = v.values /\ kind = v.kind /\ t = TerminalOf(f)
        /\ p = NodeAt(f, level, [i \in DOMAIN values |-> [w |-> values[i], to |-> t]])
        /\ e = [src |-> p, input |-> Neutral(kind)]
  OBVIOUS
<1>3. PICK children : children = [i \in DOMAIN values |-> [w |-> values[i], to |-> t]]
  OBVIOUS
<1>4. /\ Idle /\ held' = held \cup {e} /\ outcome' = NoOutcome /\ UNCHANGED stack
      /\ StoreNode(f, level, children) /\ p = NodeAt(f, level, children)
  BY <1>2, <1>3 DEF MakeVar
<1>5. /\ f \in DOMAIN factories /\ kind \in Kind /\ level \in Level
      /\ values \in [1 .. DomainSize[level] -> Carrier(kind)]
      /\ t \in DOMAIN heap /\ IsTerminal(t) /\ t.kind = kind
  BY <1>1, <1>2, LiveFactories, InputAssumption, TerminalStored
<1>6. /\ ~ IsTerminal(p) /\ p.kind = kind
      /\ heap'[p].level = level /\ heap'[p].children = children
  <2>1. CASE IsStored(id_cache[f], level, children)
    BY <1>1, <1>2, <1>4, <1>5, <2>1, StoredNode DEF StoreNode
  <2>2. CASE ~ IsStored(id_cache[f], level, children)
    <3>1. p.kind = kind /\ ~ IsTerminal(p)
      BY <1>1, <1>2, <1>4, <1>5, <2>2, NewNode
    <3>2. heap' = Put(heap, p, [level |-> level, children |-> children])
      BY <1>4, <2>2 DEF StoreNode
    <3>. QED
      BY <3>1, <3>2 DEF Put
  <2>. QED
    BY <2>1, <2>2
<1>7. e \in Evmdd' /\ e.src = p /\ e.input = Neutral(kind)
  <2>1. e \in held'
    BY <1>4
  <2>. QED
    BY <1>2, <2>1 DEF Invariant, ClientOK
<1>8. \A s \in State : Value(s)'[e] = values[s[level]]
  <2> SUFFICES ASSUME NEW s \in State, NEW W, W = Value(s)'
               PROVE  W[e] = values[s[level]]
    OBVIOUS
  <2>1. IsValue(W, s)'
    BY <1>1, NewValueIsValue
  <2>2. PICK i : i = s[level] /\ i \in 1 .. DomainSize[level]
    BY <1>5, States
  <2>3. PICK c : c = [src |-> t, input |-> values[i]]
    OBVIOUS
  <2>4. Child(e, i)' = c
    <3>1. Child(e, i)' = [src |-> children[i].to, input |-> Plus(kind, Neutral(kind), children[i].w)]
      BY <1>6, <1>7 DEF Child, ChildrenOf
    <3>2. children[i] = [w |-> values[i], to |-> t] /\ values[i] \in Carrier(kind)
      BY <1>3, <1>5, <2>2
    <3>3. Plus(kind, Neutral(kind), values[i]) = values[i]
      BY <1>5, <3>2, NeutralAssumption
    <3>. QED
      BY <2>3, <3>1, <3>2, <3>3
  <2>5. W[e] = W[c]
    <3>1. W[e] = StepValue(W, s, e)'
      BY <1>7, <2>1 DEF IsValue
    <3>2. StepValue(W, s, e)' = W[Child(e, i)']
      BY <1>6, <1>7, <2>2 DEF StepValue, IsTerminal, LevelOf
    <3>. QED
      BY <2>4, <3>1, <3>2
  <2>6. W[c] = values[i]
    <3>1. c \in EvmddOf(kind)
      BY <1>5, <2>2, <2>3 DEF EvmddOf
    <3>2. c \in Evmdd'
      BY <1>5, <3>1, Fields, GrowthOfEvmdd
    <3>3. W[c] = StepValue(W, s, c)'
      BY <2>1, <3>2 DEF IsValue
    <3>. QED
      BY <1>5, <2>3, <3>3 DEF StepValue, IsTerminal
  <2>. QED
    BY <2>2, <2>5, <2>6
<1>9. PICK d : d = Denotation(e)'
  OBVIOUS
<1>10. d = Functions!Variable(v)
  <2>1. d = [kind |-> kind, fn |-> [s \in State |-> values[s[level]]]]
    BY <1>6, <1>7, <1>8, <1>9, SameStates DEF Denotation
  <2>. QED
    BY <1>2, <2>1, SameStates DEF Functions!Variable
<1>11. Known' = Known \cup {Functions!Variable(v)}
  BY <1>1, <1>4, <1>9, <1>10, KnowsMore
<1>. QED
  BY <1>4, <1>11, Learns

(* The call of apply begins. *)
LEMMA ApplyMaps ==
  ASSUME RefinementInv, Invariant', HeapGrows,
         NEW op \in Op, NEW f \in Live, NEW l \in held, NEW r \in held, Apply(op, f, l, r)
  PROVE  Functions!Next
<1>1. ClientOK /\ ValueExists /\ ValueExists' /\ Invariant /\ ValuesDetermined
  BY DEF RefinementInv, Invariant
<1>2. /\ Idle /\ l.src.kind = OpLeft(op) /\ r.src.kind = OpRight(op)
      /\ call' = [op |-> op, fac |-> f]
      /\ stack' = <<Frame(l, r)>>
      /\ outcome' = NoOutcome
      /\ UNCHANGED held
  BY DEF Apply
<1>3. stack'[1].l = l /\ stack'[1].r = r /\ stack' # <<>>
  BY <1>2 DEF Frame
<1>4. PICK dl, dr : dl = Denotation(l) /\ dr = Denotation(r)
  OBVIOUS
<1>5. Denotation(l)' = dl /\ Denotation(r)' = dr
  BY <1>1, <1>4, OldValues DEF ClientOK
<1>6. Pending' = [op |-> op, left |-> dl, right |-> dr]
  <2>1. Denotation(stack[1].l)' = Denotation(l)' /\ Denotation(stack[1].r)' = Denotation(r)'
    BY <1>3 DEF Denotation
  <2>. QED
    BY <1>2, <1>3, <1>5, <2>1 DEF Pending, Idle
<1>7. dl \in Known /\ dr \in Known /\ dl.kind = OpLeft(op) /\ dr.kind = OpRight(op)
  BY <1>2, <1>4 DEF Known, Denotation
<1>8. Known' = Known
  BY <1>1, <1>2, KnowsTheSame
<1>9. Functions!Begin(op, dl, dr)
  BY <1>2, <1>6, <1>7, <1>8 DEF Known, Pending, Functions!Begin, Functions!NothingPending, NoOutcome
<1>. QED
  BY <1>7, <1>9 DEF Functions!Next, Known

(* The call returns to the client. *)
LEMMA LastReturnMaps ==
  ASSUME RefinementInv, Invariant', HeapGrows, ~ Idle, NEW result, Return(result), Len(stack) = 1
  PROVE  Functions!Next
<1>1. ClientOK /\ ValueExists /\ ValueExists' /\ Invariant /\ ValuesDetermined /\ OutcomeInv'
  BY DEF RefinementInv, Invariant
<1>2. PICK op, l, r : op = call.op /\ l = stack[1].l /\ r = stack[1].r
  OBVIOUS
<1>3. /\ stack' = <<>> /\ held' = held \cup {result}
      /\ outcome' = [status |-> "returned", op |-> op, fac |-> call.fac,
                     l |-> l, r |-> r, result |-> result]
  BY <1>2 DEF Return
<1>4. l \in Evmdd /\ r \in Evmdd
  BY <1>2, Operands, StackTypes DEF RefinementInv, Invariant
<1>5. Answer(result, op, l, r)'
  BY <1>1, <1>3 DEF OutcomeInv
<1>6. ASSUME NEW s \in State
      PROVE  /\ OpDefined(op, Value(s)[l], Value(s)[r])
             /\ Value(s)'[result] = OpFun(op, Value(s)[l], Value(s)[r])
  <2>1. PICK W : W = Value(s)'
    OBVIOUS
  <2>2. IsValue(W, s)'
    BY <1>1, <2>1, NewValueIsValue
  <2>3. OpDefined(op, W[l], W[r]) /\ W[result] = OpFun(op, W[l], W[r])
    BY <1>5, <2>2, SameStates DEF Answer, Correct
  <2>4. W[l] = Value(s)[l] /\ W[r] = Value(s)[r]
    BY <1>1, <1>4, <2>1, OldValues
  <2>. QED
    BY <2>1, <2>3, <2>4
<1>7. PICK d : d = Denotation(result)'
  OBVIOUS
<1>8. d = [kind |-> OpResult(op), fn |-> [s \in State |-> OpFun(op, Value(s)[l], Value(s)[r])]]
  <2>1. result.src.kind = OpResult(op)
    BY <1>5 DEF Answer, EvmddOf
  <2>. QED
    BY <1>6, <1>7, <2>1, SameStates DEF Denotation
<1>9. Known' = Known \cup {d}
  BY <1>1, <1>3, <1>7, KnowsMore
<1>10. Functions!Finish
  <2>1. Idle' /\ outcome'.status = "returned"
    BY <1>3 DEF Idle
  <2>. QED
    BY <1>2, <1>6, <1>8, <1>9, <2>1, SameStates
       DEF Known, Pending, Functions!Finish, Functions!NothingPending, Functions!Applicable,
           Functions!Pointwise, Denotation
<1>. QED
  BY <1>10 DEF Functions!Next

LEMMA ReturnMaps ==
  ASSUME RefinementInv, Invariant', HeapGrows, ~ Idle, NEW result, Return(result)
  PROVE  [Functions!Next]_(Functions!fvars)
<1>1. CASE Len(stack) = 1
  BY <1>1, LastReturnMaps
<1>2. CASE Len(stack) # 1
  <2>1. UNCHANGED <<call, held, outcome>>
    BY <1>2 DEF Return
  <2>2. Len(stack') > 0 /\ stack'[1].l = stack[1].l /\ stack'[1].r = stack[1].r
    <3>1. /\ Len(stack) \in Nat \ {0} /\ Len(stack') = Len(stack) - 1
          /\ \A i \in 1 .. Len(stack') : stack'[i].l = stack[i].l /\ stack'[i].r = stack[i].r
      BY ReturnFrames DEF RefinementInv
    <3>2. Len(stack') > 0 /\ 1 \in 1 .. Len(stack')
      BY <1>2, <3>1
    <3>. QED
      BY <3>1, <3>2
  <2>3. Known' = Known
    BY <2>1, KnowsTheSame DEF RefinementInv
  <2>4. Pending' = Pending
    <3>1. stack' # <<>>
      BY <2>2
    <3>. QED
      BY <2>1, <2>2, <3>1, SamePending
  <2>. QED
    BY <2>1, <2>3, <2>4, Stutters
<1>. QED
  BY <1>1, <1>2

(* The operator throws: it is undefined on the operands in some state. *)
LEMMA ThrowMaps ==
  ASSUME RefinementInv, Invariant', HeapGrows, TerminalThrow
  PROVE  Functions!Next
<1>1. /\ HeapOK /\ CallOK /\ ValueExists /\ Invariant /\ ValuesDetermined
  BY DEF RefinementInv, Invariant
<1>2. PICK op, fr : op = call.op /\ fr = Top
  OBVIOUS
<1>3. /\ ~ Idle /\ IsTerminal(fr.l.src) /\ IsTerminal(fr.r.src)
      /\ ~ OpDefined(op, fr.l.input, fr.r.input)
      /\ stack' = <<>> /\ outcome'.status = "threw" /\ held' = held
  BY <1>2 DEF TerminalThrow, BothTerminal
<1>4. Len(stack) \in 1 .. Len(stack) /\ fr = stack[Len(stack)]
  BY <1>1, <1>2, <1>3, StackTypes
<1>5. fr.l \in Evmdd /\ fr.r \in Evmdd
  BY <1>1, <1>3, <1>4, Operands
<1>6. PICK s : s \in State
  <2>1. [v \in Level |-> 1] \in State
    BY DomainSizes DEF State
  <2>. QED
    BY <2>1
<1>7. PICK t \in State : Value(t)[stack[1].l] = Value(s)[fr.l] /\ Value(t)[stack[1].r] = Value(s)[fr.r]
  BY <1>4, <1>6 DEF RefinementInv, StackReaches, Reaches
<1>8. Value(s)[fr.l] = fr.l.input /\ Value(s)[fr.r] = fr.r.input
  <2>1. IsValue(Value(s), s)
    BY <1>1, <1>6, ValueIsValue
  <2>. QED
    BY <1>3, <1>5, <2>1 DEF IsValue, StepValue
<1>9. ~ OpDefined(op, Value(t)[stack[1].l], Value(t)[stack[1].r])
  BY <1>3, <1>7, <1>8
<1>10. Known' = Known
  BY <1>1, <1>3, KnowsTheSame
<1>11. Functions!Fail
  <2>1. Idle'
    BY <1>3 DEF Idle
  <2>. QED
    BY <1>2, <1>3, <1>9, <1>10, <2>1, SameStates
       DEF Known, Pending, Functions!Fail, Functions!NothingPending, Functions!Applicable, Denotation
<1>. QED
  BY <1>11 DEF Functions!Next

(* Every step of EvmddApply is a step of FunctionAlgebra, or none. *)
LEMMA StepMaps ==
  ASSUME HashIsInjective, RefinementInv, Invariant', HeapGrows, [Next]_vars
  PROVE  [Functions!Next]_(Functions!fvars)
<1>1. Invariant /\ ValuesDetermined
  BY DEF RefinementInv
<1>2. CASE UNCHANGED vars
  <2>1. UNCHANGED <<heap, stack, call, held, outcome>>
    BY <1>2 DEF vars
  <2>2. Known' = Known
    BY <1>1, <2>1, KnowsTheSame
  <2>3. Pending' = Pending
    <3>1. CASE Idle
      BY <2>1, <3>1 DEF Pending, Idle
    <3>2. CASE ~ Idle
      BY <2>1, <3>2, SamePending DEF Idle
    <3>. QED
      BY <3>1, <3>2
  <2>. QED
    BY <2>1, <2>2, <2>3, Stutters
<1>3. ASSUME NEW kind \in Kind, NEW key \in Key, GetFactory(kind, key)
      PROVE  Functions!Next
  <2>1. Idle /\ outcome' = NoOutcome /\ UNCHANGED <<stack, held>>
    BY <1>3 DEF GetFactory
  <2>. QED
    BY <1>1, <2>1, KnowsTheSame, Learns
<1>4. ASSUME NEW kind \in ResetKind, Reset(kind)
      PROVE  Functions!Next
  <2>1. Idle /\ outcome' = NoOutcome /\ UNCHANGED <<stack, held>>
    BY <1>4 DEF Reset
  <2>. QED
    BY <1>1, <2>1, KnowsTheSame, Learns
<1>5. CASE Client
  BY <1>3, <1>4, <1>5, MakeConstMaps, MakeVarMaps, ApplyMaps DEF Client
<1>6. CASE TerminalCase \/ CacheHit \/ Combine
  BY <1>6, ReturnMaps DEF TerminalCase, CacheHit, Combine
<1>7. CASE TerminalThrow
  BY <1>7, ThrowMaps
<1>8. CASE CacheMiss \/ Recurse
  <2>1. ~ Idle /\ UNCHANGED <<call, held, outcome>>
    BY <1>8 DEF CacheMiss, Recurse
  <2>2. Len(stack) \in Nat \ {0} /\ stack \in Seq(Activation(call.op)) /\ stack[1] \in Activation(call.op)
    BY <1>1, <2>1, StackTypes DEF Invariant
  <2>3. stack[1] = [l |-> stack[1].l, r |-> stack[1].r, pc |-> stack[1].pc, done |-> stack[1].done]
    BY <2>2, FrameTypes
  <2>4. stack' # <<>> /\ stack'[1].l = stack[1].l /\ stack'[1].r = stack[1].r
    <3>1. CASE CacheMiss
      <4>1. PICK n : n = Len(stack) /\ stack' = [stack EXCEPT ![n].pc = "children"]
        BY <3>1 DEF CacheMiss
      <4>. QED
        BY <2>2, <2>3, <4>1
    <3>2. CASE Recurse
      <4>1. PICK new : stack' = Append(stack, new)
        BY <3>2 DEF Recurse
      <4>. QED
        BY <2>2, <4>1
    <3>. QED
      BY <1>8, <3>1, <3>2
  <2>5. Known' = Known /\ Pending' = Pending
    BY <1>1, <2>1, <2>4, KnowsTheSame, SamePending
  <2>. QED
    BY <2>1, <2>5, Stutters
<1>. QED
  BY <1>2, <1>5, <1>6, <1>7, <1>8 DEF Next, Step

LEMMA InitMaps ==
  ASSUME Init
  PROVE  RefinementInv /\ Functions!Init
<1>1. held = {} /\ stack = <<>> /\ outcome.status = "none" /\ DOMAIN heap = {}
  BY DEF Init, NoOutcome, Empty
<1>2. Functions!Init
  BY <1>1 DEF Idle, Functions!Init, Functions!NothingPending
<1>3. ValuesDetermined
  <2>1. Evmdd = {}
    BY <1>1 DEF Evmdd, EvmddOf
  <2>. QED
    BY <2>1 DEF ValuesDetermined
<1>4. StackReaches
  BY <1>1 DEF StackReaches
<1>. QED
  BY <1>2, <1>3, <1>4, InvariantHoldsInitially DEF RefinementInv

(* The library keeps its promise: what a client sees of the diagrams is    *)
(* pointwise operations on functions, and apply throws if and only if the  *)
(* operator is undefined on the values of the operands in some state.      *)
THEOREM DiagramsImplementFunctions ==
  ASSUME HashIsInjective, OpTypesDistinct
  PROVE  Spec => ImplementsFunctions
<1>1. Init => RefinementInv /\ Functions!Init
  BY InitMaps
<1>2. RefinementInv /\ [Next]_vars => RefinementInv' /\ [Functions!Next]_(Functions!fvars)
  <2> SUFFICES ASSUME RefinementInv, [Next]_vars
               PROVE  RefinementInv' /\ [Functions!Next]_(Functions!fvars)
    OBVIOUS
  <2>1. RefinementInv' /\ HeapGrows
    BY RefinementInvIsKept
  <2>2. Invariant'
    BY <2>1 DEF RefinementInv
  <2>. QED
    BY <2>1, <2>2, StepMaps
<1>. QED
  BY <1>1, <1>2, PTL DEF Spec, ImplementsFunctions, Functions!Spec

----------------------------------------------------------------------------
(* Canonicity, and who owns a result, where every kind of weight has one   *)
(* factory, which is never reset.                                          *)

(* Every kind has one factory at most. *)
OneFactory == ResetKind = {} /\ \A key1, key2 \in Key : key1 = key2

----------------------------------------------------------------------------
(* Nodes and factories. *)

(* The table of its factory finds every node. *)
NodesStored ==
  \A p \in DOMAIN heap :
    /\ p.fac \in DOMAIN factories
    /\ p.kind = factories[p.fac]
    /\ IsTerminal(p) \/
         /\ Hash(heap[p].level, heap[p].children) \in DOMAIN id_cache[p.fac]
         /\ id_cache[p.fac][Hash(heap[p].level, heap[p].children)] = p

(* Every factory is the one registered for some key. *)
FactoriesRegistered ==
  \A f \in DOMAIN factories : \E key \in Key :
    <<factories[f], key>> \in DOMAIN registry /\ registry[<<factories[f], key>>] = f

FactoryOfOutcome ==
  outcome.status = "returned" =>
    outcome.fac \in DOMAIN factories /\ factories[outcome.fac] = OpResult(outcome.op)

(* Nodes are unique: no two of one kind have the same level and edges. *)
NodesUnique ==
  \A p, q \in DOMAIN heap :
    (p.kind = q.kind /\ heap[p].level = heap[q].level /\ heap[p].children = heap[q].children) => p = q

LEMMA OneFactoryPerKind ==
  ASSUME OneFactory, FactoriesRegistered, NEW f \in DOMAIN factories, NEW g \in DOMAIN factories,
         factories[f] = factories[g]
  PROVE  f = g
BY DEF OneFactory, FactoriesRegistered

LEMMA StoredOnce ==
  ASSUME OneFactory, HeapOK, NodesStored, FactoriesRegistered
  PROVE  NodesUnique
<1> SUFFICES ASSUME NEW p \in DOMAIN heap, NEW q \in DOMAIN heap, p.kind = q.kind,
                    heap[p].level = heap[q].level, heap[p].children = heap[q].children
             PROVE  p = q
  BY DEF NodesUnique
<1>1. p.fac = q.fac
  BY OneFactoryPerKind DEF NodesStored
<1>2. IsTerminal(p) <=> IsTerminal(q)
  BY Levels
<1>3. CASE IsTerminal(p)
  <2>1. p \in Pointer /\ q \in Pointer
    BY DEF HeapOK
  <2>. QED
    BY <1>1, <1>2, <1>3, <2>1 DEF Pointer, IsTerminal
<1>4. CASE ~ IsTerminal(p)
  BY <1>1, <1>2, <1>4 DEF NodesStored
<1>. QED
  BY <1>3, <1>4

(* make_node keeps all nodes where their tables find them. *)
LEMMA StoreKeepsNodes ==
  ASSUME HeapOK, NodesStored, NEW f \in DOMAIN factories, NEW level, NEW children,
         StoreNode(f, level, children), UNCHANGED factories
  PROVE  NodesStored'
<1>1. CASE IsStored(id_cache[f], level, children)
  BY <1>1 DEF StoreNode, NodesStored, IsTerminal
<1>2. CASE ~ IsStored(id_cache[f], level, children)
  <2>1. PICK p, key, node :
          /\ p = NodeAt(f, level, children) /\ key = Hash(level, children)
          /\ node = [level |-> level, children |-> children]
    OBVIOUS
  <2>2. /\ key \notin DOMAIN id_cache[f]
        /\ id_cache' = [id_cache EXCEPT ![f] = Put(id_cache[f], key, p)]
        /\ heap' = Put(heap, p, node)
        /\ p.kind = factories[f] /\ p.fac = f
    BY <1>2, <2>1 DEF StoreNode, IsStored, NodeAt
  <2>3. f \in DOMAIN id_cache
    BY DEF HeapOK
  <2>4. /\ id_cache'[f][key] = p /\ key \in DOMAIN id_cache'[f]
        /\ \A g \in DOMAIN id_cache : \A k \in DOMAIN id_cache[g] :
             k \in DOMAIN id_cache'[g] /\ id_cache'[g][k] = id_cache[g][k]
    BY <2>2, <2>3 DEF Put
  <2>5. /\ DOMAIN heap' = DOMAIN heap \cup {p}
        /\ heap'[p].level = level /\ heap'[p].children = children
        /\ \A q \in DOMAIN heap : q # p => heap'[q] = heap[q]
    BY <2>1, <2>2 DEF Put
  <2>6. ASSUME NEW q \in DOMAIN heap'
        PROVE  /\ q.fac \in DOMAIN factories
               /\ q.kind = factories[q.fac]
               /\ IsTerminal(q) \/
                    /\ Hash(heap'[q].level, heap'[q].children) \in DOMAIN id_cache'[q.fac]
                    /\ id_cache'[q.fac][Hash(heap'[q].level, heap'[q].children)] = q
    <3>1. CASE q = p
      BY <2>1, <2>2, <2>4, <2>5, <3>1
    <3>2. CASE q # p
      <4>1. q \in DOMAIN heap /\ heap'[q] = heap[q]
        BY <2>5, <3>2
      <4>2. q.fac \in DOMAIN id_cache
        BY <4>1 DEF NodesStored, HeapOK
      <4>. QED
        BY <2>4, <4>1, <4>2 DEF NodesStored
    <3>. QED
      BY <3>1, <3>2
  <2>. QED
    BY <2>6 DEF NodesStored, IsTerminal
<1>. QED
  BY <1>1, <1>2

----------------------------------------------------------------------------
(* Canonical sets of diagrams. *)

SameFunction(a, b) == \A s \in State : Value(s)[a] = Value(s)[b]

Unique(R) == \A a, b \in R : (a.src.kind = b.src.kind /\ SameFunction(a, b)) => a = b

SubDiagrams(e) == [i \in 1 .. DomainSize[LevelOf(e)] |-> Child(e, i)]

(* What create_evmdd makes of sub-diagrams that are in R. *)
Reduced(e, R) ==
  /\ \A i \in 1 .. DomainSize[LevelOf(e)] : Child(e, i) \in R
  /\ ~ AllEqual(SubDiagrams(e))
  /\ e.input = MinWeight(e.src.kind, SubDiagrams(e))
  /\ ChildrenOf(e) = Edges(e.src.kind, SubDiagrams(e))

Prepared(e, R) == e \in Evmdd /\ (IsTerminal(e.src) \/ Reduced(e, R))

CanonicalSet(R) == (\A e \in R : Prepared(e, R)) /\ Unique(R)

(* The value of a diagram where its variable is set to i. *)
LEMMA Cofactor ==
  ASSUME HeapOK, ValueExists, NEW e \in Evmdd, ~ IsTerminal(e.src),
         NEW s \in State, NEW t \in State, NEW i \in 1 .. DomainSize[LevelOf(e)], t[LevelOf(e)] = i,
         \A c \in Evmdd : LevelOf(c) < LevelOf(e) => Value(t)[c] = Value(s)[c]
  PROVE  Value(t)[e] = Value(s)[Child(e, i)]
<1>1. PICK kind \in Kind : e \in EvmddOf(kind)
  BY SomeKind
<1>2. Child(e, i) \in EvmddOf(kind) /\ LevelOf(Child(e, i)) < LevelOf(e)
  BY <1>1, Children
<1>3. IsValue(Value(t), t)
  BY ValueIsValue
<1>4. Value(t)[e] = Value(t)[Child(e, i)]
  BY <1>3 DEF IsValue, StepValue
<1>. QED
  BY <1>2, <1>4, Fields

(* A sub-diagram of a reduced diagram lies in the set, below it. *)
LEMMA SubsOf ==
  ASSUME HeapOK, NEW R, NEW e \in Evmdd, ~ IsTerminal(e.src), Prepared(e, R)
  PROVE  /\ LevelOf(e) \in Level /\ DomainSize[LevelOf(e)] \in Nat \ {0}
         /\ \A i \in 1 .. DomainSize[LevelOf(e)] :
              /\ Child(e, i) \in R /\ Child(e, i) \in Evmdd
              /\ Child(e, i).src.kind = e.src.kind
              /\ LevelOf(Child(e, i)) < LevelOf(e)
<1>1. PICK kind \in Kind : e \in EvmddOf(kind)
  BY SomeKind
<1>2. /\ LevelOf(e) \in Level
      /\ \A i \in 1 .. DomainSize[LevelOf(e)] :
           Child(e, i) \in EvmddOf(kind) /\ LevelOf(Child(e, i)) < LevelOf(e)
  BY <1>1, Children
<1>. QED
  BY <1>1, <1>2, DomainSizes, Fields DEF Prepared, Reduced

(* Two diagrams of one level. *)
LEMMA SameLevel ==
  ASSUME HeapOK, ValueExists, ValuesDetermined, NodesUnique, NEW R, CanonicalSet(R),
         NEW a, NEW b, Prepared(a, R), Prepared(b, R),
         a.src.kind = b.src.kind, SameFunction(a, b), LevelOf(a) = LevelOf(b)
  PROVE  a = b
<1>1. PICK kind \in Kind : a \in EvmddOf(kind) /\ b \in EvmddOf(kind)
  BY DEF Prepared, Evmdd, EvmddOf
<1>2. /\ a \in Evmdd /\ b \in Evmdd /\ a.src \in DOMAIN heap /\ b.src \in DOMAIN heap
      /\ a.src.kind = kind /\ b.src.kind = kind
      /\ a = [src |-> a.src, input |-> a.input] /\ b = [src |-> b.src, input |-> b.input]
  BY <1>1, Fields DEF EvmddOf
<1>3. IsTerminal(a.src) <=> IsTerminal(b.src)
  BY <1>2, Levels DEF LevelOf
<1>4. CASE IsTerminal(a.src)
  <2>1. PICK s : s \in State
    <3>1. [v \in Level |-> 1] \in State
      BY DomainSizes DEF State
    <3>. QED
      BY <3>1
  <2>2. IsValue(Value(s), s)
    BY <2>1, ValueIsValue
  <2>3. Value(s)[a] = a.input /\ Value(s)[b] = b.input
    BY <1>2, <1>3, <1>4, <2>2 DEF IsValue, StepValue
  <2>4. a.input = b.input
    BY <2>1, <2>3 DEF SameFunction
  <2>5. heap[a.src] = TerminalNode /\ heap[b.src] = TerminalNode
    BY <1>2, <1>3, <1>4 DEF HeapOK, Node
  <2>6. a.src = b.src
    BY <1>2, <2>5 DEF NodesUnique
  <2>. QED
    BY <1>2, <2>4, <2>6
<1>5. CASE ~ IsTerminal(a.src)
  <2>1. PICK level : level = LevelOf(a) /\ level = LevelOf(b)
    OBVIOUS
  <2>2. level \in Level
    BY <1>2, <1>5, <2>1, SubsOf
  <2>3. ASSUME NEW i \in 1 .. DomainSize[level]
        PROVE  Child(a, i) = Child(b, i)
    <3>1. PICK x, y : x = Child(a, i) /\ y = Child(b, i)
      OBVIOUS
    <3>2. /\ x \in R /\ x \in Evmdd /\ x.src.kind = kind
          /\ y \in R /\ y \in Evmdd /\ y.src.kind = kind
      BY <1>2, <1>3, <1>5, <2>1, <3>1, SubsOf
    <3>3. ASSUME NEW s \in State
          PROVE  Value(s)[x] = Value(s)[y]
      <4>1. PICK t \in State :
              /\ t[level] = i
              /\ \A e \in Evmdd : LevelOf(e) < level => Value(t)[e] = Value(s)[e]
        BY <2>2, Set
      <4>2. Value(t)[a] = Value(s)[x]
        BY <1>2, <1>5, <2>1, <3>1, <4>1, Cofactor
      <4>3. Value(t)[b] = Value(s)[y]
        BY <1>2, <1>3, <1>5, <2>1, <3>1, <4>1, Cofactor
      <4>. QED
        BY <4>2, <4>3 DEF SameFunction
    <3>. QED
      BY <3>1, <3>2, <3>3 DEF CanonicalSet, Unique, SameFunction
  <2>4. SubDiagrams(a) = SubDiagrams(b)
    BY <2>1, <2>3 DEF SubDiagrams
  <2>5. /\ a.input = MinWeight(kind, SubDiagrams(a)) /\ ChildrenOf(a) = Edges(kind, SubDiagrams(a))
        /\ b.input = MinWeight(kind, SubDiagrams(b)) /\ ChildrenOf(b) = Edges(kind, SubDiagrams(b))
    BY <1>2, <1>3, <1>5 DEF Prepared, Reduced
  <2>6. a.input = b.input /\ ChildrenOf(a) = ChildrenOf(b)
    BY <2>4, <2>5
  <2>7. a.src = b.src
    BY <1>2, <2>1, <2>6 DEF NodesUnique, ChildrenOf, LevelOf
  <2>. QED
    BY <1>2, <2>6, <2>7
<1>. QED
  BY <1>4, <1>5

(* One whose source is higher depends on its variable, as no node is redundant. *)
LEMMA NotHigher ==
  ASSUME HeapOK, ValueExists, ValuesDetermined, NEW R, CanonicalSet(R),
         NEW a, NEW b, Prepared(a, R), b \in Evmdd, SameFunction(a, b),
         LevelOf(b) < LevelOf(a)
  PROVE  FALSE
<1>1. PICK level : level = LevelOf(a)
  OBVIOUS
<1>2. a \in Evmdd /\ ~ IsTerminal(a.src)
  <2>1. a \in Evmdd /\ a.src \in DOMAIN heap /\ b.src \in DOMAIN heap
    BY SomeKind, Fields DEF Prepared
  <2>2. LevelOf(b) \in 0 .. NumLevels /\ LevelOf(a) \in 0 .. NumLevels
    BY <2>1, Levels DEF LevelOf
  <2>3. LevelOf(a) # 0
    BY <2>2, DomainSizes
  <2>. QED
    BY <2>1, <2>3, Levels DEF LevelOf
<1>3. /\ level \in Level /\ DomainSize[level] \in Nat \ {0}
      /\ \A i \in 1 .. DomainSize[level] :
           Child(a, i) \in R /\ Child(a, i).src.kind = a.src.kind
  BY <1>1, <1>2, SubsOf
<1>4. ASSUME NEW i \in 1 .. DomainSize[level], NEW s \in State
      PROVE  Value(s)[Child(a, i)] = Value(s)[b]
  <2>1. PICK t \in State :
          /\ t[level] = i
          /\ \A e \in Evmdd : LevelOf(e) < level => Value(t)[e] = Value(s)[e]
    BY <1>3, Set
  <2>2. Value(t)[a] = Value(s)[Child(a, i)]
    BY <1>1, <1>2, <2>1, Cofactor
  <2>3. Value(t)[b] = Value(s)[b]
    BY <1>1, <2>1
  <2>. QED
    BY <2>2, <2>3 DEF SameFunction
<1>5. ASSUME NEW i \in 1 .. DomainSize[level]
      PROVE  Child(a, i) = Child(a, 1)
  <2>1. 1 \in 1 .. DomainSize[level]
    BY <1>3
  <2>2. SameFunction(Child(a, i), Child(a, 1))
    BY <1>4, <2>1 DEF SameFunction
  <2>. QED
    BY <1>3, <2>1, <2>2 DEF CanonicalSet, Unique
<1>6. AllEqual(SubDiagrams(a))
  BY <1>1, <1>3, <1>5 DEF AllEqual, SubDiagrams
<1>. QED
  BY <1>2, <1>6 DEF Prepared, Reduced

(* A canonical set remains so when diagrams made of its members are added. *)
Extends ==
  \A R, S :
    /\ HeapOK /\ ValueExists /\ ValuesDetermined /\ NodesUnique
    /\ CanonicalSet(R)
    /\ \A e \in S : Prepared(e, R)
    => CanonicalSet(R \cup S)

LEMMA ExtendsAlways == Extends
<1> SUFFICES ASSUME NEW R, NEW S, HeapOK, ValueExists, ValuesDetermined, NodesUnique,
                    CanonicalSet(R), \A e \in S : Prepared(e, R)
             PROVE  CanonicalSet(R \cup S)
  BY DEF Extends
<1>1. \A e \in R \cup S : Prepared(e, R)
  BY DEF CanonicalSet
<1>2. \A e \in R \cup S : Prepared(e, R \cup S)
  BY <1>1 DEF Prepared, Reduced
<1>3. ASSUME NEW a \in R \cup S, NEW b \in R \cup S, a.src.kind = b.src.kind, SameFunction(a, b)
      PROVE  a = b
  <2>1. /\ Prepared(a, R) /\ Prepared(b, R) /\ a \in Evmdd /\ b \in Evmdd
        /\ SameFunction(b, a)
    BY <1>1, <1>3 DEF Prepared, SameFunction
  <2>2. LevelOf(a) \in Int /\ LevelOf(b) \in Int
    BY <2>1, Levels, DomainSizes, SomeKind, Fields DEF LevelOf
  <2>3. CASE LevelOf(a) = LevelOf(b)
    BY <1>3, <2>1, <2>3, SameLevel
  <2>4. CASE LevelOf(b) < LevelOf(a)
    BY <1>3, <2>1, <2>4, NotHigher
  <2>5. CASE LevelOf(a) < LevelOf(b)
    BY <2>1, <2>5, NotHigher
  <2>. QED
    BY <2>2, <2>3, <2>4, <2>5
<1>. QED
  BY <1>2, <1>3 DEF CanonicalSet, Unique

----------------------------------------------------------------------------
(* What the cache and the running calls hold belongs to a canonical set. *)

ClosedBy(R) ==
  /\ CanonicalSet(R)
  /\ \A e \in Evmdd : IsTerminal(e.src) => e \in R
  /\ \A entry \in DOMAIN evmdd_cache : evmdd_cache[entry] \in R
  /\ \A i \in 1 .. Len(stack) : \A j \in 1 .. Len(stack[i].done) : stack[i].done[j] \in R

Closed == \E R : ClosedBy(R)

(* Nodes that are added change nothing of a canonical set. *)
LEMMA CanonicalSetStable ==
  ASSUME HeapGrows, ValueExists, ValueExists', ValuesDetermined, NEW R, CanonicalSet(R)
  PROVE  CanonicalSet(R)'
<1>1. ASSUME NEW e \in R
      PROVE  Prepared(e, R)'
  <2>1. Prepared(e, R) /\ e \in Evmdd /\ e.src \in DOMAIN heap
    BY SomeKind, Fields DEF CanonicalSet, Prepared
  <2>2. /\ LevelOf(e)' = LevelOf(e) /\ ChildrenOf(e)' = ChildrenOf(e)
        /\ \A i : Child(e, i)' = Child(e, i)
    BY <2>1, Stable
  <2>3. SubDiagrams(e)' = SubDiagrams(e)
    BY <2>2 DEF SubDiagrams
  <2>4. e \in Evmdd'
    BY <2>1, GrowthOfEvmdd
  <2>5. Reduced(e, R) => Reduced(e, R)'
    BY <2>2, <2>3 DEF Reduced, AllEqual, MinWeight, Edges
  <2>. QED
    BY <2>1, <2>4, <2>5 DEF Prepared, IsTerminal
<1>2. ASSUME NEW a \in R, NEW b \in R, a.src.kind = b.src.kind, SameFunction(a, b)'
      PROVE  a = b
  <2>1. a \in Evmdd /\ b \in Evmdd
    BY DEF CanonicalSet, Prepared
  <2>2. \A s \in State : Value(s)'[a] = Value(s)'[b]
    BY <1>2, SameStates DEF SameFunction
  <2>3. SameFunction(a, b)
    BY <2>1, <2>2, OldValues DEF SameFunction
  <2>. QED
    BY <1>2, <2>3 DEF CanonicalSet, Unique
<1>. QED
  BY <1>1, <1>2 DEF CanonicalSet, Unique

(* A step that computes at most one diagram, from members of the set. *)
LEMMA ClosedIsKept ==
  ASSUME RefinementInv, RefinementInv', HeapGrows, NodesUnique',
         NEW R, ClosedBy(R), NEW S, \A e \in S : Prepared(e, R)',
         \A entry \in DOMAIN evmdd_cache' :
            evmdd_cache'[entry] \in R \cup S,
         \A i \in 1 .. Len(stack') : \A j \in 1 .. Len(stack'[i].done) :
            stack'[i].done[j] \in R \cup S
  PROVE  Closed'
<1>1. CanonicalSet(R)'
  BY CanonicalSetStable DEF RefinementInv, Invariant, ClosedBy
<1>2. PICK T : T = {e \in Evmdd' : IsTerminal(e.src)}
  OBVIOUS
<1>3. \A e \in S \cup T : Prepared(e, R)'
  BY <1>2 DEF Prepared, IsTerminal
<1>4. Extends'
  BY ExtendsAlways, PTL
<1>5. PICK Q : Q = R \cup (S \cup T)
  OBVIOUS
<1>6. CanonicalSet(Q)'
  BY <1>1, <1>3, <1>4, <1>5 DEF Extends, RefinementInv, Invariant
<1>7. ClosedBy(Q)'
  BY <1>2, <1>5, <1>6 DEF ClosedBy, IsTerminal
<1>. QED
  BY <1>7 DEF Closed

(* Where an activation returns, its caller has one more result. *)
LEMMA DoneAfterReturn ==
  ASSUME Invariant, ~ Idle, NEW result, Return(result),
         NEW i \in 1 .. Len(stack'), NEW j \in 1 .. Len(stack'[i].done)
  PROVE  \/ stack'[i].done[j] = result
         \/ /\ i \in 1 .. Len(stack) /\ j \in 1 .. Len(stack[i].done)
            /\ stack'[i].done[j] = stack[i].done[j]
<1>1. PICK n, op : n = Len(stack) /\ op = call.op
  OBVIOUS
<1>2. n \in Nat \ {0} /\ \A k \in 1 .. n : stack[k] \in Activation(op)
  BY <1>1, StackTypes DEF Invariant
<1>3. CASE n = 1
  BY <1>1, <1>3 DEF Return
<1>4. CASE n # 1
  <2>1. /\ Len(stack') = n - 1
        /\ i \in 1 .. n - 1
        /\ stack'[i] = IF i < n - 1 THEN stack[i] ELSE [stack[i] EXCEPT !.done = Append(@, result)]
    <3>1. stack' = [k \in 1 .. n - 1 |->
                      IF k < n - 1 THEN stack[k] ELSE [stack[k] EXCEPT !.done = Append(@, result)]]
      BY <1>1, <1>4 DEF Return
    <3>2. n - 1 \in Nat
      BY <1>2
    <3>3. Len(stack') = n - 1
      BY <3>1, <3>2
    <3>. QED
      BY <3>1, <3>3
  <2>2. i \in 1 .. n /\ stack[i] \in Activation(op)
    BY <1>2, <2>1
  <2>3. /\ stack[i].done \in Seq(EvmddOf(OpResult(op))) /\ Len(stack[i].done) \in Nat
        /\ stack[i] = [l |-> stack[i].l, r |-> stack[i].r, pc |-> stack[i].pc, done |-> stack[i].done]
    BY <2>2, FrameTypes
  <2>4. CASE i < n - 1
    BY <1>1, <2>1, <2>2, <2>4
  <2>5. CASE ~ i < n - 1
    <3>1. stack'[i].done = Append(stack[i].done, result)
      BY <2>1, <2>3, <2>5
    <3>. QED
      BY <1>1, <2>2, <2>3, <3>1
  <2>. QED
    BY <2>4, <2>5
<1>. QED
  BY <1>3, <1>4

(* What create_evmdd makes of members of the set. *)
LEMMA CreatedIsPrepared ==
  ASSUME HeapOK, StoreInv, ValueExists, HashIsInjective,
         NEW f \in DOMAIN factories, NEW level \in Level, NEW kind, kind = factories[f],
         NEW children \in Offspring(kind, level), ~ AllEqual(children),
         CreateEvmdd(f, level, children), UNCHANGED factories,
         NEW e, e = Created(f, level, children),
         NEW R, \A i \in 1 .. DomainSize[level] : children[i] \in R
  PROVE  Prepared(e, R)'
<1>1. PICK edges, w, p :
        /\ edges = Edges(kind, children) /\ w = MinWeight(kind, children)
        /\ p = NodeAt(f, level, edges)
  OBVIOUS
<1>2. StoreNode(f, level, edges) /\ e = [src |-> p, input |-> w]
  BY <1>1 DEF CreateEvmdd, Created
<1>3. kind \in Kind
  BY DEF HeapOK
<1>4. /\ edges \in EdgesFor(kind, level)
      /\ \A i \in 1 .. DomainSize[level] :
           [src |-> edges[i].to, input |-> Plus(kind, w, edges[i].w)] = children[i]
  BY <1>1, <1>3, EdgesOfOffspring
<1>5. p.kind = kind /\ heap'[p].level = level /\ heap'[p].children = edges
  BY <1>1, <1>2, <1>4, MakeNode
<1>6. e \in Evmdd'
  BY <1>3, Create DEF Evmdd
<1>7. /\ LevelOf(e)' = level /\ ChildrenOf(e)' = edges
      /\ \A i \in 1 .. DomainSize[level] : Child(e, i)' = children[i]
  BY <1>2, <1>4, <1>5 DEF LevelOf, ChildrenOf, Child
<1>8. SubDiagrams(e)' = children
  <2>1. children = [i \in 1 .. DomainSize[level] |-> children[i]]
    BY DEF Offspring
  <2>. QED
    BY <1>7, <2>1 DEF SubDiagrams
<1>9. Reduced(e, R)'
  <2>1. e.src.kind = kind /\ e.input = w
    BY <1>2, <1>5
  <2>2. \A i \in 1 .. DomainSize[LevelOf(e)'] : Child(e, i)' \in R
    BY <1>7
  <2>3. ~ AllEqual(SubDiagrams(e)')
    BY <1>8
  <2>4. e.input = MinWeight(e.src.kind, SubDiagrams(e)')
    BY <1>1, <1>8, <2>1
  <2>5. ChildrenOf(e)' = Edges(e.src.kind, SubDiagrams(e)')
    BY <1>1, <1>7, <1>8, <2>1
  <2>. QED
    BY <2>2, <2>3, <2>4, <2>5 DEF Reduced, AllEqual, MinWeight, Edges
<1>. QED
  BY <1>6, <1>9 DEF Prepared

(* Steps that return a diagram. *)
LEMMA ReturnKeepsClosed ==
  ASSUME RefinementInv, RefinementInv', HeapGrows, NodesUnique', ~ Idle,
         NEW R, ClosedBy(R), NEW S, \A e \in S : Prepared(e, R)',
         NEW result \in R \cup S, Return(result),
         \A entry \in DOMAIN evmdd_cache' : evmdd_cache'[entry] \in R \cup S
  PROVE  Closed'
<1>1. \A i \in 1 .. Len(stack') : \A j \in 1 .. Len(stack'[i].done) : stack'[i].done[j] \in R \cup S
  BY DoneAfterReturn DEF RefinementInv, ClosedBy
<1>. QED
  BY <1>1, ClosedIsKept

LEMMA TerminalCaseKeepsClosed ==
  ASSUME RefinementInv, RefinementInv', HeapGrows, NodesUnique', NEW R, ClosedBy(R), TerminalCase
  PROVE  Closed'
<1>1. PICK op, result :
        /\ op = call.op
        /\ result = [src |-> TerminalOf(call.fac), input |-> OpFun(op, Top.l.input, Top.r.input)]
  OBVIOUS
<1>2. /\ ~ Idle /\ Return(result) /\ OpDefined(op, Top.l.input, Top.r.input)
      /\ UNCHANGED evmdd_cache
  BY <1>1 DEF TerminalCase
<1>3. HeapOK /\ StoreInv /\ CallOK
  BY DEF RefinementInv, Invariant
<1>4. /\ op \in Op /\ call.fac \in DOMAIN factories /\ factories[call.fac] = OpResult(op)
      /\ Top \in Activation(op)
  BY <1>1, <1>2, <1>3, StackTypes
<1>5. Top.l \in EvmddOf(OpLeft(op)) /\ Top.r \in EvmddOf(OpRight(op))
  BY <1>4, FrameTypes
<1>6. OpLeft(op) \in Kind /\ OpRight(op) \in Kind /\ OpResult(op) \in Kind
  BY <1>4, OpAssumption
<1>7. Top.l.input \in Carrier(OpLeft(op)) /\ Top.r.input \in Carrier(OpRight(op))
  BY <1>5, <1>6, Fields
<1>8. result.input \in Carrier(OpResult(op))
  BY <1>1, <1>2, <1>4, <1>7, OpAssumption
<1>9. result \in EvmddOf(OpResult(op)) /\ IsTerminal(result.src)
  BY <1>1, <1>3, <1>4, <1>8, TerminalStored DEF EvmddOf
<1>10. result \in R
  BY <1>6, <1>9, Fields DEF ClosedBy
<1>. QED
  BY <1>2, <1>10, ReturnKeepsClosed DEF ClosedBy

LEMMA CacheHitKeepsClosed ==
  ASSUME RefinementInv, RefinementInv', HeapGrows, NodesUnique', NEW R, ClosedBy(R), CacheHit
  PROVE  Closed'
<1>1. PICK key, result : key = CacheKey /\ result = evmdd_cache[key]
  OBVIOUS
<1>2. ~ Idle /\ Return(result) /\ UNCHANGED evmdd_cache /\ key \in DOMAIN evmdd_cache
  BY <1>1 DEF CacheHit
<1>3. \A entry \in DOMAIN evmdd_cache : evmdd_cache[entry] \in R
  BY DEF ClosedBy
<1>4. PICK S : S = {}
  OBVIOUS
<1>5. result \in R \cup S
  BY <1>1, <1>2, <1>3
<1>6. \A e \in S : Prepared(e, R)'
  BY <1>4
<1>7. \A entry \in DOMAIN evmdd_cache' : evmdd_cache'[entry] \in R \cup S
  BY <1>2, <1>3
<1>. QED
  BY <1>2, <1>5, <1>6, <1>7, ReturnKeepsClosed

LEMMA CombineKeepsClosed ==
  ASSUME HashIsInjective,
         RefinementInv, RefinementInv', HeapGrows, NodesUnique', NEW R, ClosedBy(R), Combine
  PROVE  Closed'
<1>1. PICK op, f, fr, level, kind, result, key :
        /\ op = call.op /\ f = call.fac /\ fr = Top /\ level = RootLevel(fr.l, fr.r)
        /\ kind = OpResult(op) /\ result = Created(f, level, fr.done) /\ key = CacheKey
  OBVIOUS
<1>2. /\ ~ Idle /\ fr.pc = "children" /\ Len(fr.done) = Len(sub_evmdds(fr.l, fr.r))
      /\ CreateEvmdd(f, level, fr.done) /\ evmdd_cache' = Put(evmdd_cache, key, result)
      /\ Return(result) /\ UNCHANGED factories
  BY <1>1 DEF Combine
<1>3. HeapOK /\ StoreInv /\ ValueExists /\ CallOK /\ StackInv
  BY DEF RefinementInv, Invariant
<1>4. /\ op \in Op /\ f \in DOMAIN factories /\ factories[f] = kind
      /\ Len(stack) \in 1 .. Len(stack) /\ fr = stack[Len(stack)]
  BY <1>1, <1>2, <1>3, StackTypes
<1>5. FrameInv(fr, op)
  BY <1>1, <1>3, <1>4 DEF StackInv
<1>6. level \in Level /\ fr.done \in Offspring(kind, level)
  BY <1>1, <1>2, <1>3, <1>4, <1>5, AllDone
<1>7. DomainSize[level] \in Nat \ {0} /\ DOMAIN fr.done = 1 .. DomainSize[level]
  BY <1>6, DomainSizes DEF Offspring
<1>8. \A i \in 1 .. DomainSize[level] : fr.done[i] \in R
  <2>1. Len(fr.done) = DomainSize[level]
    BY <1>7
  <2>. QED
    BY <1>4, <2>1 DEF ClosedBy
<1>9. PICK S : S = IF AllEqual(fr.done) THEN {} ELSE {result}
  OBVIOUS
<1>10. result \in R \cup S
  <2>1. CASE AllEqual(fr.done)
    BY <1>1, <1>7, <1>8, <2>1 DEF Created
  <2>2. CASE ~ AllEqual(fr.done)
    BY <1>9, <2>2
  <2>. QED
    BY <2>1, <2>2
<1>11. \A e \in S : Prepared(e, R)'
  BY <1>1, <1>2, <1>3, <1>4, <1>6, <1>8, <1>9, CreatedIsPrepared
<1>12. \A entry \in DOMAIN evmdd_cache' : evmdd_cache'[entry] \in R \cup S
  BY <1>2, <1>10 DEF Put, ClosedBy
<1>. QED
  BY <1>2, <1>10, <1>11, <1>12, ReturnKeepsClosed

(* Steps that return none: the stack grows, is emptied, or changes a pc. *)
LEMMA OthersKeepClosed ==
  ASSUME RefinementInv, RefinementInv', HeapGrows, NodesUnique', NEW R, ClosedBy(R),
         UNCHANGED evmdd_cache,
         \A i \in 1 .. Len(stack') :
            stack'[i].done = <<>> \/ (i \in 1 .. Len(stack) /\ stack'[i].done = stack[i].done)
  PROVE  Closed'
<1>1. PICK S : S = {}
  OBVIOUS
<1>2. \A i \in 1 .. Len(stack') : \A j \in 1 .. Len(stack'[i].done) : stack'[i].done[j] \in R \cup S
  BY DEF ClosedBy
<1>3. \A entry \in DOMAIN evmdd_cache' : evmdd_cache'[entry] \in R \cup S
  BY DEF ClosedBy
<1>4. \A e \in S : Prepared(e, R)'
  BY <1>1
<1>. QED
  BY <1>2, <1>3, <1>4, ClosedIsKept

LEMMA CacheMissKeepsClosed ==
  ASSUME RefinementInv, RefinementInv', HeapGrows, NodesUnique', NEW R, ClosedBy(R), CacheMiss
  PROVE  Closed'
<1>1. PICK n, op : n = Len(stack) /\ op = call.op
  OBVIOUS
<1>2. ~ Idle /\ stack' = [stack EXCEPT ![n].pc = "children"] /\ UNCHANGED evmdd_cache
  BY <1>1 DEF CacheMiss
<1>3. n \in Nat \ {0} /\ stack \in Seq(Activation(op)) /\ \A i \in 1 .. n : stack[i] \in Activation(op)
  BY <1>1, <1>2, StackTypes DEF RefinementInv, Invariant
<1>4. \A i \in 1 .. n : stack[i] = [l |-> stack[i].l, r |-> stack[i].r,
                                    pc |-> stack[i].pc, done |-> stack[i].done]
  BY <1>3, FrameTypes
<1>5. Len(stack') = n /\ \A i \in 1 .. n : stack'[i].done = stack[i].done
  BY <1>1, <1>2, <1>3, <1>4
<1>. QED
  BY <1>1, <1>2, <1>5, OthersKeepClosed

LEMMA RecurseKeepsClosed ==
  ASSUME RefinementInv, RefinementInv', HeapGrows, NodesUnique', NEW R, ClosedBy(R), Recurse
  PROVE  Closed'
<1>1. PICK n, new : n = Len(stack) /\ new.done = <<>> /\ stack' = Append(stack, new)
  BY DEF Recurse, Frame
<1>2. ~ Idle /\ UNCHANGED evmdd_cache
  BY DEF Recurse
<1>3. n \in Nat \ {0} /\ stack \in Seq(Activation(call.op))
  BY <1>1, <1>2, StackTypes DEF RefinementInv, Invariant
<1>4. Len(stack') = n + 1 /\ stack'[n + 1] = new /\ \A i \in 1 .. n : stack'[i] = stack[i]
  BY <1>1, <1>3
<1>5. \A i \in 1 .. n + 1 : i = n + 1 \/ i \in 1 .. n
  BY <1>3
<1>. QED
  BY <1>1, <1>2, <1>4, <1>5, OthersKeepClosed

----------------------------------------------------------------------------
(* The invariant. *)

OwnershipInv == Invariant /\ NodesStored /\ FactoriesRegistered /\ FactoryOfOutcome

(* The nodes of a new factory, and of those that were there before. *)
LEMMA GetFactoryKeepsNodes ==
  ASSUME OwnershipInv, NEW kind \in Kind, NEW key \in Key, GetFactory(kind, key)
  PROVE  NodesStored' /\ FactoriesRegistered'
<1>1. PICK f, terminal, table, entry :
        /\ f = Len(factories) + 1 /\ terminal = [kind |-> kind, fac |-> f, id |-> 0]
        /\ table = [k \in {TerminalKey} |-> terminal] /\ entry = <<kind, key>>
  OBVIOUS
<1>2. /\ factories' = Append(factories, kind)
      /\ id_cache' = Put(id_cache, f, table)
      /\ heap' = Put(heap, terminal, TerminalNode)
      /\ registry' = Put(registry, entry, f)
      /\ entry \notin DOMAIN registry
  BY <1>1 DEF GetFactory
<1>3. factories \in Seq(Kind) /\ DOMAIN id_cache = DOMAIN factories /\ f \notin DOMAIN factories
  BY <1>1 DEF OwnershipInv, Invariant, HeapOK
<1>4. /\ DOMAIN factories' = DOMAIN factories \cup {f} /\ factories'[f] = kind
      /\ \A g \in DOMAIN factories : factories'[g] = factories[g]
  BY <1>1, <1>2, <1>3
<1>5. \A g \in DOMAIN factories : id_cache'[g] = id_cache[g]
  BY <1>2, <1>3 DEF Put
<1>6. DOMAIN heap' = DOMAIN heap \cup {terminal} /\ \A p \in DOMAIN heap : p # terminal => heap'[p] = heap[p]
  BY <1>2 DEF Put
<1>7. NodesStored'
  <2>1. ASSUME NEW p \in DOMAIN heap'
        PROVE  /\ p.fac \in DOMAIN factories'
               /\ p.kind = factories'[p.fac]
               /\ IsTerminal(p) \/
                    /\ Hash(heap'[p].level, heap'[p].children) \in DOMAIN id_cache'[p.fac]
                    /\ id_cache'[p.fac][Hash(heap'[p].level, heap'[p].children)] = p
    <3>1. CASE p = terminal
      BY <1>1, <1>4, <3>1 DEF IsTerminal
    <3>2. CASE p # terminal
      <4>1. p \in DOMAIN heap /\ heap'[p] = heap[p]
        BY <1>6, <3>2
      <4>2. p.fac \in DOMAIN factories
        BY <4>1 DEF OwnershipInv, NodesStored
      <4>. QED
        BY <1>4, <1>5, <4>1, <4>2 DEF OwnershipInv, NodesStored
    <3>. QED
      BY <3>1, <3>2
  <2>. QED
    BY <2>1 DEF NodesStored, IsTerminal
<1>8. FactoriesRegistered'
  <2> SUFFICES ASSUME NEW g \in DOMAIN factories'
               PROVE  \E k \in Key : /\ <<factories'[g], k>> \in DOMAIN registry'
                                     /\ registry'[<<factories'[g], k>>] = g
    BY DEF FactoriesRegistered
  <2>1. CASE g = f
    BY <1>1, <1>2, <1>4, <2>1 DEF Put
  <2>2. CASE g \in DOMAIN factories
    <3>1. PICK k \in Key : <<factories[g], k>> \in DOMAIN registry /\ registry[<<factories[g], k>>] = g
      BY <2>2 DEF OwnershipInv, FactoriesRegistered
    <3>2. /\ <<factories[g], k>> \in DOMAIN registry'
          /\ registry'[<<factories[g], k>>] = g
      BY <1>2, <3>1 DEF Put
    <3>. QED
      BY <1>4, <2>2, <3>1, <3>2
  <2>. QED
    BY <1>4, <2>1, <2>2
<1>. QED
  BY <1>7, <1>8

LEMMA SameNodes ==
  ASSUME OwnershipInv, UNCHANGED <<factories, id_cache, heap>>
  PROVE  NodesStored'
BY DEF OwnershipInv, NodesStored, IsTerminal

LEMMA SameFactories ==
  ASSUME OwnershipInv, UNCHANGED <<factories, registry>>
  PROVE  FactoriesRegistered'
BY DEF OwnershipInv, FactoriesRegistered

LEMMA ReturnOutcome ==
  ASSUME OwnershipInv, ~ Idle, NEW result, Return(result), UNCHANGED factories
  PROVE  FactoryOfOutcome'
BY StackTypes DEF OwnershipInv, Invariant, FactoryOfOutcome, Return

LEMMA OwnershipIsKept ==
  ASSUME OneFactory, HashIsInjective, OpTypesDistinct, OwnershipInv, [Next]_vars
  PROVE  OwnershipInv'
<1>1. Invariant' /\ HeapOK /\ NodesStored
  BY InvariantIsKept DEF OwnershipInv, Invariant
<1>2. CASE UNCHANGED vars
  BY <1>1, <1>2, SameNodes, SameFactories DEF vars, OwnershipInv, FactoryOfOutcome
<1>3. CASE Client
  <2>1. ASSUME NEW kind \in Kind, NEW key \in Key, GetFactory(kind, key)
        PROVE  NodesStored' /\ FactoriesRegistered' /\ FactoryOfOutcome'
    <3>1. outcome' = NoOutcome
      BY <2>1 DEF GetFactory
    <3>. QED
      BY <2>1, <3>1, GetFactoryKeepsNodes DEF FactoryOfOutcome, NoOutcome
  <2>2. ASSUME NEW f \in Live, NEW w, MakeConst(f, w)
        PROVE  NodesStored' /\ FactoriesRegistered' /\ FactoryOfOutcome'
    BY <2>2, SameNodes, SameFactories DEF MakeConst, FactoryOfOutcome, NoOutcome
  <2>3. ASSUME NEW f \in Live, NEW level, NEW values, MakeVar(f, level, values)
        PROVE  NodesStored' /\ FactoriesRegistered' /\ FactoryOfOutcome'
    <3>1. PICK children : StoreNode(f, level, children)
      BY <2>3 DEF MakeVar
    <3>2. UNCHANGED <<factories, registry>> /\ outcome' = NoOutcome /\ f \in DOMAIN factories
      BY <2>3, LiveFactories DEF MakeVar, OwnershipInv, Invariant
    <3>. QED
      BY <1>1, <3>1, <3>2, StoreKeepsNodes, SameFactories DEF FactoryOfOutcome, NoOutcome
  <2>4. ASSUME NEW op \in Op, NEW f \in Live, NEW l \in held, NEW r \in held, Apply(op, f, l, r)
        PROVE  NodesStored' /\ FactoriesRegistered' /\ FactoryOfOutcome'
    BY <2>4, SameNodes, SameFactories DEF Apply, FactoryOfOutcome, NoOutcome
  <2>. QED
    BY <1>1, <1>3, <2>1, <2>2, <2>3, <2>4 DEF Client, OneFactory, OwnershipInv
<1>4. CASE TerminalCase \/ CacheHit
  BY <1>1, <1>4, SameNodes, SameFactories, ReturnOutcome DEF TerminalCase, CacheHit, OwnershipInv
<1>5. CASE TerminalThrow
  <2>1. UNCHANGED <<factories, id_cache, heap, registry>> /\ outcome'.status = "threw"
    BY <1>5 DEF TerminalThrow
  <2>. QED
    BY <1>1, <2>1, SameNodes, SameFactories DEF OwnershipInv, FactoryOfOutcome
<1>6. CASE CacheMiss \/ Recurse
  <2>1. UNCHANGED <<factories, id_cache, heap, registry, outcome>>
    BY <1>6 DEF CacheMiss, Recurse
  <2>. QED
    BY <1>1, <2>1, SameNodes, SameFactories DEF OwnershipInv, FactoryOfOutcome
<1>7. CASE Combine
  <2>1. PICK f, level, children, result :
          /\ f = call.fac /\ CreateEvmdd(f, level, children) /\ Return(result)
          /\ UNCHANGED <<factories, registry>> /\ ~ Idle
    BY <1>7 DEF Combine
  <2>2. f \in DOMAIN factories
    BY <2>1, StackTypes DEF OwnershipInv, Invariant
  <2>3. NodesStored'
    <3>1. CASE UNCHANGED <<id_cache, heap>>
      BY <2>1, <3>1, SameNodes
    <3>2. CASE \E edges : StoreNode(f, level, edges)
      BY <1>1, <2>1, <2>2, <3>2, StoreKeepsNodes
    <3>. QED
      BY <2>1, <3>1, <3>2 DEF CreateEvmdd
  <2>. QED
    BY <1>1, <2>1, <2>3, SameFactories, ReturnOutcome DEF OwnershipInv
<1>. QED
  BY <1>2, <1>3, <1>4, <1>5, <1>6, <1>7 DEF Next, Step

CanonicalInv == RefinementInv /\ OwnershipInv /\ Closed

LEMMA CanonicalInvInitially ==
  ASSUME Init
  PROVE  CanonicalInv
<1>1. /\ DOMAIN heap = {} /\ DOMAIN evmdd_cache = {} /\ stack = <<>>
      /\ outcome.status = "none" /\ factories = <<>>
  BY DEF Init, NoOutcome, Empty
<1>2. RefinementInv
  BY InitMaps
<1>3. OwnershipInv
  BY <1>1, <1>2 DEF RefinementInv, OwnershipInv, NodesStored, FactoriesRegistered, FactoryOfOutcome
<1>4. ClosedBy({})
  <2>1. Evmdd = {}
    BY <1>1 DEF Evmdd, EvmddOf
  <2>2. Len(stack) = 0
    BY <1>1
  <2>. QED
    BY <1>1, <2>1, <2>2 DEF ClosedBy, CanonicalSet, Unique
<1>. QED
  BY <1>2, <1>3, <1>4 DEF CanonicalInv, Closed

LEMMA CanonicalInvIsKept ==
  ASSUME OneFactory, HashIsInjective, OpTypesDistinct, CanonicalInv, [Next]_vars
  PROVE  CanonicalInv'
<1>1. RefinementInv /\ RefinementInv' /\ HeapGrows
  BY RefinementInvIsKept DEF CanonicalInv
<1>2. OwnershipInv'
  BY OwnershipIsKept DEF CanonicalInv
<1>3. NodesUnique'
  <2>1. (HeapOK /\ NodesStored /\ FactoriesRegistered)'
    BY <1>2 DEF OwnershipInv, Invariant
  <2>2. (OneFactory /\ HeapOK /\ NodesStored /\ FactoriesRegistered => NodesUnique)'
    BY StoredOnce, PTL
  <2>. QED
    BY <2>1, <2>2 DEF OneFactory
<1>4. PICK R : ClosedBy(R)
  BY DEF CanonicalInv, Closed
<1> SUFFICES Closed'
  BY <1>1, <1>2 DEF CanonicalInv
<1>5. ASSUME UNCHANGED <<evmdd_cache, stack>>
      PROVE  Closed'
  BY <1>1, <1>3, <1>4, <1>5, OthersKeepClosed
<1>6. CASE UNCHANGED vars
  BY <1>5, <1>6 DEF vars
<1>7. CASE Client
  <2>1. ASSUME NEW op \in Op, NEW f \in Live, NEW l \in held, NEW r \in held, Apply(op, f, l, r)
        PROVE  Closed'
    <3>1. UNCHANGED evmdd_cache /\ stack' = <<Frame(l, r)>>
      BY <2>1 DEF Apply
    <3>2. \A i \in 1 .. Len(stack') : stack'[i].done = <<>>
      BY <3>1 DEF Frame
    <3>. QED
      BY <1>1, <1>3, <1>4, <3>1, <3>2, OthersKeepClosed
  <2>. QED
    BY <1>5, <1>7, <2>1 DEF Client, GetFactory, Reset, MakeConst, MakeVar
<1>8. CASE TerminalThrow
  <2>1. UNCHANGED evmdd_cache /\ Len(stack') = 0
    BY <1>8 DEF TerminalThrow
  <2>. QED
    BY <1>1, <1>3, <1>4, <2>1, OthersKeepClosed
<1>9. CASE Step
  BY <1>1, <1>3, <1>4, <1>8, <1>9, TerminalCaseKeepsClosed, CacheHitKeepsClosed,
     CacheMissKeepsClosed, RecurseKeepsClosed, CombineKeepsClosed DEF Step
<1>. QED
  BY <1>6, <1>7, <1>9 DEF Next

----------------------------------------------------------------------------
(* "Each domain/ordering pair has exactly one factory which generates and  *)
(* stores all evmdds for this pair": where there is one pair and factories *)
(* are not reset, the source node of a result is in the store of the       *)
(* factory that apply was called on.                                       *)
THEOREM OneFactoryOwnsResults ==
  ASSUME OneFactory, HashIsInjective, OpTypesDistinct
  PROVE  Spec => []FactoryOwnsResults
<1>1. Init => OwnershipInv
  BY CanonicalInvInitially DEF CanonicalInv
<1>2. OwnershipInv /\ [Next]_vars => OwnershipInv'
  BY OwnershipIsKept
<1>3. OwnershipInv => FactoryOwnsResults
  <2> SUFFICES ASSUME OwnershipInv, outcome.status = "returned"
               PROVE  \E key \in DOMAIN id_cache[outcome.fac] :
                        id_cache[outcome.fac][key] = outcome.result.src
    BY DEF FactoryOwnsResults
  <2>1. PICK p, f : p = outcome.result.src /\ f = outcome.fac
    OBVIOUS
  <2>2. /\ HeapOK /\ StoreInv /\ f \in DOMAIN factories /\ factories[f] = OpResult(outcome.op)
        /\ outcome.result \in EvmddOf(OpResult(outcome.op))
    BY <2>1 DEF OwnershipInv, Invariant, OutcomeInv, Answer, FactoryOfOutcome
  <2>3. p \in DOMAIN heap /\ p.kind = factories[f] /\ p \in Pointer
    BY <2>1, <2>2 DEF EvmddOf, HeapOK
  <2>4. p.fac = f
    BY <2>2, <2>3, OneFactoryPerKind DEF OwnershipInv, NodesStored
  <2>5. CASE IsTerminal(p)
    <3>1. p = TerminalOf(f)
      BY <2>3, <2>4, <2>5 DEF Pointer, IsTerminal, TerminalOf
    <3>. QED
      BY <2>1, <2>2, <3>1 DEF StoreInv, HeapOK
  <2>6. CASE ~ IsTerminal(p)
    BY <2>1, <2>3, <2>4, <2>6 DEF OwnershipInv, NodesStored
  <2>. QED
    BY <2>5, <2>6
<1>. QED
  BY <1>1, <1>2, <1>3, PTL DEF Spec

(* Results of apply that denote one function are one diagram, so operator= *)
(* on them, a comparison of a weight and a pointer, decides whether two    *)
(* functions are equal.                                                    *)
THEOREM ResultsAreCanonical ==
  ASSUME OneFactory, HashIsInjective, OpTypesDistinct
  PROVE  Spec => []Canonical
<1>1. Init => CanonicalInv
  BY CanonicalInvInitially
<1>2. CanonicalInv /\ [Next]_vars => CanonicalInv'
  BY CanonicalInvIsKept
<1>3. CanonicalInv => Canonical
  <2> SUFFICES ASSUME CanonicalInv, NEW R, ClosedBy(R)
               PROVE  Canonical
    BY DEF CanonicalInv, Closed
  <2>1. \A e \in Results : e \in R
    <3>1. held \subseteq Evmdd
      BY DEF CanonicalInv, RefinementInv, Invariant, ClientOK
    <3>. QED
      BY <3>1 DEF Results, ClosedBy
  <2>. QED
    BY <2>1 DEF ClosedBy, CanonicalSet, Unique, SameFunction, Canonical
<1>. QED
  BY <1>1, <1>2, <1>3, PTL DEF Spec

----------------------------------------------------------------------------
(* Induction, and the types of values. *)

(* A non-empty set of natural numbers has a least element. *)
LEMMA LeastNatural ==
  ASSUME NEW T, T \subseteq Nat, T # {}
  PROVE  \E x \in T : \A y \in T : x <= y
<1>1. PICK R : R = OpToRel(<, Nat)
  OBVIOUS
<1>2. IsWellFoundedOn(R, Nat)
  BY <1>1, NatLessThanWellFounded
<1>3. PICK x \in T : \A y \in T : ~ (<<y, x>> \in R)
  BY <1>2, WFMin
<1>4. \A y \in T : <<y, x>> \in R <=> y < x
  BY <1>1 DEF OpToRel
<1>5. x \in Nat /\ \A y \in T : y \in Nat /\ ~ (y < x)
  BY <1>3, <1>4
<1>. QED
  BY <1>5

(* Induction over levels. *)
LEMMA LevelInduction ==
  ASSUME NEW S, NEW level, \A x \in S : level[x] \in Nat,
         NEW D, \A x \in S : (\A y \in S : level[y] < level[x] => y \in D) => x \in D
  PROVE  S \subseteq D
<1> SUFFICES ASSUME S \ D # {}
             PROVE  FALSE
  OBVIOUS
<1>1. PICK T : T = {level[x] : x \in S \ D}
  OBVIOUS
<1>2. T \subseteq Nat /\ T # {}
  BY <1>1
<1>3. PICK k \in T : \A l \in T : k <= l
  BY <1>2, LeastNatural
<1>4. PICK x \in S \ D : level[x] = k
  BY <1>1, <1>3
<1>5. ASSUME NEW y \in S, level[y] < level[x]
      PROVE  y \in D
  <2>1. level[y] \in Nat /\ k \in Nat /\ level[y] < k
    BY <1>4, <1>5
  <2>2. level[y] \notin T
    BY <1>3, <2>1
  <2>. QED
    BY <1>1, <2>2
<1>. QED
  BY <1>4, <1>5

LEMMA DiagramInduction ==
  ASSUME HeapOK, NEW D,
         \A e \in Evmdd : (\A c \in Evmdd : LevelOf(c) < LevelOf(e) => c \in D) => e \in D
  PROVE  Evmdd \subseteq D
<1>1. PICK level : level = [e \in Evmdd |-> LevelOf(e)]
  OBVIOUS
<1>2. \A e \in Evmdd : level[e] \in Nat
  <2>1. ASSUME NEW e \in Evmdd
        PROVE  LevelOf(e) \in Nat
    <3>1. e.src \in DOMAIN heap
      BY SomeKind, Fields
    <3>. QED
      BY <3>1, Levels, DomainSizes DEF LevelOf
  <2>. QED
    BY <1>1, <2>1
<1>3. \A e \in Evmdd : (\A c \in Evmdd : level[c] < level[e] => c \in D) => e \in D
  BY <1>1
<1>. QED
  BY <1>2, <1>3, LevelInduction

(* The value of a diagram is a weight of its kind. *)
LEMMA ValuesTyped ==
  ASSUME HeapOK, ValueExists, NEW s \in State, NEW kind \in Kind, NEW e \in EvmddOf(kind)
  PROVE  Value(s)[e] \in Carrier(kind)
<1>1. PICK V : V = Value(s) /\ IsValue(V, s)
  BY ValueIsValue
<1>2. PICK D : D = {d \in Evmdd : V[d] \in Carrier(d.src.kind)}
  OBVIOUS
<1>3. ASSUME NEW d \in Evmdd, \A c \in Evmdd : LevelOf(c) < LevelOf(d) => c \in D
      PROVE  d \in D
  <2>1. PICK k \in Kind : d \in EvmddOf(k)
    BY SomeKind
  <2>2. d.src.kind = k /\ d.input \in Carrier(k)
    BY <2>1, Fields
  <2>3. CASE IsTerminal(d.src)
    BY <1>1, <1>2, <2>2, <2>3 DEF IsValue, StepValue
  <2>4. CASE ~ IsTerminal(d.src)
    <3>1. PICK c : c = Child(d, s[LevelOf(d)])
      OBVIOUS
    <3>2. c \in EvmddOf(k) /\ LevelOf(c) < LevelOf(d)
      BY <2>1, <2>4, <3>1, Children, States
    <3>3. c \in D /\ c.src.kind = k
      BY <1>3, <3>2, Fields
    <3>4. V[d] = V[c]
      BY <1>1, <2>4, <3>1 DEF IsValue, StepValue
    <3>. QED
      BY <1>2, <2>2, <3>3, <3>4
  <2>. QED
    BY <2>3, <2>4
<1>4. Evmdd \subseteq D
  BY <1>3, DiagramInduction
<1>. QED
  BY <1>1, <1>2, <1>4, Fields

----------------------------------------------------------------------------
(* Greatest lower bounds, and folds that compute them. *)

(* The greatest lower bound of monoid.h is the meet of a semi-lattice. *)
GlbIsMeet ==
  \A kind \in Kind :
    /\ \A a, b \in Carrier(kind) : /\ Glb(kind, a, b) \in Carrier(kind)
                                   /\ Glb(kind, a, b) = Glb(kind, b, a)
    /\ \A a \in Carrier(kind) : Glb(kind, a, a) = a
    /\ \A a, b, c \in Carrier(kind) :
         Glb(kind, Glb(kind, a, b), c) = Glb(kind, a, Glb(kind, b, c))

Below(kind, a, b) == Glb(kind, a, b) = a

(* g is the greatest lower bound of the weights in A. *)
IsGlb(kind, A, g) ==
  /\ g \in Carrier(kind)
  /\ \A a \in A : Below(kind, g, a)
  /\ \A h \in Carrier(kind) : (\A a \in A : Below(kind, h, a)) => Below(kind, h, g)

LEMMA GlbIsUnique ==
  ASSUME GlbIsMeet, NEW kind \in Kind, NEW A, NEW g, NEW h,
         IsGlb(kind, A, g), IsGlb(kind, A, h)
  PROVE  g = h
<1>1. g \in Carrier(kind) /\ h \in Carrier(kind) /\ Below(kind, g, h) /\ Below(kind, h, g)
  BY DEF IsGlb
<1>2. Glb(kind, g, h) = Glb(kind, h, g)
  BY <1>1 DEF GlbIsMeet
<1>. QED
  BY <1>1, <1>2 DEF Below

LEMMA BelowIsTransitive ==
  ASSUME GlbIsMeet, NEW kind \in Kind,
         NEW a \in Carrier(kind), NEW b \in Carrier(kind), NEW c \in Carrier(kind),
         Below(kind, a, b), Below(kind, b, c)
  PROVE  Below(kind, a, c)
<1>1. Glb(kind, Glb(kind, a, b), c) = Glb(kind, a, Glb(kind, b, c))
  BY DEF GlbIsMeet
<1>. QED
  BY <1>1 DEF Below

(* The greatest lower bound of one more weight. *)
LEMMA GlbOfMore ==
  ASSUME GlbIsMeet, NEW kind \in Kind, NEW A, A \subseteq Carrier(kind), NEW g, IsGlb(kind, A, g),
         NEW x \in Carrier(kind), NEW m, m = Glb(kind, x, g) \/ m = Glb(kind, g, x)
  PROVE  IsGlb(kind, A \cup {x}, m)
<1>1. g \in Carrier(kind) /\ m = Glb(kind, x, g) /\ m = Glb(kind, g, x) /\ m \in Carrier(kind)
  BY DEF IsGlb, GlbIsMeet
<1>2. Below(kind, m, g) /\ Below(kind, m, x)
  <2>1. Glb(kind, Glb(kind, x, g), g) = Glb(kind, x, Glb(kind, g, g)) /\ Glb(kind, g, g) = g
    BY <1>1 DEF GlbIsMeet
  <2>2. Glb(kind, Glb(kind, g, x), x) = Glb(kind, g, Glb(kind, x, x)) /\ Glb(kind, x, x) = x
    BY <1>1 DEF GlbIsMeet
  <2>. QED
    BY <1>1, <2>1, <2>2 DEF Below
<1>3. ASSUME NEW a \in A \cup {x}
      PROVE  Below(kind, m, a)
  <2>1. CASE a = x
    BY <1>2, <2>1
  <2>2. CASE a \in A
    <3>1. a \in Carrier(kind) /\ Below(kind, g, a)
      BY <2>2 DEF IsGlb
    <3>. QED
      BY <1>1, <1>2, <3>1, BelowIsTransitive
  <2>. QED
    BY <2>1, <2>2
<1>4. ASSUME NEW h \in Carrier(kind), \A a \in A \cup {x} : Below(kind, h, a)
      PROVE  Below(kind, h, m)
  <2>1. Glb(kind, h, g) = h /\ Glb(kind, h, x) = h
    BY <1>4 DEF IsGlb, Below
  <2>2. Glb(kind, Glb(kind, h, g), x) = Glb(kind, h, Glb(kind, g, x))
    BY <1>1 DEF GlbIsMeet
  <2>. QED
    BY <1>1, <2>1, <2>2 DEF Below
<1>. QED
  BY <1>1, <1>3, <1>4 DEF IsGlb

LEMMA GlbOfOne ==
  ASSUME GlbIsMeet, NEW kind \in Kind, NEW a \in Carrier(kind)
  PROVE  IsGlb(kind, {a}, a)
BY DEF GlbIsMeet, IsGlb, Below

(* The greatest lower bound of greatest lower bounds. *)
UnionOf(I, B) == UNION {B[i] : i \in I}

ImageOf(I, m) == {m[i] : i \in I}

LEMMA GlbOfUnion ==
  ASSUME GlbIsMeet, NEW kind \in Kind, NEW I, NEW B, NEW m,
         \A i \in I : B[i] \subseteq Carrier(kind) /\ IsGlb(kind, B[i], m[i]),
         NEW g, IsGlb(kind, ImageOf(I, m), g)
  PROVE  IsGlb(kind, UnionOf(I, B), g)
<1>1. g \in Carrier(kind)
  BY DEF IsGlb
<1>2. ASSUME NEW i \in I, NEW a \in B[i]
      PROVE  Below(kind, g, a)
  <2>1. a \in Carrier(kind) /\ m[i] \in Carrier(kind) /\ Below(kind, m[i], a) /\ Below(kind, g, m[i])
    BY DEF IsGlb, ImageOf
  <2>. QED
    BY <1>1, <2>1, BelowIsTransitive
<1>3. ASSUME NEW h \in Carrier(kind), \A a \in UnionOf(I, B) : Below(kind, h, a)
      PROVE  Below(kind, h, g)
  <2>1. ASSUME NEW i \in I
        PROVE  Below(kind, h, m[i])
    BY <1>3 DEF IsGlb, UnionOf
  <2>. QED
    BY <2>1 DEF IsGlb, ImageOf
<1>. QED
  BY <1>1, <1>2, <1>3 DEF IsGlb, UnionOf

(* Induction over the subsets of a finite set. *)
LEMMA SubsetInduction ==
  ASSUME NEW S, IsFiniteSet(S), NEW D, {} \in D,
         \A s \in SUBSET S : (s # {} /\ \A x \in s : s \ {x} \in D) => s \in D
  PROVE  SUBSET S \subseteq D
<1>1. PICK size : size = [s \in SUBSET S |-> Cardinality(s)]
  OBVIOUS
<1>2. \A s \in SUBSET S : size[s] \in Nat /\ IsFiniteSet(s)
  BY <1>1, FS_Subset, FS_CardinalityType
<1>3. ASSUME NEW s \in SUBSET S, \A t \in SUBSET S : size[t] < size[s] => t \in D
      PROVE  s \in D
  <2>1. ASSUME NEW x \in s
        PROVE  s \ {x} \in D
    <3>1. IsFiniteSet(s) /\ Cardinality(s) \in Nat
      BY <1>2, FS_CardinalityType
    <3>2. Cardinality(s \ {x}) = Cardinality(s) - 1
      BY <3>1, FS_RemoveElement
    <3>3. s \ {x} \in SUBSET S /\ size[s \ {x}] < size[s]
      BY <1>1, <3>1, <3>2
    <3>. QED
      BY <1>3, <3>3
  <2>. QED
    BY <2>1
<1>4. PICK P : P = SUBSET S
  OBVIOUS
<1>5. /\ \A s \in P : size[s] \in Nat
      /\ \A s \in P : (\A t \in P : size[t] < size[s] => t \in D) => s \in D
  BY <1>2, <1>3, <1>4
<1>6. P \subseteq D
  BY <1>5, LevelInduction
<1>. QED
  BY <1>4, <1>6

(* The weights val[x] for x in s, and base. *)
Weights(val, s, base) == {val[x] : x \in s} \cup {base}

IsNext(kind, val, iter, s, x) ==
  \/ iter[s] = Glb(kind, val[x], iter[s \ {x}])
  \/ iter[s] = Glb(kind, iter[s \ {x}], val[x])

(* A fold of the greatest lower bound yields the greatest lower bound. *)
LEMMA FoldOfGlb ==
  ASSUME GlbIsMeet, NEW kind \in Kind, NEW S, IsFiniteSet(S),
         NEW val, \A x \in S : val[x] \in Carrier(kind), NEW base \in Carrier(kind),
         NEW iter, iter[{}] = base,
         \A s \in SUBSET S : s # {} => \E x \in s : IsNext(kind, val, iter, s, x)
  PROVE  \A s \in SUBSET S : IsGlb(kind, Weights(val, s, base), iter[s])
<1>1. PICK D : D = {s \in SUBSET S : IsGlb(kind, Weights(val, s, base), iter[s])}
  OBVIOUS
<1>2. {} \in D
  BY <1>1, GlbOfOne DEF Weights
<1>3. ASSUME NEW s \in SUBSET S, s # {}, \A x \in s : s \ {x} \in D
      PROVE  s \in D
  <2>1. PICK x \in s : IsNext(kind, val, iter, s, x)
    BY <1>3
  <2>2. PICK A, g : A = Weights(val, s \ {x}, base) /\ g = iter[s \ {x}]
    OBVIOUS
  <2>3. IsGlb(kind, A, g) /\ val[x] \in Carrier(kind) /\ A \subseteq Carrier(kind)
    BY <1>1, <1>3, <2>2 DEF Weights
  <2>4. iter[s] = Glb(kind, val[x], g) \/ iter[s] = Glb(kind, g, val[x])
    BY <2>1, <2>2 DEF IsNext
  <2>5. Weights(val, s, base) = A \cup {val[x]}
    BY <2>2 DEF Weights
  <2>6. IsGlb(kind, A \cup {val[x]}, iter[s])
    BY <2>3, <2>4, GlbOfMore
  <2>. QED
    BY <1>1, <2>5, <2>6
<1>4. SUBSET S \subseteq D
  BY <1>2, <1>3, SubsetInduction
<1>. QED
  BY <1>1, <1>4

(* Finitely many weights have a greatest lower bound. *)
LEMMA GlbExists ==
  ASSUME GlbIsMeet, NEW kind \in Kind, NEW S, IsFiniteSet(S),
         NEW val, \A x \in S : val[x] \in Carrier(kind), NEW base \in Carrier(kind)
  PROVE  \A s \in SUBSET S : \E g : IsGlb(kind, Weights(val, s, base), g)
<1>1. PICK D : D = {s \in SUBSET S : \E g : IsGlb(kind, Weights(val, s, base), g)}
  OBVIOUS
<1>2. {} \in D
  BY <1>1, GlbOfOne DEF Weights
<1>3. ASSUME NEW s \in SUBSET S, s # {}, \A x \in s : s \ {x} \in D
      PROVE  s \in D
  <2>1. PICK x \in s : TRUE
    BY <1>3
  <2>2. PICK A : A = Weights(val, s \ {x}, base)
    OBVIOUS
  <2>3. PICK g : IsGlb(kind, A, g)
    BY <1>1, <1>3, <2>2
  <2>4. val[x] \in Carrier(kind) /\ A \subseteq Carrier(kind)
    BY <2>2 DEF Weights
  <2>5. Weights(val, s, base) = A \cup {val[x]}
    BY <2>2 DEF Weights
  <2>6. IsGlb(kind, A \cup {val[x]}, Glb(kind, val[x], g))
    BY <2>3, <2>4, GlbOfMore
  <2>. QED
    BY <1>1, <2>5, <2>6
<1>. QED
  BY <1>1, <1>2, <1>3, SubsetInduction

(* The recursion of such a fold has a solution, whichever element it       *)
(* takes next.                                                             *)
IsFold(kind, S, val, base, iter) ==
  /\ iter = [s \in SUBSET S |-> iter[s]]
  /\ iter[{}] = base
  /\ \A s \in SUBSET S : \A x \in s : /\ iter[s] = Glb(kind, val[x], iter[s \ {x}])
                                      /\ iter[s] = Glb(kind, iter[s \ {x}], val[x])

LEMMA FoldExists ==
  ASSUME GlbIsMeet, NEW kind \in Kind, NEW S, IsFiniteSet(S),
         NEW val, \A x \in S : val[x] \in Carrier(kind), NEW base \in Carrier(kind)
  PROVE  \E iter : IsFold(kind, S, val, base, iter)
<1>1. PICK iter : iter = [s \in SUBSET S |-> CHOOSE g : IsGlb(kind, Weights(val, s, base), g)]
  OBVIOUS
<1>2. \A s \in SUBSET S : IsGlb(kind, Weights(val, s, base), iter[s])
  <2> SUFFICES ASSUME NEW s \in SUBSET S
               PROVE  IsGlb(kind, Weights(val, s, base), iter[s])
    OBVIOUS
  <2>1. \E g : IsGlb(kind, Weights(val, s, base), g)
    BY GlbExists
  <2>2. iter[s] = CHOOSE g : IsGlb(kind, Weights(val, s, base), g)
    BY <1>1
  <2>. QED
    BY <2>1, <2>2
<1>3. iter[{}] = base
  <2>1. Weights(val, {}, base) = {base}
    BY DEF Weights
  <2>. QED
    BY <1>2, <2>1, GlbOfOne, GlbIsUnique
<1>4. ASSUME NEW s \in SUBSET S, NEW x \in s
      PROVE  iter[s] = Glb(kind, val[x], iter[s \ {x}]) /\ iter[s] = Glb(kind, iter[s \ {x}], val[x])
  <2>1. PICK A, g : A = Weights(val, s \ {x}, base) /\ g = iter[s \ {x}]
    OBVIOUS
  <2>2. IsGlb(kind, A, g) /\ A \subseteq Carrier(kind) /\ val[x] \in Carrier(kind)
    BY <1>2, <2>1 DEF Weights
  <2>3. Weights(val, s, base) = A \cup {val[x]}
    BY <2>1 DEF Weights
  <2>4. IsGlb(kind, A \cup {val[x]}, iter[s])
    BY <1>2, <2>3
  <2>5. IsGlb(kind, A \cup {val[x]}, Glb(kind, val[x], g)) /\ IsGlb(kind, A \cup {val[x]}, Glb(kind, g, val[x]))
    BY <2>2, GlbOfMore
  <2>. QED
    BY <2>1, <2>4, <2>5, GlbIsUnique
<1>5. iter = [s \in SUBSET S |-> iter[s]]
  BY <1>1
<1>6. IsFold(kind, S, val, base, iter)
  BY <1>3, <1>4, <1>5 DEF IsFold
<1>. QED
  BY <1>6

(* FoldSet of the greatest lower bound, over a set that holds the base. *)
LEMMA FoldSetIsGlb ==
  ASSUME GlbIsMeet, NEW kind \in Kind, NEW A, IsFiniteSet(A), A \subseteq Carrier(kind), NEW base \in A
  PROVE  IsGlb(kind, A, FoldSet(LAMBDA a, b : Glb(kind, a, b), base, A))
<1> DEFINE first(s) == CHOOSE x \in s : TRUE
           P(f) == f = [s \in SUBSET A |->
                          IF s = {} THEN base
                          ELSE Glb(kind, CHOOSE x \in s : TRUE, f[s \ {CHOOSE x \in s : TRUE}])]
<1>1. PICK iter : iter = (CHOOSE f : P(f)) /\ FoldSet(LAMBDA a, b : Glb(kind, a, b), base, A) = iter[A]
  BY DEF FoldSet, MapThenFoldSet
<1>2. PICK val : val = [x \in A |-> x]
  OBVIOUS
<1>3. \A s \in SUBSET A : s # {} => first(s) \in s
  OBVIOUS
<1>4. P(iter)
  <2>1. base \in Carrier(kind) /\ \A x \in A : val[x] \in Carrier(kind)
    BY <1>2
  <2>2. PICK f : IsFold(kind, A, val, base, f)
    BY <2>1, FoldExists
  <2>3. \A s \in SUBSET A : f[s] = IF s = {} THEN base ELSE Glb(kind, first(s), f[s \ {first(s)}])
    BY <1>2, <1>3, <2>2 DEF IsFold
  <2>4. P(f)
    BY <2>2, <2>3 DEF IsFold
  <2> HIDE DEF P
  <2>. QED
    BY <1>1, <2>4
<1>5. iter[{}] = base
  BY <1>4
<1>6. \A s \in SUBSET A : s # {} => \E x \in s : IsNext(kind, val, iter, s, x)
  <2> SUFFICES ASSUME NEW s \in SUBSET A, s # {}
               PROVE  \E x \in s : IsNext(kind, val, iter, s, x)
    OBVIOUS
  <2>1. PICK x : x = first(s) /\ x \in s
    BY <1>3
  <2>2. iter[s] = Glb(kind, x, iter[s \ {x}])
    BY <1>4, <2>1
  <2>. QED
    BY <1>2, <2>1, <2>2 DEF IsNext
<1>7. IsGlb(kind, Weights(val, A, base), iter[A])
  BY <1>2, <1>5, <1>6, FoldOfGlb
<1>8. Weights(val, A, base) = A
  BY <1>2 DEF Weights
<1>. QED
  BY <1>1, <1>7, <1>8

(* A finite set of integers, not empty, has a greatest element. *)
LEMMA GreatestOfInterval ==
  ASSUME NEW n \in Nat, NEW s \in SUBSET (1 .. n), s # {}
  PROVE  \E x \in s : \A y \in s : x >= y
<1>1. PICK T : T = {n - x : x \in s}
  OBVIOUS
<1>2. T \subseteq Nat /\ T # {}
  <2>1. \A x \in s : x \in 1 .. n /\ n - x \in Nat
    OBVIOUS
  <2>. QED
    BY <1>1, <2>1
<1>3. PICK t \in T : \A u \in T : t <= u
  BY <1>2, LeastNatural
<1>4. PICK x \in s : t = n - x
  BY <1>1
<1>5. \A y \in s : n - y \in T
  BY <1>1
<1>. QED
  BY <1>3, <1>4, <1>5

(* greatest_lower_bound over the weights of some edges. *)
LEMMA GlbAllIsGlb ==
  ASSUME GlbIsMeet, NEW kind \in Kind, NEW d \in Nat \ {0}, NEW ws \in [1 .. d -> Carrier(kind)]
  PROVE  IsGlb(kind, {ws[i] : i \in 1 .. d}, GlbAll(kind, ws))
<1>1. PICK rest, n, base : rest = Tail(ws) /\ n = d - 1 /\ base = Head(ws)
  OBVIOUS
<1>2. ws \in Seq(Carrier(kind)) /\ Len(ws) = d
  OBVIOUS
<1>3. /\ n \in Nat /\ DOMAIN rest = 1 .. n /\ base = ws[1] /\ base \in Carrier(kind)
      /\ \A i \in 1 .. n : rest[i] = ws[i + 1] /\ rest[i] \in Carrier(kind)
  BY <1>1, <1>2
<1> DEFINE P(f) == f = [s \in SUBSET DOMAIN rest |->
                          IF s = {} THEN base ELSE Glb(kind, f[s \ {Max(s)}], rest[Max(s)])]
<1>4. PICK iter : iter = (CHOOSE f : P(f)) /\ GlbAll(kind, ws) = iter[DOMAIN rest]
  BY <1>1 DEF GlbAll, FoldLeft, MapThenFoldSet
<1>5. \A s \in SUBSET (1 .. n) : s # {} => Max(s) \in s
  <2> SUFFICES ASSUME NEW s \in SUBSET (1 .. n), s # {}
               PROVE  Max(s) \in s
    OBVIOUS
  <2>1. \E x \in s : \A y \in s : x >= y
    BY <1>3, GreatestOfInterval
  <2>. QED
    BY <2>1 DEF Max
<1>6. IsFiniteSet(1 .. n)
  BY <1>3, FS_Interval
<1>7. P(iter)
  <2>1. PICK S : S = 1 .. n
    OBVIOUS
  <2>2. \A x \in S : rest[x] \in Carrier(kind)
    BY <1>3, <2>1
  <2>3. PICK f : IsFold(kind, S, rest, base, f)
    BY <1>3, <1>6, <2>1, <2>2, FoldExists
  <2>4. \A s \in SUBSET S : f[s] = IF s = {} THEN base ELSE Glb(kind, f[s \ {Max(s)}], rest[Max(s)])
    BY <1>5, <2>1, <2>3 DEF IsFold
  <2>5. P(f)
    BY <1>3, <2>1, <2>3, <2>4 DEF IsFold
  <2> HIDE DEF P
  <2>. QED
    BY <1>4, <2>5
<1>8. iter[{}] = base
  BY <1>7
<1>9. \A s \in SUBSET (1 .. n) : s # {} => \E x \in s : IsNext(kind, rest, iter, s, x)
  <2> SUFFICES ASSUME NEW s \in SUBSET (1 .. n), s # {}
               PROVE  \E x \in s : IsNext(kind, rest, iter, s, x)
    OBVIOUS
  <2>1. PICK x : x = Max(s) /\ x \in s
    BY <1>5
  <2>2. iter[s] = Glb(kind, iter[s \ {x}], rest[x])
    BY <1>3, <1>7, <2>1
  <2>. QED
    BY <2>1, <2>2 DEF IsNext
<1>10. IsGlb(kind, Weights(rest, 1 .. n, base), iter[1 .. n])
  BY <1>3, <1>6, <1>8, <1>9, FoldOfGlb
<1>11. Weights(rest, 1 .. n, base) = {ws[i] : i \in 1 .. d}
  <2>1. \A i \in 1 .. d : i = 1 \/ (i - 1 \in 1 .. n /\ ws[i] = rest[i - 1])
    BY <1>1, <1>3
  <2>2. \A i \in 1 .. n : i + 1 \in 1 .. d /\ rest[i] = ws[i + 1]
    BY <1>1, <1>3
  <2>. QED
    BY <1>3, <2>1, <2>2 DEF Weights
<1>. QED
  BY <1>3, <1>4, <1>10, <1>11

(* There are finitely many states. *)
LEMMA StatesFinite == IsFiniteSet(State)
<1>1. PICK sizes, value : sizes = {1 .. DomainSize[v] : v \in Level} /\ value = UNION sizes
  OBVIOUS
<1>2. IsFiniteSet(Level)
  BY DomainSizes, FS_Interval DEF Level
<1>3. IsFiniteSet(value)
  <2>1. PICK f : f = [v \in Level |-> 1 .. DomainSize[v]]
    OBVIOUS
  <2>2. f \in Surjection(Level, sizes)
    BY <1>1, <2>1 DEF Surjection
  <2>3. IsFiniteSet(sizes)
    BY <1>2, <2>2, FS_Surjection
  <2>4. ASSUME NEW T \in sizes
        PROVE  IsFiniteSet(T)
    BY <1>1, DomainSizes, FS_Interval
  <2>. QED
    BY <1>1, <2>3, <2>4, FS_UNION
<1>4. PICK graph, T : /\ graph = [s \in State |-> {<<v, s[v]>> : v \in Level}]
                      /\ T = SUBSET (Level \X value)
  OBVIOUS
<1>5. IsFiniteSet(T)
  BY <1>2, <1>3, <1>4, FS_Product, FS_SUBSET
<1>6. graph \in Injection(State, T)
  <2>1. ASSUME NEW s \in State
        PROVE  graph[s] \in T
    <3>1. \A v \in Level : s[v] \in 1 .. DomainSize[v]
      BY States
    <3>2. \A v \in Level : <<v, s[v]>> \in Level \X value
      BY <1>1, <3>1
    <3>. QED
      BY <1>4, <3>2
  <2>2. ASSUME NEW s \in State, NEW t \in State, graph[s] = graph[t]
        PROVE  s = t
    <3>1. ASSUME NEW v \in Level
          PROVE  s[v] = t[v]
      <4>1. <<v, s[v]>> \in graph[t]
        BY <1>4, <2>2
      <4>2. PICK u \in Level : <<v, s[v]>> = <<u, t[u]>>
        BY <1>4, <4>1
      <4>. QED
        BY <4>2
    <3>. QED
      BY <3>1 DEF State
  <2>3. graph \in [State -> T]
    BY <1>4, <2>1
  <2>. QED
    BY <2>2, <2>3 DEF Injection, IsInjective
<1>. QED
  BY <1>5, <1>6, FS_Injection

----------------------------------------------------------------------------
(* Diagrams whose input is the greatest lower bound of their values. *)

(* The values of a diagram on all states. *)
ValuesOn(e) == {Value(s)[e] : s \in State}

(* The input of a diagram is the greatest lower bound of its values. *)
Minimal(e) == IsGlb(e.src.kind, ValuesOn(e), e.input)

(* It is so of what the cache holds and of what running calls have computed. *)
MinimalResults ==
  /\ \A entry \in DOMAIN evmdd_cache : Minimal(evmdd_cache[entry])
  /\ \A i \in 1 .. Len(stack) : \A j \in 1 .. Len(stack[i].done) : Minimal(stack[i].done[j])

MinimumInv == RefinementInv /\ MinimalResults

LEMMA SomeState == State # {}
<1>1. [v \in Level |-> 1] \in State
  BY DomainSizes DEF State
<1>. QED
  BY <1>1

LEMMA ValuesOfTerminal ==
  ASSUME HeapOK, ValueExists, NEW e \in Evmdd, IsTerminal(e.src)
  PROVE  ValuesOn(e) = {e.input}
<1>1. ASSUME NEW s \in State
      PROVE  Value(s)[e] = e.input
  <2>1. IsValue(Value(s), s)
    BY ValueIsValue
  <2>. QED
    BY <2>1 DEF IsValue, StepValue
<1>. QED
  BY <1>1, SomeState DEF ValuesOn

LEMMA TerminalIsMinimal ==
  ASSUME GlbIsMeet, HeapOK, ValueExists, NEW e \in Evmdd, IsTerminal(e.src)
  PROVE  Minimal(e)
<1>1. PICK kind \in Kind : e \in EvmddOf(kind)
  BY SomeKind
<1>2. e.src.kind = kind /\ e.input \in Carrier(kind)
  BY <1>1, Fields
<1>. QED
  BY <1>2, ValuesOfTerminal, GlbOfOne DEF Minimal

LEMMA ValuesOnOld ==
  ASSUME HeapGrows, ValueExists, ValueExists', ValuesDetermined, NEW e \in Evmdd
  PROVE  ValuesOn(e)' = ValuesOn(e)
<1>1. \A s \in State : Value(s)'[e] = Value(s)[e]
  BY OldValues
<1>. QED
  BY <1>1, SameStates DEF ValuesOn

LEMMA MinimalStable ==
  ASSUME HeapGrows, ValueExists, ValueExists', ValuesDetermined, NEW e \in Evmdd, Minimal(e)
  PROVE  Minimal(e)'
BY ValuesOnOld DEF Minimal

(* The values of what create_evmdd makes are those of the children. *)
LEMMA ValuesOfCreated ==
  ASSUME HeapOK, StoreInv, ValueExists, ValueExists', ValuesDetermined, HashIsInjective,
         NEW f \in DOMAIN factories, NEW level \in Level, NEW kind, kind = factories[f],
         NEW children \in Offspring(kind, level),
         CreateEvmdd(f, level, children), UNCHANGED factories,
         NEW e, e = Created(f, level, children)
  PROVE  ValuesOn(e)' = UNION {ValuesOn(children[i]) : i \in 1 .. DomainSize[level]}
<1>1. kind \in Kind /\ \A i \in 1 .. DomainSize[level] :
        children[i] \in EvmddOf(kind) /\ children[i] \in Evmdd /\ LevelOf(children[i]) < level
  BY Fields DEF HeapOK, Offspring
<1>2. /\ HeapGrows
      /\ \A s \in State : \A V : IsValue(V, s)' => V[e] = V[children[s[level]]]
  BY Create
<1>3. ASSUME NEW s \in State
      PROVE  /\ s[level] \in 1 .. DomainSize[level]
             /\ Value(s)'[e] = Value(s)[children[s[level]]]
  <2>1. s[level] \in 1 .. DomainSize[level]
    BY States
  <2>2. PICK W : W = Value(s)'
    OBVIOUS
  <2>3. IsValue(W, s)'
    BY <2>2, NewValueIsValue
  <2>4. W[e] = W[children[s[level]]]
    BY <1>2, <2>3
  <2>5. Value(s)'[children[s[level]]] = Value(s)[children[s[level]]]
    BY <1>1, <1>2, <2>1, OldValues
  <2>. QED
    BY <2>1, <2>2, <2>4, <2>5
<1>4. ValuesOn(e)' = {Value(s)[children[s[level]]] : s \in State}
  <2>1. ValuesOn(e)' = {Value(s)'[e] : s \in State}
    BY SameStates DEF ValuesOn
  <2>. QED
    BY <1>3, <2>1
<1>5. ASSUME NEW i \in 1 .. DomainSize[level], NEW s \in State
      PROVE  \E t \in State : Value(t)[children[t[level]]] = Value(s)[children[i]]
  <2>1. PICK t \in State :
          /\ t[level] = i
          /\ \A d \in Evmdd : LevelOf(d) < level => Value(t)[d] = Value(s)[d]
    BY Set
  <2>. QED
    BY <1>1, <2>1
<1>6. PICK A, B : A = ValuesOn(e)' /\ B = UNION {ValuesOn(children[i]) : i \in 1 .. DomainSize[level]}
  OBVIOUS
<1>7. ASSUME NEW x \in A
      PROVE  x \in B
  <2>1. PICK s \in State : x = Value(s)[children[s[level]]]
    BY <1>4, <1>6
  <2>2. x \in ValuesOn(children[s[level]]) /\ s[level] \in 1 .. DomainSize[level]
    BY <1>3, <2>1 DEF ValuesOn
  <2>. QED
    BY <1>6, <2>2
<1>8. ASSUME NEW x \in B
      PROVE  x \in A
  <2>1. PICK i \in 1 .. DomainSize[level] : x \in ValuesOn(children[i])
    BY <1>6
  <2>2. PICK s \in State : x = Value(s)[children[i]]
    BY <2>1 DEF ValuesOn
  <2>. QED
    BY <1>4, <1>5, <1>6, <2>2
<1>. QED
  BY <1>6, <1>7, <1>8

(* create_evmdd of children whose inputs are minimal returns such a diagram. *)
LEMMA CreatedIsMinimal ==
  ASSUME GlbIsMeet,
         HeapOK, StoreInv, ValueExists, ValueExists', ValuesDetermined, HashIsInjective,
         NEW f \in DOMAIN factories, NEW level \in Level, NEW kind, kind = factories[f],
         NEW children \in Offspring(kind, level),
         CreateEvmdd(f, level, children), UNCHANGED factories,
         NEW e, e = Created(f, level, children),
         \A i \in 1 .. DomainSize[level] : Minimal(children[i])
  PROVE  Minimal(e)'
<1>1. /\ kind \in Kind
      /\ DomainSize[level] \in Nat \ {0} /\ DOMAIN children = 1 .. DomainSize[level]
      /\ \A i \in 1 .. DomainSize[level] :
           /\ children[i] \in EvmddOf(kind) /\ children[i] \in Evmdd
           /\ children[i].src.kind = kind /\ children[i].input \in Carrier(kind)
  BY Fields, DomainSizes DEF HeapOK, Offspring
<1>2. HeapGrows /\ e \in EvmddOf(kind)'
  BY Create
<1>3. CASE AllEqual(children)
  <2>1. e = children[1] /\ 1 \in 1 .. DomainSize[level]
    BY <1>1, <1>3 DEF Created
  <2>. QED
    BY <1>1, <1>2, <2>1, MinimalStable
<1>4. CASE ~ AllEqual(children)
  <2>1. PICK I, B, m : /\ I = 1 .. DomainSize[level]
                       /\ B = [i \in I |-> ValuesOn(children[i])]
                       /\ m = [i \in I |-> children[i].input]
    OBVIOUS
  <2>2. e.input = GlbAll(kind, m) /\ m \in [1 .. DomainSize[level] -> Carrier(kind)]
    <3>1. e.input = MinWeight(kind, children)
      BY <1>4 DEF Created
    <3>2. MinWeight(kind, children) = GlbAll(kind, m)
      BY <1>1, <2>1 DEF MinWeight
    <3>. QED
      BY <1>1, <2>1, <3>1, <3>2
  <2>3. IsGlb(kind, {m[i] : i \in I}, e.input)
    BY <1>1, <2>1, <2>2, GlbAllIsGlb
  <2>4. ASSUME NEW i \in I
        PROVE  B[i] \subseteq Carrier(kind) /\ IsGlb(kind, B[i], m[i])
    <3>1. B[i] = ValuesOn(children[i]) /\ m[i] = children[i].input /\ i \in 1 .. DomainSize[level]
      BY <2>1
    <3>2. \A s \in State : Value(s)[children[i]] \in Carrier(kind)
      BY <1>1, <3>1, ValuesTyped
    <3>. QED
      BY <1>1, <3>1, <3>2 DEF Minimal, ValuesOn
  <2>5. IsGlb(kind, UNION {B[i] : i \in I}, e.input)
    <3>1. PICK g : g = e.input
      OBVIOUS
    <3>2. IsGlb(kind, ImageOf(I, m), g)
      BY <2>3, <3>1 DEF ImageOf
    <3>3. \A i \in I : B[i] \subseteq Carrier(kind) /\ IsGlb(kind, B[i], m[i])
      BY <2>4
    <3>4. IsGlb(kind, UnionOf(I, B), g)
      BY <1>1, <3>2, <3>3, GlbOfUnion
    <3>. QED
      BY <3>1, <3>4 DEF UnionOf
  <2>6. UNION {B[i] : i \in I} = UNION {ValuesOn(children[i]) : i \in 1 .. DomainSize[level]}
    BY <2>1
  <2>7. ValuesOn(e)' = UNION {B[i] : i \in I}
    BY <2>6, ValuesOfCreated
  <2>8. e.src.kind = kind
    BY <1>2 DEF EvmddOf
  <2>. QED
    BY <2>5, <2>7, <2>8 DEF Minimal
<1>. QED
  BY <1>3, <1>4

----------------------------------------------------------------------------
(* Steps. *)

(* What the cache and the running calls hold are diagrams. *)
LEMMA ResultsAreDiagrams ==
  ASSUME Invariant
  PROVE  /\ \A entry \in DOMAIN evmdd_cache : evmdd_cache[entry] \in Evmdd
         /\ \A i \in 1 .. Len(stack) : \A j \in 1 .. Len(stack[i].done) : stack[i].done[j] \in Evmdd
<1>1. ASSUME NEW entry \in DOMAIN evmdd_cache
      PROVE  evmdd_cache[entry] \in Evmdd
  BY OpAssumption, Fields DEF Invariant, CacheInv, Answer
<1>2. ASSUME NEW i \in 1 .. Len(stack), NEW j \in 1 .. Len(stack[i].done)
      PROVE  stack[i].done[j] \in Evmdd
  <2>1. ~ Idle
    BY DEF Idle
  <2>2. call.op \in Op /\ FrameInv(stack[i], call.op)
    BY <2>1, StackTypes DEF Invariant, StackInv
  <2>3. Answer(stack[i].done[j], call.op, sub_evmdds(stack[i].l, stack[i].r)[j],
                                          sub_evmdds(stack[i].r, stack[i].l)[j])
    BY <2>2 DEF FrameInv
  <2>. QED
    BY <2>2, <2>3, OpAssumption, Fields DEF Answer
<1>. QED
  BY <1>1, <1>2

LEMMA MinimumIsKept ==
  ASSUME MinimumInv, RefinementInv', HeapGrows,
         NEW S, \A e \in S : Minimal(e)',
         \A entry \in DOMAIN evmdd_cache' :
            \/ evmdd_cache'[entry] \in S
            \/ entry \in DOMAIN evmdd_cache /\ evmdd_cache'[entry] = evmdd_cache[entry],
         \A i \in 1 .. Len(stack') : \A j \in 1 .. Len(stack'[i].done) :
            \/ stack'[i].done[j] \in S
            \/ /\ i \in 1 .. Len(stack) /\ j \in 1 .. Len(stack[i].done)
               /\ stack'[i].done[j] = stack[i].done[j]
  PROVE  MinimumInv'
<1>1. Invariant /\ ValueExists /\ ValueExists' /\ ValuesDetermined
  BY DEF MinimumInv, RefinementInv, Invariant
<1>2. ASSUME NEW e, e \in S \/ (e \in Evmdd /\ Minimal(e))
      PROVE  Minimal(e)'
  BY <1>1, <1>2, MinimalStable
<1>3. ASSUME NEW entry \in DOMAIN evmdd_cache'
      PROVE  \A e : e = evmdd_cache'[entry] => Minimal(e)'
  BY <1>1, <1>2, ResultsAreDiagrams DEF MinimumInv, MinimalResults
<1>4. ASSUME NEW i \in 1 .. Len(stack'), NEW j \in 1 .. Len(stack'[i].done)
      PROVE  \A e : e = stack'[i].done[j] => Minimal(e)'
  BY <1>1, <1>2, ResultsAreDiagrams DEF MinimumInv, MinimalResults
<1>5. MinimalResults'
  BY <1>3, <1>4 DEF MinimalResults, Minimal, ValuesOn
<1>. QED
  BY <1>5 DEF MinimumInv

(* A diagram is returned that the cache holds, or has a minimal input. *)
LEMMA ReturnKeepsMinimum ==
  ASSUME MinimumInv, RefinementInv', HeapGrows, ~ Idle,
         NEW result, Return(result), Minimal(result)',
         \A entry \in DOMAIN evmdd_cache' :
            \/ evmdd_cache'[entry] = result
            \/ entry \in DOMAIN evmdd_cache /\ evmdd_cache'[entry] = evmdd_cache[entry]
  PROVE  MinimumInv'
<1>1. PICK S : S = {result}
  OBVIOUS
<1>2. \A i \in 1 .. Len(stack') : \A j \in 1 .. Len(stack'[i].done) :
        \/ stack'[i].done[j] \in S
        \/ /\ i \in 1 .. Len(stack) /\ j \in 1 .. Len(stack[i].done)
           /\ stack'[i].done[j] = stack[i].done[j]
  BY <1>1, DoneAfterReturn DEF MinimumInv, RefinementInv
<1>3. \A e \in S : Minimal(e)'
  BY <1>1
<1>. QED
  BY <1>1, <1>2, <1>3, MinimumIsKept

LEMMA TerminalCaseKeepsMinimum ==
  ASSUME GlbIsMeet, MinimumInv, RefinementInv', HeapGrows, TerminalCase
  PROVE  MinimumInv'
<1>1. PICK op, result :
        /\ op = call.op
        /\ result = [src |-> TerminalOf(call.fac), input |-> OpFun(op, Top.l.input, Top.r.input)]
  OBVIOUS
<1>2. /\ ~ Idle /\ Return(result) /\ OpDefined(op, Top.l.input, Top.r.input)
      /\ UNCHANGED evmdd_cache
  BY <1>1 DEF TerminalCase
<1>3. HeapOK /\ StoreInv /\ CallOK /\ ValueExists /\ ValueExists' /\ ValuesDetermined
  BY DEF MinimumInv, RefinementInv, Invariant
<1>4. /\ op \in Op /\ call.fac \in DOMAIN factories /\ factories[call.fac] = OpResult(op)
      /\ Top \in Activation(op)
  BY <1>1, <1>2, <1>3, StackTypes
<1>5. Top.l \in EvmddOf(OpLeft(op)) /\ Top.r \in EvmddOf(OpRight(op))
  BY <1>4, FrameTypes
<1>6. OpLeft(op) \in Kind /\ OpRight(op) \in Kind /\ OpResult(op) \in Kind
  BY <1>4, OpAssumption
<1>7. Top.l.input \in Carrier(OpLeft(op)) /\ Top.r.input \in Carrier(OpRight(op))
  BY <1>5, <1>6, Fields
<1>8. result.input \in Carrier(OpResult(op))
  BY <1>1, <1>2, <1>4, <1>7, OpAssumption
<1>9. result \in EvmddOf(OpResult(op)) /\ IsTerminal(result.src)
  BY <1>1, <1>3, <1>4, <1>8, TerminalStored DEF EvmddOf
<1>10. result \in Evmdd
  BY <1>6, <1>9, Fields
<1>11. Minimal(result)'
  BY <1>3, <1>9, <1>10, TerminalIsMinimal, MinimalStable
<1>. QED
  BY <1>2, <1>11, ReturnKeepsMinimum

LEMMA CacheHitKeepsMinimum ==
  ASSUME MinimumInv, RefinementInv', HeapGrows, CacheHit
  PROVE  MinimumInv'
<1>1. PICK key, result : key = CacheKey /\ result = evmdd_cache[key]
  OBVIOUS
<1>2. ~ Idle /\ Return(result) /\ UNCHANGED evmdd_cache /\ key \in DOMAIN evmdd_cache
  BY <1>1 DEF CacheHit
<1>3. result \in Evmdd /\ Minimal(result)
  BY <1>1, <1>2, ResultsAreDiagrams DEF MinimumInv, MinimalResults, RefinementInv
<1>4. ValueExists /\ ValueExists' /\ ValuesDetermined
  BY DEF MinimumInv, RefinementInv, Invariant
<1>5. Minimal(result)'
  BY <1>3, <1>4, MinimalStable
<1>. QED
  BY <1>2, <1>5, ReturnKeepsMinimum

LEMMA CombineKeepsMinimum ==
  ASSUME GlbIsMeet, HashIsInjective, MinimumInv, RefinementInv', HeapGrows, Combine
  PROVE  MinimumInv'
<1>1. PICK op, f, fr, level, kind, result, key :
        /\ op = call.op /\ f = call.fac /\ fr = Top /\ level = RootLevel(fr.l, fr.r)
        /\ kind = OpResult(op) /\ result = Created(f, level, fr.done) /\ key = CacheKey
  OBVIOUS
<1>2. /\ ~ Idle /\ fr.pc = "children" /\ Len(fr.done) = Len(sub_evmdds(fr.l, fr.r))
      /\ CreateEvmdd(f, level, fr.done) /\ evmdd_cache' = Put(evmdd_cache, key, result)
      /\ Return(result) /\ UNCHANGED factories
  BY <1>1 DEF Combine
<1>3. HeapOK /\ StoreInv /\ ValueExists /\ ValueExists' /\ ValuesDetermined /\ CallOK /\ StackInv
  BY DEF MinimumInv, RefinementInv, Invariant
<1>4. /\ op \in Op /\ f \in DOMAIN factories /\ factories[f] = kind
      /\ Len(stack) \in 1 .. Len(stack) /\ fr = stack[Len(stack)]
  BY <1>1, <1>2, <1>3, StackTypes
<1>5. FrameInv(fr, op)
  BY <1>1, <1>3, <1>4 DEF StackInv
<1>6. level \in Level /\ fr.done \in Offspring(kind, level)
  BY <1>1, <1>2, <1>3, <1>4, <1>5, AllDone
<1>7. \A i \in 1 .. DomainSize[level] : Minimal(fr.done[i])
  <2>1. DomainSize[level] \in Nat \ {0} /\ DOMAIN fr.done = 1 .. DomainSize[level]
    BY <1>6, DomainSizes DEF Offspring
  <2>2. Len(fr.done) = DomainSize[level]
    BY <2>1
  <2>. QED
    BY <1>4, <2>2 DEF MinimumInv, MinimalResults
<1>8. Minimal(result)'
  BY <1>1, <1>2, <1>3, <1>4, <1>6, <1>7, CreatedIsMinimal
<1>9. \A entry \in DOMAIN evmdd_cache' :
        \/ evmdd_cache'[entry] = result
        \/ entry \in DOMAIN evmdd_cache /\ evmdd_cache'[entry] = evmdd_cache[entry]
  BY <1>2 DEF Put
<1>. QED
  BY <1>2, <1>8, <1>9, ReturnKeepsMinimum

(* Steps that return no diagram. *)
LEMMA OthersKeepMinimum ==
  ASSUME MinimumInv, RefinementInv', HeapGrows, UNCHANGED evmdd_cache,
         \A i \in 1 .. Len(stack') :
            stack'[i].done = <<>> \/ (i \in 1 .. Len(stack) /\ stack'[i].done = stack[i].done)
  PROVE  MinimumInv'
<1>1. PICK S : S = {}
  OBVIOUS
<1>2. \A i \in 1 .. Len(stack') : \A j \in 1 .. Len(stack'[i].done) :
        \/ stack'[i].done[j] \in S
        \/ /\ i \in 1 .. Len(stack) /\ j \in 1 .. Len(stack[i].done)
           /\ stack'[i].done[j] = stack[i].done[j]
  OBVIOUS
<1>3. \A e \in S : Minimal(e)'
  BY <1>1
<1>. QED
  BY <1>1, <1>2, <1>3, MinimumIsKept

LEMMA MinimumInvIsKept ==
  ASSUME GlbIsMeet, HashIsInjective, OpTypesDistinct, MinimumInv, [Next]_vars
  PROVE  MinimumInv'
<1>1. RefinementInv' /\ HeapGrows
  BY RefinementInvIsKept DEF MinimumInv
<1>2. ASSUME UNCHANGED <<evmdd_cache, stack>>
      PROVE  MinimumInv'
  BY <1>1, <1>2, OthersKeepMinimum
<1>3. CASE UNCHANGED vars
  BY <1>2, <1>3 DEF vars
<1>4. CASE Client
  <2>1. ASSUME NEW op \in Op, NEW f \in Live, NEW l \in held, NEW r \in held, Apply(op, f, l, r)
        PROVE  MinimumInv'
    <3>1. UNCHANGED evmdd_cache /\ stack' = <<Frame(l, r)>>
      BY <2>1 DEF Apply
    <3>2. \A i \in 1 .. Len(stack') : stack'[i].done = <<>>
      BY <3>1 DEF Frame
    <3>. QED
      BY <1>1, <3>1, <3>2, OthersKeepMinimum
  <2>. QED
    BY <1>2, <1>4, <2>1 DEF Client, GetFactory, Reset, MakeConst, MakeVar
<1>5. CASE TerminalThrow
  <2>1. UNCHANGED evmdd_cache /\ Len(stack') = 0
    BY <1>5 DEF TerminalThrow
  <2>. QED
    BY <1>1, <2>1, OthersKeepMinimum
<1>6. CASE CacheMiss
  <2>1. PICK n, op : n = Len(stack) /\ op = call.op
    OBVIOUS
  <2>2. ~ Idle /\ stack' = [stack EXCEPT ![n].pc = "children"] /\ UNCHANGED evmdd_cache
    BY <1>6, <2>1 DEF CacheMiss
  <2>3. n \in Nat \ {0} /\ stack \in Seq(Activation(op)) /\ \A i \in 1 .. n : stack[i] \in Activation(op)
    BY <2>1, <2>2, StackTypes DEF MinimumInv, RefinementInv, Invariant
  <2>4. \A i \in 1 .. n : stack[i] = [l |-> stack[i].l, r |-> stack[i].r,
                                      pc |-> stack[i].pc, done |-> stack[i].done]
    BY <2>3, FrameTypes
  <2>5. Len(stack') = n /\ \A i \in 1 .. n : stack'[i].done = stack[i].done
    BY <2>1, <2>2, <2>3, <2>4
  <2>. QED
    BY <1>1, <2>1, <2>2, <2>5, OthersKeepMinimum
<1>7. CASE Recurse
  <2>1. PICK n, new : n = Len(stack) /\ new.done = <<>> /\ stack' = Append(stack, new)
    BY <1>7 DEF Recurse, Frame
  <2>2. ~ Idle /\ UNCHANGED evmdd_cache
    BY <1>7 DEF Recurse
  <2>3. n \in Nat \ {0} /\ stack \in Seq(Activation(call.op))
    BY <2>1, <2>2, StackTypes DEF MinimumInv, RefinementInv, Invariant
  <2>4. Len(stack') = n + 1 /\ stack'[n + 1] = new /\ \A i \in 1 .. n : stack'[i] = stack[i]
    BY <2>1, <2>3
  <2>5. \A i \in 1 .. n + 1 : i = n + 1 \/ i \in 1 .. n
    BY <2>3
  <2>. QED
    BY <1>1, <2>1, <2>2, <2>4, <2>5, OthersKeepMinimum
<1>8. CASE Step
  BY <1>1, <1>5, <1>6, <1>7, <1>8, TerminalCaseKeepsMinimum, CacheHitKeepsMinimum,
     CombineKeepsMinimum DEF Step
<1>. QED
  BY <1>3, <1>4, <1>8 DEF Next

LEMMA MinimumInvInitially ==
  ASSUME Init
  PROVE  MinimumInv
<1>1. DOMAIN evmdd_cache = {} /\ Len(stack) = 0
  BY DEF Init, Empty
<1>. QED
  BY <1>1, InitMaps DEF MinimumInv, MinimalResults

(* A set of weights has one greatest lower bound, and FoldSet finds it. *)
LEMMA MinimalInput ==
  ASSUME GlbIsMeet, HeapOK, ValueExists, NEW e \in Evmdd, Minimal(e), NEW values, values = ValuesOn(e)
  PROVE  e.input = FoldSet(LAMBDA a, b : Glb(e.src.kind, a, b), CHOOSE v \in values : TRUE, values)
<1>1. PICK kind \in Kind : e \in EvmddOf(kind)
  BY SomeKind
<1>2. e.src.kind = kind
  BY <1>1, Fields
<1>3. values \subseteq Carrier(kind) /\ values # {}
  <2>1. \A s \in State : Value(s)[e] \in Carrier(kind)
    BY <1>1, ValuesTyped
  <2>. QED
    BY <2>1, SomeState DEF ValuesOn
<1>4. IsFiniteSet(values)
  <2>1. PICK value : value = [s \in State |-> Value(s)[e]]
    OBVIOUS
  <2>2. value \in Surjection(State, values)
    BY <2>1 DEF ValuesOn, Surjection
  <2>. QED
    BY <2>2, StatesFinite, FS_Surjection
<1>5. (CHOOSE v \in values : TRUE) \in values
  BY <1>3
<1>6. IsGlb(e.src.kind, values,
            FoldSet(LAMBDA a, b : Glb(e.src.kind, a, b), CHOOSE v \in values : TRUE, values))
  BY <1>2, <1>3, <1>4, <1>5, FoldSetIsGlb
<1>. QED
  BY <1>2, <1>6, GlbIsUnique DEF Minimal

(* get_min of a result of apply is its least value: the input of the       *)
(* diagram is the greatest lower bound of its values on all states.        *)
THEOREM InputsAreMinimal ==
  ASSUME GlbIsMeet, HashIsInjective, OpTypesDistinct
  PROVE  Spec => []MinimumOfResults
<1>1. Init => MinimumInv
  BY MinimumInvInitially
<1>2. MinimumInv /\ [Next]_vars => MinimumInv'
  BY MinimumInvIsKept
<1>3. MinimumInv => MinimumOfResults
  <2> SUFFICES ASSUME MinimumInv, NEW e \in Results
               PROVE  e.input = FoldSet(LAMBDA a, b : Glb(e.src.kind, a, b),
                                        CHOOSE v \in {Value(s)[e] : s \in State} : TRUE,
                                        {Value(s)[e] : s \in State})
    BY DEF MinimumOfResults
  <2>1. HeapOK /\ ValueExists /\ Invariant /\ held \subseteq Evmdd
    BY DEF MinimumInv, RefinementInv, Invariant, ClientOK
  <2>2. e \in Evmdd /\ Minimal(e)
    BY <2>1, ResultsAreDiagrams, TerminalIsMinimal DEF Results, MinimumInv, MinimalResults
  <2>. QED
    BY <2>1, <2>2, MinimalInput DEF ValuesOn
<1>. QED
  BY <1>1, <1>2, <1>3, PTL DEF Spec
=============================================================================
