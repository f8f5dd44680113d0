-------------------------- MODULE InterpreterProofs --------------------------
(***************************************************************************)
(* Proofs about Interpreter, for every set of programs, every stack and    *)
(* call stack size and either interpreter.                                 *)
(***************************************************************************)
EXTENDS Interpreter, SequenceTheorems, TLAPS

-----------------------------------------------------------------------------
(***************************************************************************)
(* Values and outcomes.                                                    *)
(***************************************************************************)

(* What an instruction may leave: values and objects that refer to objects  *)
(* of the heap it leaves, which has lost none.                             *)
IsHeap(h) == h \in Seq(Object(Len(h)))
IsOutcome(o, h) == /\ o.ok \in BOOLEAN
                   /\ IsHeap(o.heap)
                   /\ Len(h) <= Len(o.heap)
                   /\ o.push \in Seq(Value(Len(o.heap)))

LEMMA SequenceElement ==
  ASSUME NEW S, NEW s \in Seq(S)
  PROVE  Len(s) \in Nat /\ \A k \in 1 .. Len(s) : s[k] \in S
OBVIOUS

LEMMA FrontOfSequence ==
  ASSUME NEW S, NEW s \in Seq(S), Len(s) # 0
  PROVE  LET t == SubSeq(s, 1, Len(s) - 1)
         IN  /\ t \in Seq(S)
             /\ Len(t) = Len(s) - 1
             /\ \A k \in 1 .. Len(t) : t[k] = s[k]
<1>1. /\ 1 \in Int /\ Len(s) - 1 \in Int /\ Len(s) - 1 >= 0
      /\ \A i \in 1 .. Len(s) - 1 : s[i] \in S
  OBVIOUS
<1> DEFINE n == Len(s) - 1
           t == SubSeq(s, 1, n)
<1> HIDE DEF n
<1>2. /\ t \in Seq(S)
      /\ Len(t) = IF 1 <= n THEN n - 1 + 1 ELSE 0
      /\ \A i \in 1 .. n - 1 + 1 : t[i] = s[1 + i - 1]
  BY <1>1, SubSeqProperties DEF n
<1>3. n \in Int /\ n >= 0
  BY <1>1 DEF n
<1> HIDE DEF t
<1>4. t \in Seq(S) /\ Len(t) = n
  BY <1>2, <1>3
<1>5. \A k \in 1 .. n : t[k] = s[k]
  <2> TAKE k \in 1 .. n
  <2>1. k \in 1 .. n - 1 + 1 /\ 1 + k - 1 = k
    BY <1>3
  <2> QED
    BY <1>2, <2>1
<1> QED
  BY <1>4, <1>5 DEF n, t

LEMMA ValueMonotone ==
  ASSUME NEW m \in Nat, NEW n \in Nat, m <= n
  PROVE  Value(m) \subseteq Value(n)
BY DEF Value

LEMMA ObjectMonotone ==
  ASSUME NEW m \in Nat, NEW n \in Nat, m <= n
  PROVE  Object(m) \subseteq Object(n)
<1>1. Seq(Value(m)) \subseteq Seq(Value(n))
  BY ValueMonotone
<1> QED
  BY <1>1 DEF Object

LEMMA RefusedOutcome ==
  ASSUME NEW h, IsHeap(h)
  PROVE  IsOutcome(Refused(h), h)
<1>1. Len(h) \in Nat
  BY DEF IsHeap
<1> QED
  BY <1>1 DEF IsOutcome, Refused, IsHeap

LEMMA PushesOutcome ==
  ASSUME NEW h, IsHeap(h), NEW vs \in Seq(Value(Len(h)))
  PROVE  IsOutcome(Pushes(vs, h), h)
<1>1. Len(h) \in Nat
  BY DEF IsHeap
<1> QED
  BY <1>1 DEF IsOutcome, Pushes

(* A new object may refer to itself.                                        *)
LEMMA AllocatesAny ==
  ASSUME NEW h, IsHeap(h), NEW o \in Object(Len(h) + 1)
  PROVE  IsOutcome(Allocates(o, h), h)
<1> DEFINE n == Len(h)
           g == Append(h, o)
<1>1. n \in Nat /\ h \in Seq(Object(n))
  BY DEF IsHeap
<1>2. Object(n) \subseteq Object(n + 1)
  BY <1>1, ObjectMonotone
<1>3. g \in Seq(Object(n + 1)) /\ Len(g) = n + 1
  BY <1>1, <1>2
<1>4. Ref(n + 1) \in Value(n + 1)
  BY <1>1 DEF Ref, Value
<1>5. Allocates(o, h) = [ok |-> TRUE, push |-> <<Ref(n + 1)>>, heap |-> g]
  BY DEF Allocates, Pushes
<1>6. <<Ref(n + 1)>> \in Seq(Value(n + 1))
  BY <1>4
<1> HIDE DEF n, g
<1>7. Len((Allocates(o, h)).heap) = n + 1
  BY <1>3, <1>5
<1> QED
  BY <1>1, <1>3, <1>5, <1>6, <1>7 DEF IsOutcome, IsHeap, n

LEMMA AllocatesOutcome ==
  ASSUME NEW h, IsHeap(h), NEW o \in Object(Len(h))
  PROVE  IsOutcome(Allocates(o, h), h)
<1>1. Len(h) \in Nat
  BY DEF IsHeap
<1>2. o \in Object(Len(h) + 1)
  BY <1>1, ObjectMonotone
<1> QED
  BY <1>2, AllocatesAny

LEMMA IntegersAreValues ==
  ASSUME NEW n, NEW i \in Int
  PROVE  /\ IntValue(i) \in Value(n)
         /\ BOX(i) \in Value(n)
<1>1. 2 * HALF \in Nat /\ 2 * HALF > 0
  BY HalfAssumption
<1>2. (i + HALF) % (2 * HALF) \in Int
  BY <1>1, HalfAssumption
<1> QED
  BY <1>2, HalfAssumption DEF IntValue, BOX, Value

LEMMA TruthIsValue ==
  ASSUME NEW n, NEW b
  PROVE  Truth(b) \in Value(n) /\ Zero \in Value(n)
BY IntegersAreValues DEF Truth, Zero, IntValue, Value

LEMMA QuotientType ==
  ASSUME NEW x \in Int, NEW y \in Int, y # 0
  PROVE  Quotient(x, y) \in Int /\ Remainder(x, y) \in Int
<1>1. Abs(x) \in Int /\ Abs(y) \in Int /\ Abs(y) > 0
  BY DEF Abs
<1>2. Abs(x) \div Abs(y) \in Int
  BY <1>1
<1>3. Quotient(x, y) \in Int
  BY <1>2 DEF Quotient
<1> QED
  BY <1>3 DEF Remainder

LEMMA ArithmeticType ==
  ASSUME NEW n, NEW op, NEW x \in Int, NEW y \in Int,
         op \in Arithmetic, op \in {"DIV", "REM"} => y # 0
  PROVE  ArithmeticResult(op, x, y) \in Value(n)
<1>1. CASE op \in {"DIV", "REM"}
  BY <1>1, QuotientType, IntegersAreValues DEF ArithmeticResult
<1>2. CASE op \in {"ADD", "SUB", "MUL"}
  <2>1. x + y \in Int /\ x - y \in Int /\ x * y \in Int
    OBVIOUS
  <2> QED
    BY <1>2, <2>1, IntegersAreValues DEF ArithmeticResult
<1> QED
  BY <1>1, <1>2 DEF Arithmetic

(* What a value is: an integer, or a reference to an object of the heap.    *)
LEMMA ValueCases ==
  ASSUME NEW n \in Nat, NEW v \in Value(n)
  PROVE  /\ UNBOXED(v) => v.val \in Int
         /\ ~ UNBOXED(v) => v.val \in 1 .. n
BY DEF Value, UNBOXED

LEMMA ElementsAreValues ==
  ASSUME NEW h, IsHeap(h), NEW r \in 1 .. Len(h)
  PROVE  h[r].elems \in Seq(Value(Len(h))) /\ h[r] \in Object(Len(h))
<1>1. h[r] \in Object(Len(h))
  BY DEF IsHeap
<1>2. \A o \in Object(Len(h)) : o.elems \in Seq(Value(Len(h)))
  BY DEF Object
<1> QED
  BY <1>1, <1>2

(* Replacing an element of an object by a value leaves a heap.              *)
LEMMA AssignedHeap ==
  ASSUME NEW h, IsHeap(h), NEW r \in 1 .. Len(h), NEW v \in Value(Len(h)),
         NEW k \in 1 .. Len(h[r].elems)
  PROVE  /\ IsHeap(Assigned(h, r, k, v))
         /\ Len(Assigned(h, r, k, v)) = Len(h)
<1> DEFINE es == [h[r].elems EXCEPT ![k] = v]
           o  == [h[r] EXCEPT !.elems = es]
           g  == [h EXCEPT ![r] = o]
<1>1. h[r] \in Object(Len(h)) /\ h[r].elems \in Seq(Value(Len(h)))
  BY ElementsAreValues
<1>2. es \in Seq(Value(Len(h)))
  BY <1>1
<1>3. o \in Object(Len(h))
  BY <1>1, <1>2 DEF Object
<1>4. h \in Seq(Object(Len(h))) /\ Len(h) \in Nat
  BY DEF IsHeap
<1>5. g \in Seq(Object(Len(h))) /\ Len(g) = Len(h)
  BY <1>3, <1>4
<1>6. Assigned(h, r, k, v) = g
  BY DEF Assigned
<1> QED
  BY <1>5, <1>6 DEF IsHeap

LEMMA AssertOutcome ==
  ASSUME NEW h, IsHeap(h), NEW c \in BOOLEAN, NEW o,
         c => IsOutcome(o, h)
  PROVE  IsOutcome(AssertThen(c, o, h), h)
<1>1. CASE c
  <2>1. AssertThen(c, o, h) = o
    BY <1>1 DEF AssertThen
  <2> QED
    BY <1>1, <2>1
<1>2. CASE ~ c
  <2>1. AssertThen(c, o, h) = Refused(h)
    BY <1>2 DEF AssertThen
  <2> QED
    BY <2>1, RefusedOutcome
<1> QED
  BY <1>1, <1>2

LEMMA PushesOne ==
  ASSUME NEW h, IsHeap(h), NEW v \in Value(Len(h))
  PROVE  IsOutcome(Pushes(<<v>>, h), h)
<1>1. <<v>> \in Seq(Value(Len(h)))
  OBVIOUS
<1> QED
  BY <1>1, PushesOutcome

LEMMA BinaryOutcomeType ==
  ASSUME NEW h, IsHeap(h), NEW op \in Binary,
         NEW x \in Value(Len(h)), NEW y \in Value(Len(h))
  PROVE  IsOutcome(BinaryOutcome(op, x, y, h), h)
<1>1. Len(h) \in Nat
  BY DEF IsHeap
<1>2. CASE op = "EQU"
  BY <1>2, PushesOne, TruthIsValue DEF BinaryOutcome
<1>3. CASE op # "EQU"
  <2> DEFINE c == /\ UNBOXED(x) /\ UNBOXED(y)
                  /\ op \in {"DIV", "REM"} => y.val # 0
             v == IF op \in Arithmetic THEN ArithmeticResult(op, x.val, y.val)
                                       ELSE RelationalResult(op, x.val, y.val)
  <2>1. BinaryOutcome(op, x, y, h) = AssertThen(c, Pushes(<<v>>, h), h)
    BY <1>3 DEF BinaryOutcome
  <2>2. ASSUME c PROVE v \in Value(Len(h))
    <3>1. x.val \in Int /\ y.val \in Int
      BY <1>1, <2>2, ValueCases
    <3>2. RelationalResult(op, x.val, y.val) \in Value(Len(h))
      BY TruthIsValue DEF RelationalResult
    <3>3. op \in Arithmetic => ArithmeticResult(op, x.val, y.val) \in Value(Len(h))
      BY <2>2, <3>1, ArithmeticType
    <3> QED
      BY <3>2, <3>3
  <2>3. c \in BOOLEAN
    OBVIOUS
  <2> HIDE DEF c, v
  <2> QED
    BY <2>1, <2>2, <2>3, PushesOne, AssertOutcome
<1> QED
  BY <1>2, <1>3

LEMMA InRangeMeans ==
  ASSUME NEW h, IsHeap(h), NEW agg \in Value(Len(h)), NEW idx \in Value(Len(h)),
         InRange(h, agg, idx)
  PROVE  /\ agg.val \in 1 .. Len(h)
         /\ idx.val + 1 \in 1 .. Len(h[agg.val].elems)
<1>1. Len(h) \in Nat
  BY DEF IsHeap
<1>2. agg.val \in 1 .. Len(h) /\ idx.val \in Int
  BY <1>1, ValueCases DEF InRange, IsA
<1>3. Len(h[agg.val].elems) \in Nat
  BY <1>2, ElementsAreValues
<1> QED
  BY <1>2, <1>3 DEF InRange

LEMMA StaOutcomeType ==
  ASSUME NEW h, IsHeap(h), NEW agg \in Value(Len(h)),
         NEW idx \in Value(Len(h)), NEW v \in Value(Len(h))
  PROVE  IsOutcome(StaOutcome(agg, idx, v, h), h)
<1> DEFINE g == StoreElement(h, agg, idx, v)
           c == InRange(h, agg, idx) /\ (h[agg.val].type = "STRING" => IsStorableChar(v))
<1>1. ASSUME c PROVE IsHeap(g) /\ Len(g) = Len(h)
  <2>1. agg.val \in 1 .. Len(h) /\ idx.val + 1 \in 1 .. Len(h[agg.val].elems)
    BY <1>1, InRangeMeans
  <2>2. CASE h[agg.val].type = "SEXP"
    BY <2>2 DEF StoreElement
  <2>3. CASE h[agg.val].type # "SEXP"
    <3>1. g = Assigned(h, agg.val, idx.val + 1, v)
      BY <2>3 DEF StoreElement
    <3> HIDE DEF g
    <3> QED
      BY <2>1, <3>1, AssignedHeap
  <2> QED
    BY <2>2, <2>3
<1>2. ASSUME c PROVE IsOutcome(Pushes(<<v>>, g), h)
  <2>1. Len(h) \in Nat
    BY DEF IsHeap
  <2> QED
    BY <1>1, <1>2, <2>1 DEF IsOutcome, Pushes
<1>3. StaOutcome(agg, idx, v, h) = AssertThen(c, Pushes(<<v>>, g), h)
  BY DEF StaOutcome
<1>4. c \in BOOLEAN
  BY DEF InRange, IsA
<1> HIDE DEF c, g
<1> QED
  BY <1>2, <1>3, <1>4, AssertOutcome

LEMMA ElemOutcomeType ==
  ASSUME NEW h, IsHeap(h), NEW agg \in Value(Len(h)), NEW idx \in Value(Len(h))
  PROVE  IsOutcome(ElemOutcome(agg, idx, h), h)
<1> DEFINE c == InRange(h, agg, idx)
           v == h[agg.val].elems[idx.val + 1]
<1>1. ASSUME c PROVE v \in Value(Len(h))
  <2>1. agg.val \in 1 .. Len(h) /\ idx.val + 1 \in 1 .. Len(h[agg.val].elems)
    BY <1>1, InRangeMeans
  <2> QED
    BY <2>1, ElementsAreValues
<1>2. c \in BOOLEAN
  BY DEF InRange, IsA
<1>3. ElemOutcome(agg, idx, h) = AssertThen(c, Pushes(<<v>>, h), h)
  BY DEF ElemOutcome
<1> HIDE DEF c, v
<1> QED
  BY <1>1, <1>2, <1>3, PushesOne, AssertOutcome

LEMMA LengthOutcomeType ==
  ASSUME NEW h, IsHeap(h), NEW agg \in Value(Len(h))
  PROVE  IsOutcome(LengthOutcome(agg, h), h)
<1> DEFINE c == IsA(h, agg, Aggregates)
           v == BOX(LenOf(h[agg.val]))
<1>1. ASSUME c PROVE v \in Value(Len(h))
  <2>1. Len(h) \in Nat
    BY DEF IsHeap
  <2>2. agg.val \in 1 .. Len(h)
    BY <1>1, <2>1, ValueCases DEF IsA
  <2>3. Len(h[agg.val].elems) \in Nat
    BY <2>2, ElementsAreValues
  <2> QED
    BY <2>3, IntegersAreValues DEF LenOf
<1>2. c \in BOOLEAN
  BY DEF IsA
<1>3. LengthOutcome(agg, h) = AssertThen(c, Pushes(<<v>>, h), h)
  BY DEF LengthOutcome
<1> HIDE DEF c, v
<1> QED
  BY <1>1, <1>2, <1>3, PushesOne, AssertOutcome

(* Every test answers zero or one.                                          *)
LEMMA TestOutcomeTypes ==
  ASSUME NEW h, IsHeap(h), NEW a, NEW b, NEW c
  PROVE  /\ IsOutcome(TagOutcome(a, b, c, h), h)
         /\ IsOutcome(ArrayOutcome(a, b, h), h)
         /\ IsOutcome(PattEqOutcome(a, b, h), h)
         /\ IsOutcome(PatternOutcome(a, b, h), h)
<1>1. \A t : IsOutcome(Pushes(<<Truth(t)>>, h), h)
  BY PushesOne, TruthIsValue
<1>2. IsOutcome(TagOutcome(a, b, c, h), h)
  <2>1. Hashable(a) \in BOOLEAN
    BY DEF Hashable
  <2> QED
    BY <1>1, <2>1, AssertOutcome DEF TagOutcome
<1>3. IsOutcome(ArrayOutcome(a, b, h), h)
  BY <1>1 DEF ArrayOutcome
<1>4. IsOutcome(PattEqOutcome(a, b, h), h)
  BY <1>1 DEF PattEqOutcome
<1>5. IsOutcome(PatternOutcome(a, b, h), h)
  BY <1>1 DEF PatternOutcome
<1> QED
  BY <1>2, <1>3, <1>4, <1>5

LEMMA WriteOutcomeType ==
  ASSUME NEW h, IsHeap(h), NEW v
  PROVE  IsOutcome(WriteOutcome(v, h), h)
<1>1. UNBOXED(v) \in BOOLEAN
  BY DEF UNBOXED
<1> QED
  BY <1>1, AssertOutcome, PushesOne, TruthIsValue DEF WriteOutcome

-----------------------------------------------------------------------------
(***************************************************************************)
(* Type correctness.                                                       *)
(***************************************************************************)
LEMMA FaultsAreStatuses ==
  PopFault \in Statuses /\ PushFault \in Statuses
BY BoundsAssumption DEF PopFault, PushFault, Statuses, Undefined

LEMMA StopType ==
  ASSUME TypeOK, UNCHANGED prog, out' \in Seq(Int), NEW s \in Statuses, Stop(s)
  PROVE  TypeOK'
BY DEF TypeOK, Stop, memory, registers, Depth

LEMMA StopKeepsType ==
  ASSUME TypeOK, UNCHANGED <<prog, out>>, NEW s \in Statuses, Stop(s)
  PROVE  TypeOK'
BY StopType DEF TypeOK

(* What the loaded program is known to be.                                  *)
LEMMA LoadedProgram ==
  ASSUME TypeOK
  PROVE  /\ IsProgram(P)
         /\ P.globals \in Nat
BY ProgramsAssumption DEF TypeOK, P, IsProgram

LEMMA SoundProgramFits ==
  ASSUME prog \in Sound
  PROVE  prog \in DOMAIN Programs /\ WellFormed(P) /\ P.globals + 2 <= STACK_MAX_SIZE
BY DEF Sound, Fits, P

LEMMA FetchedInstruction ==
  ASSUME TypeOK, ip \in DOMAIN P.code
  PROVE  ip \in Nat /\ IsInstruction(I)
BY LoadedProgram DEF IsProgram, I

LEMMA OperandTypes ==
  ASSUME TypeOK
  PROVE  /\ IsHeap(heap) /\ Len(heap) \in Nat
         /\ \A j \in 1 .. sp : Top(j) \in Value(Len(heap))
         /\ \A k \in 0 .. sp : Operands(k) \in Seq(Value(Len(heap)))
<1>1. IsHeap(heap) /\ Len(heap) \in Nat
  BY DEF TypeOK, IsHeap
<1>2. sp \in Nat /\ sp <= STACK_MAX_SIZE /\ STACK_MAX_SIZE \in Nat
  BY BoundsAssumption DEF TypeOK
<1>3. \A j \in Slots : stack[j] \in Value(Len(heap))
  BY DEF TypeOK
<1>4. \A j \in 1 .. sp : Top(j) \in Value(Len(heap))
  BY <1>2, <1>3 DEF Top, Slots
<1>5. ASSUME NEW k \in 0 .. sp
      PROVE  Operands(k) \in Seq(Value(Len(heap)))
  <2>1. \A j \in 1 .. k : stack[sp - k + j - 1] \in Value(Len(heap))
    BY <1>2, <1>3 DEF Slots
  <2>2. k \in Nat
    BY <1>2
  <2> QED
    BY <2>1, <2>2 DEF Operands
<1> QED
  BY <1>1, <1>4, <1>5

LEMMA OperateType ==
  ASSUME TypeOK, ip \in DOMAIN P.code, UNCHANGED prog, out' \in Seq(Int),
         NEW k \in Nat, NEW o, sp >= k => IsOutcome(o, heap), Operate(k, o)
  PROVE  TypeOK'
<1>1. CASE sp < k
  BY <1>1, FaultsAreStatuses, StopType DEF Operate
<1>2. CASE sp >= k /\ ~ o.ok
  <2>1. Stop("failed")
    BY <1>2 DEF Operate, TypeOK
  <2> QED
    BY <2>1, StopType DEF Statuses
<1>3. CASE sp >= k /\ o.ok
  <2> DEFINE low == sp - k
             new == o.push
  <2>0. sp \in Nat /\ sp <= STACK_MAX_SIZE /\ STACK_MAX_SIZE \in Nat /\ low \in Nat
    BY <1>3, BoundsAssumption DEF TypeOK
  <2>1. /\ IsHeap(o.heap) /\ Len(heap) <= Len(o.heap)
        /\ new \in Seq(Value(Len(o.heap)))
    BY <1>3 DEF IsOutcome
  <2>2. CASE ~ Fits(low + Len(new))
    <3>1. Stop(PushFault)
      BY <1>3, <2>0, <2>2 DEF Operate
    <3> QED
      BY <3>1, FaultsAreStatuses, StopType
  <2>3. CASE Fits(low + Len(new))
    <3>1. /\ stack' = [j \in Slots |-> IF j \in low .. low + Len(new) - 1
                                         THEN new[j - low + 1] ELSE stack[j]]
          /\ sp' = low + Len(new)
          /\ heap' = o.heap
          /\ ip' = ip + 1
          /\ UNCHANGED <<registers, status>>
      BY <1>3, <2>0, <2>3 DEF Operate
    <3> HIDE DEF low, new
    <3>2. Len(heap) \in Nat /\ Len(heap') \in Nat /\ Len(new) \in Nat
      BY <2>1, <3>1, OperandTypes DEF IsHeap
    <3>3. Value(Len(heap)) \subseteq Value(Len(heap'))
      BY <2>1, <3>1, <3>2, ValueMonotone
    <3>4. stack' \in [Slots -> Value(Len(heap'))]
      <4>1. ASSUME NEW j \in Slots, j \in low .. low + Len(new) - 1
            PROVE  new[j - low + 1] \in Value(Len(heap'))
        <5>1. j - low + 1 \in 1 .. Len(new)
          BY <4>1, <2>0, <3>2 DEF Slots
        <5> QED
          BY <5>1, <2>1, <3>1
      <4>2. \A j \in Slots : stack[j] \in Value(Len(heap'))
        BY <3>3 DEF TypeOK
      <4> QED
        BY <3>1, <4>1, <4>2
    <3>5. sp' \in 0 .. STACK_MAX_SIZE
      BY <2>0, <2>3, <3>1, <3>2 DEF Fits
    <3>6. heap' \in Seq(Object(Len(heap')))
      BY <2>1, <3>1 DEF IsHeap
    <3>7. ip' \in Int
      BY <3>1 DEF TypeOK
    <3> QED
      BY <3>1, <3>4, <3>5, <3>6, <3>7 DEF TypeOK, registers
  <2> QED
    BY <2>2, <2>3
<1>4. sp \in Int
  BY DEF TypeOK
<1> QED
  BY <1>1, <1>2, <1>3, <1>4

LEMMA OperateKeepsType ==
  ASSUME TypeOK, ip \in DOMAIN P.code, UNCHANGED <<prog, out>>,
         NEW k \in Nat, NEW o, sp >= k => IsOutcome(o, heap), Operate(k, o)
  PROVE  TypeOK'
<1>1. out' \in Seq(Int)
  BY DEF TypeOK
<1> QED
  BY <1>1, OperateType

(* With operands on the stack, every data instruction yields an outcome.     *)
LEMMA OutcomesOfTop ==
  ASSUME TypeOK, sp >= 1
  PROVE  /\ IsOutcome(LengthOutcome(Top(1), heap), heap)
         /\ IsOutcome(WriteOutcome(Top(1), heap), heap)
         /\ IsOutcome(Pushes(<<>>, heap), heap)
         /\ IsOutcome(Pushes(<<Top(1)>>, heap), heap)
         /\ IsOutcome(Pushes(<<Top(1), Top(1)>>, heap), heap)
<1>0. 1 \in 1 .. sp
  BY DEF TypeOK
<1>1. IsHeap(heap) /\ Top(1) \in Value(Len(heap))
  BY <1>0, OperandTypes
<1>2. /\ <<>> \in Seq(Value(Len(heap)))
      /\ <<Top(1), Top(1)>> \in Seq(Value(Len(heap)))
  BY <1>1
<1> QED
  BY <1>1, <1>2, LengthOutcomeType, WriteOutcomeType, PushesOutcome, PushesOne

LEMMA OutcomesOfTopTwo ==
  ASSUME TypeOK, sp >= 2
  PROVE  /\ I.op \in Binary =>
              IsOutcome(BinaryOutcome(I.op, Top(2), Top(1), heap), heap)
         /\ IsOutcome(ElemOutcome(Top(2), Top(1), heap), heap)
         /\ IsOutcome(Pushes(<<Top(1), Top(2)>>, heap), heap)
<1>0. 1 \in 1 .. sp /\ 2 \in 1 .. sp
  BY DEF TypeOK
<1>1. IsHeap(heap) /\ Top(1) \in Value(Len(heap)) /\ Top(2) \in Value(Len(heap))
  BY <1>0, OperandTypes
<1>2. <<Top(1), Top(2)>> \in Seq(Value(Len(heap)))
  BY <1>1
<1> QED
  BY <1>1, <1>2, BinaryOutcomeType, ElemOutcomeType, PushesOutcome

(* What a new object may hold: values for elements, integers for the rest.  *)
LEMMA NewObjects ==
  ASSUME TypeOK, NEW es \in Seq(Value(Len(heap)))
  PROVE  /\ Array(es) \in Object(Len(heap))
         /\ \A t \in Seq(Int) : Sexp(LtagHash(t), es) \in Object(Len(heap))
<1>1. \A t \in Seq(Int) : LtagHash(t) \in Seq(Int)
  <2>1. ASSUME NEW t \in Seq(Int), Len(t) > MAX_SEXP_TAGLEN
        PROVE  SubSeq(t, 1, MAX_SEXP_TAGLEN) \in Seq(Int)
    <3>1. MAX_SEXP_TAGLEN \in Nat
      BY HalfAssumption
    <3> QED
      BY <2>1, <3>1
  <2> QED
    BY <2>1, HalfAssumption DEF LtagHash
<1> QED
  BY <1>1 DEF Array, Sexp, Object, Types

LEMMA NewString ==
  ASSUME TypeOK, NEW cs \in Seq(Int)
  PROVE  StringOf(cs) \in Object(Len(heap))
<1>1. \A k \in 1 .. Len(cs) : IntValue(cs[k]) \in Value(Len(heap))
  BY IntegersAreValues
<1>2. [k \in 1 .. Len(cs) |-> IntValue(cs[k])] \in Seq(Value(Len(heap)))
  BY <1>1
<1> QED
  BY <1>2 DEF StringOf, Object, Types

LEMMA DataKeepsType ==
  ASSUME TypeOK, Data, UNCHANGED <<prog, out>>
  PROVE  TypeOK'
<1> USE DEF At
<1>a. IsHeap(heap) /\ Len(heap) \in Nat /\ sp \in Int
  BY OperandTypes DEF TypeOK
<1>b. \A n \in Int : IsOutcome(Pushes(<<BOX(n)>>, heap), heap)
  BY <1>a, PushesOne, IntegersAreValues
<1>c. IsOutcome(Pushes(<<>>, heap), heap)
  <2>1. <<>> \in Seq(Value(Len(heap)))
    OBVIOUS
  <2> QED
    BY <1>a, <2>1, PushesOutcome
<1>1. CASE BinaryOp
  BY <1>1, <1>a, OutcomesOfTopTwo, OperateKeepsType DEF BinaryOp
<1>2. CASE Const
  <2>1. IsOutcome(Pushes(<<BOX(I.a)>>, heap), heap)
    BY <1>2, <1>b, FetchedInstruction DEF Const, IsInstruction
  <2> QED
    BY <1>2, <2>1, OperateKeepsType DEF Const
<1>3. CASE LoadString
  <2>1. CASE I.a \in DOMAIN P.strings
    <3>1. IsOutcome(Allocates(StringOf(P.strings[I.a]), heap), heap)
      BY <2>1, <1>a, LoadedProgram, NewString, AllocatesOutcome DEF IsProgram
    <3> QED
      BY <1>3, <2>1, <3>1, OperateKeepsType DEF LoadString, WithString
  <2>2. CASE I.a \notin DOMAIN P.strings
    BY <1>3, <2>2, StopKeepsType DEF LoadString, WithString, Statuses, Undefined
  <2> QED
    BY <2>1, <2>2
<1>4. CASE MakeSexp
  <2>1. CASE I.a \in DOMAIN P.strings
    <3> DEFINE name == P.strings[I.a]
               o == SexpOutcome(name, Operands(I.b), heap)
    <3>a. I.b \in Int
      BY <1>4, FetchedInstruction DEF MakeSexp, IsInstruction
    <3>b. CASE I.b < 0
      BY <1>4, <2>1, <3>b, StopKeepsType DEF MakeSexp, WithString, WithCount, Statuses, Undefined
    <3>c. SUFFICES ASSUME ~ (I.b < 0) PROVE TypeOK'
      BY <3>b
    <3>1. I.b \in Nat
      BY <3>a, <3>c
    <3>2. ASSUME sp >= I.b PROVE IsOutcome(o, heap)
      <4>1. Operands(I.b) \in Seq(Value(Len(heap)))
        BY <3>1, <3>2, <1>a, OperandTypes
      <4>2. name \in Seq(Int)
        BY <2>1, LoadedProgram DEF IsProgram
      <4> HIDE DEF name
      <4>3. Sexp(LtagHash(name), Operands(I.b)) \in Object(Len(heap))
        BY <4>1, <4>2, NewObjects
      <4>4. Hashable(name) \in BOOLEAN
        BY DEF Hashable
      <4> QED
        BY <4>3, <4>4, <1>a, AllocatesOutcome, AssertOutcome DEF SexpOutcome
    <3>3. Operate(I.b, o)
      BY <1>4, <2>1, <3>c DEF MakeSexp, WithString, WithCount
    <3> HIDE DEF o
    <3> QED
      BY <1>4, <3>1, <3>2, <3>3, OperateKeepsType DEF MakeSexp
  <2>2. CASE I.a \notin DOMAIN P.strings
    BY <1>4, <2>2, StopKeepsType DEF MakeSexp, WithString, Statuses, Undefined
  <2> QED
    BY <2>1, <2>2
<1>5. CASE MakeArray
  <2> DEFINE o == Allocates(Array(Operands(I.a)), heap)
  <2>a. I.a \in Int
    BY <1>5, FetchedInstruction DEF MakeArray, IsInstruction
  <2>b. CASE I.a < 0
    BY <1>5, <2>b, StopKeepsType DEF MakeArray, WithCount, Statuses, Undefined
  <2>c. SUFFICES ASSUME ~ (I.a < 0) PROVE TypeOK'
    BY <2>b
  <2>1. I.a \in Nat
    BY <2>a, <2>c
  <2>2. ASSUME sp >= I.a PROVE IsOutcome(o, heap)
    <3>1. Operands(I.a) \in Seq(Value(Len(heap)))
      BY <2>1, <2>2, <1>a, OperandTypes
    <3> QED
      BY <3>1, <1>a, NewObjects, AllocatesOutcome
  <2>3. Operate(I.a, o)
    BY <1>5, <2>c DEF MakeArray, WithCount
  <2> HIDE DEF o
  <2> QED
    BY <1>5, <2>1, <2>2, <2>3, OperateKeepsType DEF MakeArray
<1>6. CASE StoreInto
  <2>1. ASSUME sp >= 3
        PROVE  IsOutcome(StaOutcome(Top(3), Top(2), Top(1), heap), heap)
    <3>1. \A j \in 1 .. 3 : Top(j) \in Value(Len(heap))
      BY <2>1, <1>a, OperandTypes
    <3> QED
      BY <3>1, <1>a, StaOutcomeType
  <2> QED
    BY <1>6, <2>1, OperateKeepsType DEF StoreInto
<1>7. CASE Elem
  BY <1>7, OutcomesOfTopTwo, OperateKeepsType DEF Elem
<1>8. CASE Drop
  BY <1>8, <1>c, OperateKeepsType DEF Drop
<1>9. CASE Dup
  BY <1>9, OutcomesOfTop, OperateKeepsType DEF Dup
<1>10. CASE Swap
  BY <1>10, OutcomesOfTopTwo, OperateKeepsType DEF Swap
<1>11. CASE TestTag
  <2>a. CASE sp < 1
    BY <1>11, <2>a, StopKeepsType, FaultsAreStatuses DEF TestTag
  <2>b. SUFFICES ASSUME ~ (sp < 1) PROVE TypeOK'
    BY <2>a
  <2>1. CASE I.a \in DOMAIN P.strings
    <3>1. IsOutcome(TagOutcome(P.strings[I.a], I.b, Top(1), heap), heap)
      BY <1>a, TestOutcomeTypes
    <3> QED
      BY <1>11, <2>b, <2>1, <3>1, OperateKeepsType DEF TestTag, WithString
  <2>2. CASE I.a \notin DOMAIN P.strings
    BY <1>11, <2>b, <2>2, StopKeepsType DEF TestTag, WithString, Statuses, Undefined
  <2> QED
    BY <2>1, <2>2
<1>12. CASE TestArray
  BY <1>12, <1>a, TestOutcomeTypes, OperateKeepsType DEF TestArray
<1>13. CASE PattEq
  BY <1>13, <1>a, TestOutcomeTypes, OperateKeepsType DEF PattEq
<1>14. CASE Pattern
  BY <1>14, <1>a, TestOutcomeTypes, OperateKeepsType DEF Pattern
<1>15. CASE Length
  BY <1>15, OutcomesOfTop, OperateKeepsType DEF Length
<1>16. CASE Line
  BY <1>16, <1>c, OperateKeepsType DEF Line
<1>17. CASE Read
  BY <1>17, <1>b, BoundsAssumption, OperateKeepsType DEF Read
<1>18. CASE Stringify
  <2>1. \A cs \in Printed : IsOutcome(Allocates(StringOf(cs), heap), heap)
    BY <1>a, BoundsAssumption, NewString, AllocatesOutcome
  <2> QED
    BY <1>18, <2>1, OperateKeepsType DEF Stringify
<1> QED
  BY <1>1, <1>2, <1>3, <1>4, <1>5, <1>6, <1>7, <1>8, <1>9, <1>10, <1>11, <1>12,
     <1>13, <1>14, <1>15, <1>16, <1>17, <1>18 DEF Data

LEMMA WriteKeepsType ==
  ASSUME TypeOK, Write, UNCHANGED prog
  PROVE  TypeOK'
<1> DEFINE o == WriteOutcome(Top(1), heap)
<1>1. Operate(1, o) /\ status = "running"
  BY DEF Write, At
<1>2. TypeOK /\ ip \in DOMAIN P.code /\ (sp >= 1 => IsOutcome(o, heap))
  BY OutcomesOfTop DEF Write, At
<1>3. out' \in Seq(Int)
  <2>1. CASE status' = "running"
    <3>1. sp >= 1 /\ UNBOXED(Top(1))
      <4>1. PopFault # "running"
        BY DEF PopFault
      <4>2. ~ (sp < 1) /\ o.ok
        BY <1>1, <2>1, <4>1 DEF Operate, Stop
      <4>3. UNBOXED(Top(1))
        BY <4>2 DEF WriteOutcome, AssertThen, Refused
      <4> QED
        BY <4>2, <4>3 DEF TypeOK
    <3>2. 1 \in 1 .. sp
      BY <3>1 DEF TypeOK
    <3>3. Top(1) \in Value(Len(heap)) /\ Len(heap) \in Nat
      BY <3>2, OperandTypes
    <3>4. Top(1).val \in Int
      BY <3>1, <3>3, ValueCases
    <3>5. out' = Append(out, Top(1).val)
      BY <2>1 DEF Write
    <3> QED
      BY <3>4, <3>5 DEF TypeOK
  <2>2. CASE status' # "running"
    BY <2>2 DEF Write, TypeOK
  <2> QED
    BY <2>1, <2>2
<1> HIDE DEF o
<1> QED
  BY <1>1, <1>2, <1>3, OperateType

LEMMA SlotTypes ==
  ASSUME TypeOK
  PROVE  /\ \A j \in Slots : stack[j] \in Value(Len(heap))
         /\ \A j \in Slots : IsOutcome(Pushes(<<stack[j]>>, heap), heap)
BY OperandTypes, PushesOne DEF TypeOK

LEMMA LoadKeepsType ==
  ASSUME TypeOK, ip \in DOMAIN P.code, UNCHANGED <<prog, out>>,
         NEW slot,
         \/ Stop("failed") \/ Stop("wild")
         \/ slot \in Slots /\ Operate(0, Pushes(<<stack[slot]>>, heap))
  PROVE  TypeOK'
<1>1. CASE Stop("failed")
  BY <1>1, StopKeepsType DEF Statuses
<1>2. CASE Stop("wild")
  BY <1>2, StopKeepsType DEF Statuses, Undefined
<1>3. CASE slot \in Slots /\ Operate(0, Pushes(<<stack[slot]>>, heap))
  BY <1>3, SlotTypes, OperateKeepsType
<1> QED
  BY <1>1, <1>2, <1>3

LEMMA StoreKeepsType ==
  ASSUME TypeOK, ip \in DOMAIN P.code, UNCHANGED <<prog, out>>,
         NEW slot,
         \/ Stop(PopFault) \/ Stop("failed") \/ Stop("wild")
         \/ /\ ~ (sp < 1)
            /\ stack' = [stack EXCEPT ![slot] = Top(1)]
            /\ ip' = ip + 1
            /\ UNCHANGED <<sp, heap, registers, status>>
  PROVE  TypeOK'
<1>1. CASE Stop(PopFault)
  BY <1>1, FaultsAreStatuses, StopKeepsType
<1>2. CASE Stop("failed")
  BY <1>2, StopKeepsType DEF Statuses
<1>3. CASE Stop("wild")
  BY <1>3, StopKeepsType DEF Statuses, Undefined
<1>4. CASE /\ ~ (sp < 1)
           /\ stack' = [stack EXCEPT ![slot] = Top(1)]
           /\ ip' = ip + 1
           /\ UNCHANGED <<sp, heap, registers, status>>
  <2>1. 1 \in 1 .. sp
    BY <1>4 DEF TypeOK
  <2>2. Top(1) \in Value(Len(heap))
    BY <2>1, OperandTypes
  <2>3. stack' \in [Slots -> Value(Len(heap))]
    BY <1>4, <2>2 DEF TypeOK
  <2> QED
    BY <1>4, <2>3 DEF TypeOK, registers
<1> QED
  BY <1>1, <1>2, <1>3, <1>4

LEMMA CaptureTypes ==
  ASSUME TypeOK, NEW c \in Int, HoldsCapture(c)
  PROVE  /\ stack[ClosureSlot].val \in 1 .. Len(heap)
         /\ c + 1 \in 1 .. Len(heap[stack[ClosureSlot].val].elems)
         /\ Capture(c) \in Value(Len(heap))
<1>1. stack[ClosureSlot].val \in 1 .. Len(heap)
  BY SlotTypes, OperandTypes, ValueCases DEF HoldsCapture, IsA
<1>2. heap[stack[ClosureSlot].val].elems \in Seq(Value(Len(heap)))
  BY <1>1, OperandTypes, ElementsAreValues
<1>3. c + 1 \in 1 .. Len(heap[stack[ClosureSlot].val].elems)
  BY <1>2 DEF HoldsCapture
<1> QED
  BY <1>1, <1>2, <1>3 DEF Capture

LEMMA VariableKeepsType ==
  ASSUME TypeOK, Variable, UNCHANGED <<prog, out>>
  PROVE  TypeOK'
<1> USE DEF At
<1>1. CASE LoadGlobal
  BY <1>1, LoadKeepsType DEF LoadGlobal, LoadSlot
<1>2. CASE LoadLocal
  BY <1>2, LoadKeepsType DEF LoadLocal, LoadSlot
<1>3. CASE LoadArg
  BY <1>3, LoadKeepsType DEF LoadArg, LoadSlot
<1>4. CASE StoreGlobal
  BY <1>4, StoreKeepsType DEF StoreGlobal, StoreSlot
<1>5. CASE StoreLocal
  BY <1>5, StoreKeepsType DEF StoreLocal, StoreSlot
<1>6. CASE StoreArg
  BY <1>6, StoreKeepsType DEF StoreArg, StoreSlot
<1>7. CASE LoadCaptured
  <2>1. CASE Stop("failed")
    BY <2>1, StopKeepsType DEF Statuses
  <2>2. CASE Stop("wild")
    BY <2>2, StopKeepsType DEF Statuses, Undefined
  <2>3. CASE HoldsCapture(I.a) /\ Operate(0, Pushes(<<Capture(I.a)>>, heap))
    <3>1. I.a \in Int
      BY <1>7, FetchedInstruction DEF LoadCaptured, IsInstruction
    <3>2. IsOutcome(Pushes(<<Capture(I.a)>>, heap), heap)
      BY <2>3, <3>1, CaptureTypes, OperandTypes, PushesOne
    <3> QED
      BY <1>7, <2>3, <3>2, OperateKeepsType DEF LoadCaptured
  <2> QED
    BY <1>7, <2>1, <2>2, <2>3 DEF LoadCaptured, WithCapture
<1>8. CASE StoreCaptured
  <2> DEFINE g == Assigned(heap, stack[ClosureSlot].val, I.a + 1, Top(1))
  <2>1. CASE Stop("failed")
    BY <2>1, StopKeepsType DEF Statuses
  <2>2. CASE Stop("wild")
    BY <2>2, StopKeepsType DEF Statuses, Undefined
  <2>3. CASE HoldsCapture(I.a) /\ Operate(1, Pushes(<<Top(1)>>, g))
    <3>1. I.a \in Int
      BY <1>8, FetchedInstruction DEF StoreCaptured, IsInstruction
    <3>2. ASSUME sp >= 1 PROVE IsOutcome(Pushes(<<Top(1)>>, g), heap)
      <4>1. 1 \in 1 .. sp
        BY <3>2 DEF TypeOK
      <4>2. Top(1) \in Value(Len(heap)) /\ IsHeap(heap) /\ Len(heap) \in Nat
        BY <4>1, OperandTypes
      <4>3. IsHeap(g) /\ Len(g) = Len(heap)
        BY <2>3, <3>1, <4>2, CaptureTypes, AssignedHeap
      <4>4. <<Top(1)>> \in Seq(Value(Len(g)))
        BY <4>2, <4>3
      <4> HIDE DEF g
      <4> QED
        BY <4>2, <4>3, <4>4 DEF IsOutcome, Pushes
    <3> HIDE DEF g
    <3> QED
      BY <1>8, <2>3, <3>2, OperateKeepsType DEF StoreCaptured
  <2> QED
    BY <1>8, <2>1, <2>2, <2>3 DEF StoreCaptured, WithCapture
<1> QED
  BY <1>1, <1>2, <1>3, <1>4, <1>5, <1>6, <1>7, <1>8 DEF Variable

LEMMA CapturedTypes ==
  ASSUME TypeOK, NEW c \in [kind : Int, m : Int], Capturable(c)
  PROVE  Captured(Ref(Len(heap) + 1), c) \in Value(Len(heap) + 1)
<1>1. Len(heap) \in Nat /\ Value(Len(heap)) \subseteq Value(Len(heap) + 1)
  BY OperandTypes, ValueMonotone
<1>2. CASE c.kind = 3
  <2>1. c.m \in Int /\ HoldsCapture(c.m)
    BY <1>2 DEF Capturable
  <2>2. Capture(c.m) \in Value(Len(heap))
    BY <2>1, CaptureTypes
  <2> QED
    BY <1>1, <1>2, <2>2 DEF Captured
<1>3. CASE c.kind # 3 /\ CaptureSource(c) = sp
  BY <1>1, <1>3 DEF Captured, Ref, Value
<1>4. CASE c.kind # 3 /\ CaptureSource(c) # sp
  BY <1>1, <1>4, SlotTypes DEF Capturable, Captured
<1> QED
  BY <1>2, <1>3, <1>4

LEMMA MakeClosureKeepsType ==
  ASSUME TypeOK, MakeClosure, UNCHANGED <<prog, out>>
  PROVE  TypeOK'
<1> DEFINE self == Ref(Len(heap) + 1)
           es == [k \in 1 .. Len(I.caps) |-> Captured(self, I.caps[k])]
           o == Allocates(Closure(I.a, es), heap)
<1>1. CASE Stop("failed")
  BY <1>1, StopKeepsType DEF Statuses
<1>2. CASE Stop("wild")
  BY <1>2, StopKeepsType DEF Statuses, Undefined
<1>3. CASE Stop(PushFault)
  BY <1>3, StopKeepsType, FaultsAreStatuses
<1>4. CASE (\A k \in 1 .. Len(I.caps) : Capturable(I.caps[k])) /\ Operate(0, o)
  <2>1. I.a \in Int /\ I.caps \in Seq([kind : Int, m : Int])
    BY FetchedInstruction DEF MakeClosure, At, IsInstruction
  <2>2. \A k \in 1 .. Len(I.caps) : Captured(self, I.caps[k]) \in Value(Len(heap) + 1)
    <3> TAKE k \in 1 .. Len(I.caps)
    <3>1. I.caps[k] \in [kind : Int, m : Int]
      BY <2>1, SequenceElement
    <3>2. Capturable(I.caps[k])
      BY <1>4
    <3> QED
      BY <3>1, <3>2, CapturedTypes
  <2>3. es \in Seq(Value(Len(heap) + 1))
    BY <2>1, <2>2
  <2>4. Closure(I.a, es) \in Object(Len(heap) + 1)
    BY <2>1, <2>3 DEF Closure, Object, Types
  <2>5. IsOutcome(o, heap)
    BY <2>4, OperandTypes, AllocatesAny
  <2> HIDE DEF o
  <2> QED
    BY <1>4, <2>5, OperateKeepsType DEF MakeClosure, At
<1> QED
  BY <1>1, <1>2, <1>3, <1>4 DEF MakeClosure

LEMMA EnterKeepsType ==
  ASSUME TypeOK, ip \in DOMAIN P.code, UNCHANGED <<prog, out>>,
         NEW l \in Int, NEW n \in Int, NEW closure \in BOOLEAN,
         NEW ncaptured \in Int, EnterFunction(l, n, closure, ncaptured)
  PROVE  TypeOK'
<1>1. CASE Stop("exhausted")
  BY <1>1, StopKeepsType DEF Statuses
<1>2. CASE ~ (Len(frames) >= CALL_STACK_MAX_SIZE)
  <2>1. /\ frames' = Append(frames, SavedFrame)
        /\ ip' = l /\ is_closure' = closure /\ base' = sp /\ args' = n
        /\ captured' = ncaptured /\ locals' = 0
        /\ UNCHANGED <<memory, status>>
    BY <1>2 DEF EnterFunction
  <2>2. SavedFrame \in Frame /\ SavedFrame.prev_ip # 0
    <3>1. ip \in Nat
      BY FetchedInstruction
    <3>2. /\ base \in Int /\ args \in Int /\ locals \in Int
          /\ captured \in Int /\ is_closure \in BOOLEAN
      BY DEF TypeOK
    <3> QED
      BY <3>1, <3>2 DEF SavedFrame, Saved, Frame
  <2>3. /\ frames' \in Seq(Frame) /\ frames' # <<>>
        /\ \A k \in 1 .. Len(frames') : frames'[k].prev_ip = 0 <=> k = 1
    <3>1. frames \in Seq(Frame) /\ Len(frames) \in Nat /\ Len(frames) # 0
      BY DEF TypeOK
    <3>2. Len(frames') = Len(frames) + 1 /\ frames' \in Seq(Frame)
      BY <2>1, <2>2, <3>1
    <3>3. \A k \in 1 .. Len(frames) : frames'[k] = frames[k]
      BY <2>1, <3>1
    <3>4. frames'[Len(frames) + 1] = SavedFrame
      BY <2>1, <3>1
    <3>5. \A k \in 1 .. Len(frames) : frames[k].prev_ip = 0 <=> k = 1
      BY DEF TypeOK
    <3>6. ASSUME NEW k \in 1 .. Len(frames') PROVE frames'[k].prev_ip = 0 <=> k = 1
      <4>1. CASE k \in 1 .. Len(frames)
        BY <3>3, <3>5, <4>1
      <4>2. CASE k = Len(frames) + 1
        BY <2>2, <3>1, <3>4, <4>2
      <4> QED
        BY <3>1, <3>2, <4>1, <4>2
    <3> QED
      BY <3>1, <3>2, <3>6
  <2>4. sp \in Int
    BY DEF TypeOK
  <2> QED
    <3>1. UNCHANGED <<stack, sp, heap, status>>
      BY <2>1 DEF memory
    <3>2. /\ ip' \in Int /\ base' \in Int /\ args' \in Int /\ locals' \in Int
          /\ captured' \in Int /\ is_closure' \in BOOLEAN
      BY <2>1, <2>4
    <3> QED
      BY <2>3, <3>1, <3>2 DEF TypeOK
<1> QED
  BY <1>1, <1>2 DEF EnterFunction

LEMMA BeginKeepsType ==
  ASSUME TypeOK, Begin, UNCHANGED <<prog, out>>
  PROVE  TypeOK'
<1>1. CASE Stop("exhausted")
  BY <1>1, StopKeepsType DEF Statuses
<1>2. CASE Stop(PushFault)
  BY <1>2, StopKeepsType, FaultsAreStatuses
<1>3. CASE /\ Fits(sp + Locals(I))
           /\ locals' = Locals(I)
           /\ stack' = [j \in Slots |->
                          IF j \in sp .. sp + Locals(I) - 1 THEN Zero ELSE stack[j]]
           /\ sp' = sp + Locals(I)
           /\ ip' = ip + 1
           /\ UNCHANGED <<heap, base, args, captured, is_closure, frames, status>>
  <2>1. Locals(I) \in Nat
    BY FetchedInstruction DEF Begin, At, IsInstruction, Locals, LOCALS_RANGE
  <2>2. stack' \in [Slots -> Value(Len(heap))]
    BY <1>3, TruthIsValue DEF TypeOK
  <2>3. sp' \in 0 .. STACK_MAX_SIZE
    BY <1>3, <2>1, BoundsAssumption DEF TypeOK, Fits
  <2> QED
    BY <1>3, <2>1, <2>2, <2>3 DEF TypeOK
<1> QED
  BY <1>1, <1>2, <1>3 DEF Begin

LEMMA ReturnKeepsType ==
  ASSUME TypeOK, Return, UNCHANGED <<prog, out>>
  PROVE  TypeOK'
<1>1. CASE Stop(PopFault) \/ Stop(PushFault)
  BY <1>1, StopKeepsType, FaultsAreStatuses
<1>2. CASE Stop("wild")
  BY <1>2, StopKeepsType DEF Statuses, Undefined
<1>3. CASE ~ (sp < 1) /\ ~ (Floor < 0) /\ ~ (Floor >= STACK_MAX_SIZE)
  <2> DEFINE f == frames[Len(frames)]
  <2>1. /\ stack' = [stack EXCEPT ![Floor] = Top(1)]
        /\ sp' = Floor + 1
        /\ UNCHANGED heap
        /\ IF Outermost(f)
             THEN /\ status' = "halted"
                  /\ UNCHANGED <<ip, registers>>
             ELSE /\ ip' = f.prev_ip
                  /\ base' = f.prev_base
                  /\ args' = f.prev_args
                  /\ locals' = f.prev_locals
                  /\ captured' = f.prev_captured
                  /\ is_closure' = f.is_closure
                  /\ frames' = SubSeq(frames, 1, Len(frames) - 1)
                  /\ UNCHANGED status
    BY <1>3 DEF Return
  <2>2. 1 \in 1 .. sp /\ Floor \in Int /\ STACK_MAX_SIZE \in Nat
    BY <1>3, BoundsAssumption DEF TypeOK, Floor
  <2>3. stack' \in [Slots -> Value(Len(heap))]
    BY <2>1, <2>2, OperandTypes DEF TypeOK
  <2>4. sp' \in 0 .. STACK_MAX_SIZE
    BY <1>3, <2>1, <2>2
  <2>5. frames \in Seq(Frame) /\ Len(frames) \in Nat \ {0} /\ f \in Frame
    BY DEF TypeOK
  <2>6. CASE Outermost(f)
    BY <2>1, <2>3, <2>4, <2>6 DEF TypeOK, registers, Statuses
  <2>7. CASE ~ Outermost(f)
    <3>1. Len(frames) # 1
      BY <2>5, <2>7 DEF TypeOK, Outermost
    <3>2. frames' = SubSeq(frames, 1, Len(frames) - 1)
      BY <2>1, <2>7
    <3>3. /\ frames' \in Seq(Frame)
          /\ Len(frames') = Len(frames) - 1
          /\ \A k \in 1 .. Len(frames') : frames'[k] = frames[k]
      BY <2>5, <3>1, <3>2, FrontOfSequence
    <3>4. /\ frames' # <<>>
          /\ \A k \in 1 .. Len(frames') : frames'[k].prev_ip = 0 <=> k = 1
      BY <2>5, <3>1, <3>3 DEF TypeOK
    <3>5. /\ ip' \in Int /\ base' \in Int /\ args' \in Int /\ locals' \in Int
          /\ captured' \in Int /\ is_closure' \in BOOLEAN
      BY <2>1, <2>5, <2>7 DEF Frame
    <3> QED
      BY <2>1, <2>3, <2>4, <2>7, <3>3, <3>4, <3>5 DEF TypeOK
  <2> QED
    BY <2>6, <2>7
<1> QED
  BY <1>1, <1>2, <1>3 DEF Return

LEMMA ControlKeepsType ==
  ASSUME TypeOK, Control, UNCHANGED <<prog, out>>
  PROVE  TypeOK'
<1>1. CASE FetchOutside \/ Unsupported
  BY <1>1, StopKeepsType DEF FetchOutside, Unsupported, Statuses
<1>2. CASE Fail
  BY <1>2, StopKeepsType, FaultsAreStatuses DEF Fail, Statuses
<1>3. CASE Jump
  <2>1. CASE Stop("failed")
    BY <2>1, StopKeepsType DEF Statuses
  <2>2. CASE GoTo(I.a)
    <3>1. I.a \in Int
      BY <1>3, FetchedInstruction DEF Jump, At, IsInstruction
    <3> QED
      BY <2>2, <3>1 DEF GoTo, TypeOK, memory, registers
  <2> QED
    BY <1>3, <2>1, <2>2 DEF Jump
<1>4. CASE Branch
  <2>1. CASE Stop("failed") \/ Stop(PopFault)
    BY <2>1, StopKeepsType, FaultsAreStatuses DEF Statuses
  <2>2. CASE /\ ~ (sp < 1)
             /\ ip' \in {I.a, ip + 1}
             /\ sp' = sp - 1
             /\ UNCHANGED <<stack, heap, registers, status>>
    <3>1. I.a \in Int /\ ip + 1 \in Int
      BY <1>4, FetchedInstruction DEF Branch, At, IsInstruction
    <3>2. sp' \in 0 .. STACK_MAX_SIZE
      BY <2>2, BoundsAssumption DEF TypeOK
    <3> QED
      BY <2>2, <3>1, <3>2 DEF TypeOK, registers
  <2> QED
    BY <1>4, <2>1, <2>2 DEF Branch
<1>5. CASE Call
  <2>1. I.a \in Int /\ I.b \in Int
    BY <1>5, FetchedInstruction DEF Call, At, IsInstruction
  <2> QED
    <3>1. ip \in DOMAIN P.code /\ EnterFunction(I.a, I.b, FALSE, 0)
      BY <1>5 DEF Call, At
    <3>2. FALSE \in BOOLEAN /\ 0 \in Int
      OBVIOUS
    <3> QED
      BY <2>1, <3>1, <3>2, EnterKeepsType
<1>6. CASE CallClosure
  <2> DEFINE slot == sp - I.a - 1
             closure == heap[stack[slot].val]
  <2>1. CASE Stop("failed") \/ Stop("wild")
    BY <2>1, StopKeepsType DEF Statuses, Undefined
  <2>2. CASE /\ slot \in Slots
             /\ IsA(heap, stack[slot], {"CLOSURE"})
             /\ EnterFunction(closure.entry, I.a, TRUE, CapturedBy(closure))
    <3>1. stack[slot].val \in 1 .. Len(heap)
      BY <2>2, SlotTypes, OperandTypes, ValueCases DEF IsA
    <3>2. closure \in Object(Len(heap))
      BY <3>1, OperandTypes, ElementsAreValues
    <3>3. \A o \in Object(Len(heap)) : o.entry \in Int /\ Len(o.elems) \in Nat
      BY DEF Object
    <3>4. closure.entry \in Int /\ Len(closure.elems) \in Nat
      BY <3>2, <3>3
    <3> HIDE DEF closure
    <3>5. CapturedBy(closure) \in Int
      BY <3>4 DEF CapturedBy, LenOf
    <3>6. I.a \in Int
      BY <1>6, FetchedInstruction DEF CallClosure, At, IsInstruction
    <3> QED
      BY <1>6, <2>2, <3>4, <3>5, <3>6, EnterKeepsType DEF CallClosure, At
  <2> QED
    BY <1>6, <2>1, <2>2 DEF CallClosure
<1> QED
  BY <1>1, <1>2, <1>3, <1>4, <1>5, <1>6, BeginKeepsType, MakeClosureKeepsType,
     ReturnKeepsType DEF Control

LEMMA InitType ==
  ASSUME Init
  PROVE  TypeOK
<1>1. P.globals \in Nat
  BY ProgramsAssumption DEF Init, P, IsProgram
<1>2. /\ sp \in 0 .. STACK_MAX_SIZE
      /\ base \in Int /\ args \in Int /\ ip \in Int
      /\ locals \in Int /\ captured \in Int /\ is_closure \in BOOLEAN
  <2>1. sp \in 0 .. STACK_MAX_SIZE /\ base \in Int /\ args \in Int /\ ip \in Int
    BY <1>1, BoundsAssumption DEF Init, Fits
  <2>2. locals \in Int /\ captured \in Int /\ is_closure \in BOOLEAN
    <3>1. Garbage \subseteq Nat
      BY BoundsAssumption
    <3>2. locals \in Int
      BY <3>1 DEF Init
    <3>3. captured \in Int
      BY <3>1 DEF Init
    <3>4. is_closure \in BOOLEAN
      BY DEF Init
    <3> QED
      BY <3>2, <3>3, <3>4
  <2> QED
    BY <2>1, <2>2
<1>3. heap \in Seq(Object(Len(heap))) /\ out \in Seq(Int)
  BY DEF Init
<1>4. stack \in [Slots -> Value(Len(heap))]
  BY TruthIsValue DEF Init
<1>5. OuterFrame \in Frame /\ OuterFrame.prev_ip = 0
  BY DEF OuterFrame, Frame
<1>6. /\ frames \in Seq(Frame) /\ frames # <<>>
      /\ \A k \in 1 .. Len(frames) : frames[k].prev_ip = 0 <=> k = 1
  BY <1>5 DEF Init
<1> QED
  BY <1>2, <1>3, <1>4, <1>6 DEF Init, TypeOK, Statuses, Undefined

LEMMA NextKeepsType ==
  ASSUME TypeOK, [Next]_vars
  PROVE  TypeOK'
<1>1. CASE UNCHANGED vars
  BY <1>1 DEF vars, memory, registers, TypeOK, P
<1>2. CASE UNCHANGED <<prog, out>> /\ (Data \/ Variable \/ Control)
  BY <1>2, DataKeepsType, VariableKeepsType, ControlKeepsType
<1>3. CASE UNCHANGED prog /\ Write
  BY <1>3, WriteKeepsType
<1> QED
  BY <1>1, <1>2, <1>3 DEF Next, Exited

(* Whatever code is loaded, whatever counts its instructions carry, whether  *)
(* its globals fit on the stack or not, and whichever interpreter runs it:  *)
(* as long as the run is defined, registers and slots keep their types,     *)
(* every reference on the stack or in an object is to an allocated object,  *)
(* and only the outermost frame carries the return address 0 that END and   *)
(* RET take for the end of the program.                                     *)
THEOREM TypeCorrect == Spec => []TypeOK
<1>1. Init => TypeOK
  BY InitType
<1>2. TypeOK /\ [Next]_vars => TypeOK'
  BY NextKeepsType
<1> QED
  BY <1>1, <1>2, PTL DEF Spec

-----------------------------------------------------------------------------
(***************************************************************************)
(* The discipline of the stack: in well-formed code it stays cut into the   *)
(* slots of its activations, the check of BEGIN keeps Interpreter2 inside   *)
(* the stack, and no activation touches its callers' slots.                *)
(***************************************************************************)

(* Every closure of the heap is entered where a function opens.             *)
Enters(h) == \A r \in 1 .. Len(h) :
               h[r].type = "CLOSURE" => IsEntry(P, h[r].entry)

(* The saved and current bases and argument counts are no negative numbers. *)
Counts == /\ base \in Nat /\ args \in Nat
          /\ \A k \in 1 .. Depth : /\ frames[k].prev_base \in Nat
                                   /\ frames[k].prev_args \in Nat

(* An activation with base b, past its BEGIN, at instruction i: BEGIN has    *)
(* found room for its locals and for the deepest operand stack.             *)
RoomAt(b, i) == b + Locals(Header(i)) + MaxDepth(Header(i)) <= STACK_MAX_SIZE

Room == (VERIFIED /\ prog \in Bounded) =>
          /\ I.op \notin Begins => RoomAt(base, ip)
          /\ \A k \in 2 .. Depth : RoomAt(Base(k - 1), frames[k].prev_ip)

(* The inductive invariant.                                                *)
StackInv == /\ TypeOK
            /\ prog \in Sound => Counts
            /\ Balanced
            /\ StackSafe
            /\ (prog \in Sound /\ status = "running") => Enters(heap) /\ Room

-----------------------------------------------------------------------------
(***************************************************************************)
(* What well-formed code says of an instruction and of its successors.      *)
(***************************************************************************)

(* The instructions that leave control at the next one.                     *)
Sequential == Opcodes \ (NotImplemented \cup Begins \cup Returns \cup Branches
                           \cup {"JMP", "FAIL"})

LEMMA SequentialSuccessor ==
  ASSUME NEW p, NEW i, p.code[i].op \in Sequential \cup Begins
  PROVE  i + 1 \in Successors(p, i)
BY DEF Sequential, Successors, Opcodes, Begins, Branches, Returns, NotImplemented,
       AddressOf, Binary, Arithmetic, Relational, Patterns, Loads, Stores

LEMMA PushedIsNatural ==
  ASSUME NEW i
  PROVE  Pushed(i) \in Nat
BY DEF Pushed

LEMMA BeginMovesNothing ==
  ASSUME NEW i, i.op \in Begins
  PROVE  Popped(i) = 0 /\ Pushed(i) = 0
<1>1. Popped(i) = 0
  BY DEF Popped, Begins, Loads, AddressOf, Binary, Arithmetic, Relational,
         Returns, Stores, Branches, Patterns
<1>2. Pushed(i) = 0
  BY DEF Pushed, PushesTwo, PushesNone, Begins
<1> QED
  BY <1>1, <1>2

(* What each instruction pops and pushes.                                   *)
LEMMA PoppedTable ==
  ASSUME NEW i
  PROVE  /\ i.op \in {"CONST", "STRING", "JMP", "CLOSURE", "LINE", "CALL_Lread"}
                       \cup Loads => Popped(i) = 0
         /\ i.op \in Binary \cup {"SWAP", "ELEM", "PATT_eq"} => Popped(i) = 2
         /\ i.op = "STA" => Popped(i) = 3
         /\ i.op \in {"SEXP", "CALL"} => Popped(i) = i.b
         /\ i.op = "CALLC" => Popped(i) = i.a + 1
         /\ i.op = "CALL_Barray" => Popped(i) = i.a
         /\ i.op \in Returns \cup Stores \cup Branches \cup Patterns
                       \cup {"DROP", "DUP", "TAG", "ARRAY", "FAIL", "CALL_Lwrite",
                             "CALL_Llength", "CALL_Lstring"} => Popped(i) = 1
BY DEF Popped, Begins, Loads, AddressOf, Binary, Arithmetic, Relational, Returns,
       Stores, Branches, Patterns

LEMMA PushedTable ==
  ASSUME NEW i
  PROVE  /\ i.op \in {"DUP", "SWAP"} => Pushed(i) = 2
         /\ i.op \in {"JMP", "DROP", "FAIL", "LINE"} \cup Branches => Pushed(i) = 0
         /\ i.op \in Binary \cup Loads \cup Stores \cup Patterns \cup Returns
                       \cup {"CONST", "STRING", "CLOSURE", "CALL_Lread", "ELEM",
                             "PATT_eq", "STA", "SEXP", "CALL", "CALLC",
                             "CALL_Barray", "TAG", "ARRAY", "CALL_Lwrite",
                             "CALL_Llength", "CALL_Lstring"} => Pushed(i) = 1
BY DEF Pushed, PushesTwo, PushesNone, Opcodes, Begins, Loads, AddressOf, Binary,
       Arithmetic, Relational, Returns, Stores, Branches, Patterns, NotImplemented

LEMMA ReachableInstruction ==
  ASSUME TypeOK, prog \in Sound, NEW i \in Reachable(P)
  PROVE  /\ WellPlaced(P, i)
         /\ i \in Nat
         /\ IsInstruction(P.code[i])
         /\ P.depth[i] \in Nat
         /\ P.owner[i] \in Int
         /\ Locals(Header(i)) \in Nat
         /\ MaxDepth(Header(i)) \in Nat
<1>1. WellFormed(P) /\ IsProgram(P)
  BY LoadedProgram, SoundProgramFits
<1>2. i \in DOMAIN P.code /\ P.depth[i] >= 0 /\ P.depth[i] \in Int /\ P.owner[i] \in Int
  BY <1>1 DEF Reachable, IsProgram
<1>3. WellPlaced(P, i)
  BY <1>1 DEF WellFormed
<1>4. P.owner[i] \in Reachable(P) /\ P.code[P.owner[i]].op \in Begins
  BY <1>3 DEF WellPlaced, IsEntry
<1>5. Header(i).b \in Nat
  <2>1. WellPlaced(P, P.owner[i])
    BY <1>1, <1>4 DEF WellFormed
  <2> QED
    BY <1>4, <2>1 DEF Header, WellPlaced
<1> QED
  BY <1>1, <1>2, <1>3, <1>5 DEF IsProgram, Locals, MaxDepth, LOCALS_RANGE

(* The slots of an activation hold what its instruction pops.               *)
LEMMA HeightCoversOperands ==
  ASSUME TypeOK, prog \in Sound, NEW i \in Reachable(P)
  PROVE  /\ Height(i) \in Nat
         /\ Popped(P.code[i]) \in Nat
         /\ Pushed(P.code[i]) \in Nat
         /\ Height(i) >= Popped(P.code[i])
         /\ P.code[i].op \notin Begins =>
              Height(i) >= Popped(P.code[i]) + Locals(Header(i))
<1>1. /\ P.code[i].op \in Opcodes
      /\ Popped(P.code[i]) \in Nat
      /\ P.depth[i] >= Popped(P.code[i])
  BY ReachableInstruction DEF WellPlaced
<1>2. P.depth[i] \in Nat /\ Locals(Header(i)) \in Nat
  BY ReachableInstruction
<1> QED
  BY <1>1, <1>2, BeginMovesNothing, PushedIsNatural DEF Height

(* One step inside a function moves the height by what the instruction       *)
(* pushes and pops; BEGIN adds the locals.                                  *)
LEMMA SuccessorHeight ==
  ASSUME TypeOK, prog \in Sound, NEW i \in Reachable(P), NEW s \in Successors(P, i)
  PROVE  /\ ReturnPoint(s)
         /\ Header(s) = Header(i)
         /\ P.code[i].op \notin Begins =>
              Height(s) = Height(i) + Pushed(P.code[i]) - Popped(P.code[i])
         /\ P.code[i].op \in Begins =>
              Header(i) = P.code[i] /\ Height(s) = Locals(P.code[i])
<1>1. WellPlaced(P, i) /\ P.depth[i] \in Nat /\ Locals(Header(i)) \in Nat
  BY ReachableInstruction
<1>2. Follows(P, i, s)
  BY <1>1 DEF WellPlaced
<1>3. ReturnPoint(s) /\ Header(s) = Header(i)
  BY <1>2 DEF Follows, ReturnPoint, Header
<1>4. Height(s) = Locals(Header(i)) + P.depth[s]
  BY <1>2, <1>3 DEF Height, Follows
<1>5. Popped(P.code[i]) \in Nat /\ Pushed(P.code[i]) \in Nat
  BY HeightCoversOperands
<1>6. P.depth[s] = P.depth[i] + Pushed(P.code[i]) - Popped(P.code[i])
  BY <1>2 DEF Follows
<1>7. CASE P.code[i].op \notin Begins
  BY <1>1, <1>3, <1>4, <1>5, <1>6, <1>7 DEF Height
<1>8. CASE P.code[i].op \in Begins
  <2>1. Header(i) = P.code[i] /\ P.depth[i] = 0
    BY <1>1, <1>8 DEF WellPlaced, Header
  <2> QED
    BY <1>1, <1>3, <1>4, <1>6, <1>8, <2>1, BeginMovesNothing
<1> QED
  BY <1>7, <1>8

(* A header's depth bounds every height of its function.                     *)
LEMMA HeightBounded ==
  ASSUME TypeOK, prog \in Bounded, NEW i \in Reachable(P), P.code[i].op \notin Begins
  PROVE  Height(i) <= Locals(Header(i)) + MaxDepth(Header(i))
<1>1. prog \in Sound /\ Annotated(P)
  BY DEF Bounded, P
<1>2. P.depth[i] <= MaxDepth(Header(i))
  BY <1>1 DEF Annotated, Header
<1>3. P.depth[i] \in Nat /\ Locals(Header(i)) \in Nat /\ MaxDepth(Header(i)) \in Nat
  BY <1>1, ReachableInstruction
<1> QED
  BY <1>2, <1>3 DEF Height

-----------------------------------------------------------------------------
(***************************************************************************)
(* Steps that stop and steps that go on to the next instruction.            *)
(***************************************************************************)
StopsSafely ==
  \E s \in Statuses \ {"running"} :
    /\ Stop(s)
    /\ (VERIFIED /\ prog \in Bounded) => s \notin {"underflow", "overflow"}

(* Slots of the callers, which a step of the running activation keeps.       *)
CallersKept == \A j \in Slots : (P.globals <= j /\ j < Floor) => stack'[j] = stack[j]

(* Until it returns, an activation also keeps the slot of its own closure.    *)
BelowArgsKept ==
  \A j \in Slots : (P.globals <= j /\ j < base - args) => stack'[j] = stack[j]

(* Objects keep their type and their length.                                 *)
ObjectsStay(h) ==
  \A r \in 1 .. Len(heap) : /\ r \in 1 .. Len(h)
                            /\ h[r].type = heap[r].type
                            /\ Len(h[r].elems) = Len(heap[r].elems)

StepsOn == /\ ip' = ip + 1
           /\ sp' = sp + Pushed(I) - Popped(I)
           /\ UNCHANGED <<registers, status>>
           /\ Enters(heap')
           /\ ObjectsStay(heap')
           /\ BelowArgsKept

(* What an instruction must compute to step on.                              *)
Suited(o) == o.ok => Len(o.push) = Pushed(I) /\ Enters(o.heap) /\ ObjectsStay(o.heap)

(* The facts at a running instruction of well-formed code.                   *)
LEMMA RunningFacts ==
  ASSUME StackInv, prog \in Sound, status = "running"
  PROVE  /\ ip \in Reachable(P) /\ ip \in DOMAIN P.code
         /\ sp = base + Height(ip)
         /\ sp \in Nat /\ base \in Nat /\ args \in Nat /\ Floor \in Int
         /\ Floor <= base
         /\ Height(ip) \in Nat
         /\ Popped(I) \in Nat /\ Pushed(I) \in Nat
         /\ sp - Popped(I) >= base
         /\ Enters(heap)
<1>1. ip \in Reachable(P) /\ sp = base + Height(ip)
  BY DEF StackInv, Balanced
<1>2. base \in Nat /\ args \in Nat /\ sp \in Nat
  BY DEF StackInv, Counts, TypeOK
<1>3. /\ Height(ip) \in Nat /\ Popped(I) \in Nat /\ Pushed(I) \in Nat
      /\ Height(ip) >= Popped(I)
  BY <1>1, HeightCoversOperands DEF StackInv, I
<1>4. Floor \in Int /\ Floor <= base
  BY <1>2 DEF Floor
<1>5. ip \in DOMAIN P.code /\ Enters(heap)
  BY <1>1 DEF StackInv, Reachable
<1> QED
  BY <1>1, <1>2, <1>3, <1>4, <1>5

LEMMA CalledCount ==
  ASSUME StackInv, prog \in Sound, status = "running", I.op = "CALLC"
  PROVE  I.a \in Nat
BY RunningFacts, ReachableInstruction DEF StackInv, WellPlaced, I

LEMMA StopIsSafe ==
  ASSUME NEW s \in {"failed", "exhausted", "wild", "halted"}, Stop(s)
  PROVE  StopsSafely
BY DEF StopsSafely, Statuses, Undefined

(* A step on ends inside the stack whenever BEGIN has found room.            *)
LEMMA NextHeightFits ==
  ASSUME StackInv, prog \in Bounded, VERIFIED, status = "running",
         I.op \notin Begins, NEW s \in Successors(P, ip)
  PROVE  sp + Pushed(I) - Popped(I) <= STACK_MAX_SIZE
<1>1. prog \in Sound /\ TypeOK /\ STACK_MAX_SIZE \in Nat
  BY BoundsAssumption DEF Bounded, StackInv
<1>2. ip \in Reachable(P) /\ sp = base + Height(ip) /\ base \in Nat
      /\ Height(ip) \in Nat /\ Popped(I) \in Nat /\ Pushed(I) \in Nat
  BY <1>1, RunningFacts
<1>3. /\ ReturnPoint(s) /\ Header(s) = Header(ip)
      /\ Height(s) = Height(ip) + Pushed(I) - Popped(I)
  BY <1>1, <1>2, SuccessorHeight DEF I
<1>4. Height(s) <= Locals(Header(s)) + MaxDepth(Header(s))
  BY <1>1, <1>3, HeightBounded DEF ReturnPoint
<1>5. RoomAt(base, ip)
  BY <1>1 DEF StackInv, Room
<1>6. Locals(Header(ip)) \in Nat /\ MaxDepth(Header(ip)) \in Nat
  BY <1>1, <1>2, ReachableInstruction
<1> QED
  BY <1>1, <1>2, <1>3, <1>4, <1>5, <1>6 DEF RoomAt

(* push and pop never fault where the code is well-formed.                   *)
LEMMA OperateStep ==
  ASSUME StackInv, prog \in Sound, status = "running", I.op \in Sequential,
         NEW o, Suited(o), Operate(Popped(I), o)
  PROVE  StopsSafely \/ StepsOn
<1> DEFINE k == Popped(I)
           low == sp - k
           new == o.push
<1>1. /\ k \in Nat /\ sp \in Nat /\ low \in Nat /\ low >= base /\ Pushed(I) \in Nat
      /\ base \in Nat /\ args \in Nat
  BY RunningFacts
<1>2. STACK_MAX_SIZE \in Nat
  BY BoundsAssumption
<1>3. CASE ~ o.ok
  <2>1. Stop("failed")
    BY <1>1, <1>3 DEF Operate
  <2> QED
    BY <2>1, StopIsSafe
<1>4. CASE o.ok /\ ~ Fits(low + Len(new))
  <2>1. Stop(PushFault)
    BY <1>1, <1>4 DEF Operate
  <2>2. ~ (VERIFIED /\ prog \in Bounded)
    <3>1. low + Len(new) = sp + Pushed(I) - Popped(I)
      BY <1>1, <1>4 DEF Suited
    <3>2. ~ (sp + Pushed(I) - Popped(I) <= STACK_MAX_SIZE)
      BY <1>4, <3>1 DEF Fits
    <3>3. ip + 1 \in Successors(P, ip) /\ I.op \notin Begins
      BY SequentialSuccessor DEF I, Sequential
    <3> QED
      BY <3>2, <3>3, NextHeightFits
  <2>3. PushFault \in Statuses \ {"running"}
    BY DEF PushFault, Statuses, Undefined
  <2> QED
    BY <2>1, <2>2, <2>3 DEF StopsSafely
<1>5. CASE o.ok /\ Fits(low + Len(new))
  <2>1. /\ stack' = [j \in Slots |-> IF j \in low .. low + Len(new) - 1
                                       THEN new[j - low + 1] ELSE stack[j]]
        /\ sp' = low + Len(new)
        /\ heap' = o.heap
        /\ ip' = ip + 1
        /\ UNCHANGED <<registers, status>>
    BY <1>1, <1>5 DEF Operate
  <2>2. Len(new) = Pushed(I) /\ Enters(heap') /\ ObjectsStay(heap')
    BY <1>5, <2>1 DEF Suited
  <2>3. BelowArgsKept
    <3> SUFFICES ASSUME NEW j \in Slots, j < base - args
                 PROVE  stack'[j] = stack[j]
      BY DEF BelowArgsKept
    <3>1. j \in Int /\ ~ (j \in low .. low + Len(new) - 1)
      BY <1>1, <2>2 DEF Slots
    <3> HIDE DEF low, new
    <3> QED
      BY <2>1, <3>1
  <2>4. sp' = sp + Pushed(I) - Popped(I)
    BY <1>1, <2>1, <2>2
  <2> QED
    BY <2>1, <2>2, <2>3, <2>4 DEF StepsOn
<1> QED
  BY <1>3, <1>4, <1>5

-----------------------------------------------------------------------------
(***************************************************************************)
(* What each instruction computes.                                         *)
(***************************************************************************)
LEMMA HeapStays == ObjectsStay(heap)
BY DEF ObjectsStay

LEMMA PushesSuited ==
  ASSUME Enters(heap), NEW vs, Len(vs) = Pushed(I)
  PROVE  Suited(Pushes(vs, heap))
BY HeapStays DEF Suited, Pushes

LEMMA OneSuited ==
  ASSUME Enters(heap), Pushed(I) = 1
  PROVE  /\ \A v : Suited(Pushes(<<v>>, heap))
         /\ \A v, c : Suited(AssertThen(c, Pushes(<<v>>, heap), heap))
BY HeapStays DEF Suited, Pushes, AssertThen, Refused

(* An object with no code to enter, or a closure entered at a BEGIN.         *)
LEMMA AllocatesSuited ==
  ASSUME TypeOK, Enters(heap), Pushed(I) = 1,
         NEW o, o.type # "CLOSURE" \/ IsEntry(P, o.entry)
  PROVE  /\ Suited(Allocates(o, heap))
         /\ \A c : Suited(AssertThen(c, Allocates(o, heap), heap))
<1> DEFINE g == Append(heap, o)
<1>1. heap \in Seq(Object(Len(heap))) /\ Len(heap) \in Nat
  BY DEF TypeOK
<1>2. Len(g) = Len(heap) + 1 /\ \A r \in 1 .. Len(heap) : g[r] = heap[r]
  BY <1>1
<1>3. g[Len(heap) + 1] = o
  BY <1>1
<1> HIDE DEF g
<1>4. Enters(g)
  <2> SUFFICES ASSUME NEW r \in 1 .. Len(g), g[r].type = "CLOSURE"
               PROVE  IsEntry(P, g[r].entry)
    BY DEF Enters
  <2>1. CASE r = Len(heap) + 1
    BY <1>3, <2>1
  <2>2. CASE r # Len(heap) + 1
    BY <1>1, <1>2, <2>2 DEF Enters
  <2> QED
    BY <2>1, <2>2
<1>5. ObjectsStay(g)
  BY <1>1, <1>2 DEF ObjectsStay
<1>6. (Allocates(o, heap)).heap = g /\ Len((Allocates(o, heap)).push) = 1
  BY DEF Allocates, Pushes, g
<1> QED
  BY <1>4, <1>5, <1>6 DEF Suited, AssertThen, Refused

(* Assigning an element changes no closure's entry and no object's length.   *)
LEMMA AssignedEnters ==
  ASSUME TypeOK, Enters(heap), NEW r \in 1 .. Len(heap), NEW k, NEW v
  PROVE  Enters(Assigned(heap, r, k, v)) /\ ObjectsStay(Assigned(heap, r, k, v))
<1> DEFINE o == [heap[r] EXCEPT !.elems = [heap[r].elems EXCEPT ![k] = v]]
           g == [heap EXCEPT ![r] = o]
<1>1. heap \in Seq(Object(Len(heap))) /\ heap[r] \in Object(Len(heap))
  BY DEF TypeOK
<1>2. /\ o.type = heap[r].type /\ o.entry = heap[r].entry
      /\ Len(o.elems) = Len(heap[r].elems)
  <2>1. heap[r].elems \in Seq(Value(Len(heap))) /\ o.elems = [heap[r].elems EXCEPT ![k] = v]
    BY <1>1 DEF Object
  <2>2. Len([heap[r].elems EXCEPT ![k] = v]) = Len(heap[r].elems)
    BY <2>1
  <2> QED
    BY <1>1, <2>1, <2>2 DEF Object
<1> HIDE DEF o
<1>3. Len(g) = Len(heap) /\ \A q \in 1 .. Len(heap) : g[q] = IF q = r THEN o ELSE heap[q]
  BY <1>1
<1> HIDE DEF g
<1>4. Enters(g) /\ ObjectsStay(g)
  BY <1>2, <1>3 DEF Enters, ObjectsStay
<1>5. Assigned(heap, r, k, v) = g
  BY DEF Assigned, g, o
<1> QED
  BY <1>4, <1>5

LEMMA StaSuited ==
  ASSUME TypeOK, Enters(heap), Pushed(I) = 1, sp >= 3
  PROVE  Suited(StaOutcome(Top(3), Top(2), Top(1), heap))
<1> DEFINE g == StoreElement(heap, Top(3), Top(2), Top(1))
<1>1. \A j \in 1 .. 3 : Top(j) \in Value(Len(heap))
  BY OperandTypes DEF TypeOK
<1>2. ASSUME InRange(heap, Top(3), Top(2)) PROVE Enters(g) /\ ObjectsStay(g)
  <2>1. Top(3).val \in 1 .. Len(heap)
    BY <1>1, <1>2, OperandTypes, InRangeMeans
  <2> QED
    BY <2>1, AssignedEnters, HeapStays DEF StoreElement
<1> HIDE DEF g
<1>3. StaOutcome(Top(3), Top(2), Top(1), heap) =
        AssertThen(InRange(heap, Top(3), Top(2))
                     /\ (heap[Top(3).val].type = "STRING" => IsStorableChar(Top(1))),
                   Pushes(<<Top(1)>>, g), heap)
  BY DEF StaOutcome, g
<1> QED
  BY <1>2, <1>3 DEF Suited, Pushes, AssertThen, Refused

LEMMA BinarySuited ==
  ASSUME Enters(heap), Pushed(I) = 1, NEW op, NEW x, NEW y
  PROVE  Suited(BinaryOutcome(op, x, y, heap))
BY HeapStays DEF BinaryOutcome, Suited, Pushes, AssertThen, Refused

LEMMA TestsSuited ==
  ASSUME Enters(heap), Pushed(I) = 1, NEW a, NEW b, NEW c
  PROVE  /\ Suited(TagOutcome(a, b, c, heap))
         /\ Suited(ArrayOutcome(a, b, heap))
         /\ Suited(PattEqOutcome(a, b, heap))
         /\ Suited(PatternOutcome(a, b, heap))
         /\ Suited(ElemOutcome(a, b, heap))
         /\ Suited(LengthOutcome(a, heap))
         /\ Suited(WriteOutcome(a, heap))
BY OneSuited DEF TagOutcome, ArrayOutcome, PattEqOutcome, PatternOutcome, ElemOutcome,
   LengthOutcome, WriteOutcome

LEMMA ObjectsSuited ==
  ASSUME TypeOK, Enters(heap), Pushed(I) = 1
  PROVE  /\ \A cs : Suited(Allocates(StringOf(cs), heap))
         /\ \A es : Suited(Allocates(Array(es), heap))
         /\ \A name, es : Suited(SexpOutcome(name, es, heap))
<1>1. \A cs : (StringOf(cs)).type # "CLOSURE"
  BY DEF StringOf
<1>2. \A es : (Array(es)).type # "CLOSURE"
  BY DEF Array
<1>3. \A t, es : (Sexp(t, es)).type # "CLOSURE"
  BY DEF Sexp
<1> QED
  BY <1>1, <1>2, <1>3, AllocatesSuited DEF SexpOutcome

LEMMA SequentialTable ==
  /\ Binary \cup Patterns \cup Loads \cup Stores \subseteq Sequential
  /\ {"CONST", "STRING", "SEXP", "STA", "DROP", "DUP", "SWAP", "ELEM", "CLOSURE",
      "CALLC", "CALL", "TAG", "ARRAY", "LINE", "PATT_eq", "CALL_Lread", "CALL_Lwrite",
      "CALL_Llength", "CALL_Lstring", "CALL_Barray"} \subseteq Sequential
BY DEF Sequential, Opcodes, Binary, Arithmetic, Relational, Patterns, Loads, Stores,
       NotImplemented, AddressOf, Begins, Returns, Branches

LEMMA DataStep ==
  ASSUME StackInv, prog \in Sound, status = "running", Data
  PROVE  StopsSafely \/ StepsOn
<1> USE DEF At
<1>0. TypeOK /\ Enters(heap)
  BY RunningFacts DEF StackInv
<1>a. ASSUME NEW o, Suited(o), I.op \in Sequential, Operate(Popped(I), o)
      PROVE  StopsSafely \/ StepsOn
  BY <1>a, OperateStep
<1>1. CASE BinaryOp
  <2>1. I.op \in Sequential /\ Popped(I) = 2 /\ Pushed(I) = 1
    BY <1>1, SequentialTable, PoppedTable, PushedTable DEF BinaryOp
  <2> QED
    BY <1>0, <1>1, <1>a, <2>1, BinarySuited DEF BinaryOp
<1>2. CASE Const
  <2>1. I.op \in Sequential /\ Popped(I) = 0 /\ Pushed(I) = 1
    BY <1>2, SequentialTable, PoppedTable, PushedTable DEF Const
  <2> QED
    BY <1>0, <1>2, <1>a, <2>1, OneSuited DEF Const
<1>3. CASE LoadString
  <2>1. I.op \in Sequential /\ Popped(I) = 0 /\ Pushed(I) = 1
    BY <1>3, SequentialTable, PoppedTable, PushedTable DEF LoadString
  <2> QED
    BY <1>0, <1>3, <1>a, <2>1, ObjectsSuited, StopIsSafe DEF LoadString, WithString
<1>4. CASE MakeSexp
  <2>1. I.op \in Sequential /\ Popped(I) = I.b /\ Pushed(I) = 1
    BY <1>4, SequentialTable, PoppedTable, PushedTable DEF MakeSexp
  <2> QED
    BY <1>0, <1>4, <1>a, <2>1, ObjectsSuited, StopIsSafe DEF MakeSexp, WithString, WithCount
<1>5. CASE MakeArray
  <2>1. I.op \in Sequential /\ Popped(I) = I.a /\ Pushed(I) = 1
    BY <1>5, SequentialTable, PoppedTable, PushedTable DEF MakeArray
  <2> QED
    BY <1>0, <1>5, <1>a, <2>1, ObjectsSuited, StopIsSafe DEF MakeArray, WithCount
<1>6. CASE StoreInto
  <2>1. I.op \in Sequential /\ Popped(I) = 3 /\ Pushed(I) = 1
    BY <1>6, SequentialTable, PoppedTable, PushedTable DEF StoreInto
  <2>2. sp >= 3
    BY <2>1, RunningFacts
  <2> QED
    BY <1>0, <1>6, <1>a, <2>1, <2>2, StaSuited DEF StoreInto
<1>7. CASE Elem
  <2>1. I.op \in Sequential /\ Popped(I) = 2 /\ Pushed(I) = 1
    BY <1>7, SequentialTable, PoppedTable, PushedTable DEF Elem
  <2> QED
    BY <1>0, <1>7, <1>a, <2>1, TestsSuited DEF Elem
<1>8. CASE Drop
  <2>1. I.op \in Sequential /\ Popped(I) = 1 /\ Pushed(I) = 0
    BY <1>8, SequentialTable, PoppedTable, PushedTable DEF Drop
  <2> QED
    BY <1>0, <1>8, <1>a, <2>1, PushesSuited DEF Drop
<1>9. CASE Dup
  <2>1. I.op \in Sequential /\ Popped(I) = 1 /\ Pushed(I) = 2
    BY <1>9, SequentialTable, PoppedTable, PushedTable DEF Dup
  <2>2. Len(<<Top(1), Top(1)>>) = 2
    OBVIOUS
  <2> QED
    BY <1>0, <1>9, <1>a, <2>1, <2>2, PushesSuited DEF Dup
<1>10. CASE Swap
  <2>1. I.op \in Sequential /\ Popped(I) = 2 /\ Pushed(I) = 2
    BY <1>10, SequentialTable, PoppedTable, PushedTable DEF Swap
  <2>2. Len(<<Top(1), Top(2)>>) = 2
    OBVIOUS
  <2> QED
    BY <1>0, <1>10, <1>a, <2>1, <2>2, PushesSuited DEF Swap
<1>11. CASE TestTag
  <2>1. I.op \in Sequential /\ Popped(I) = 1 /\ Pushed(I) = 1
    BY <1>11, SequentialTable, PoppedTable, PushedTable DEF TestTag
  <2>2. ~ (sp < 1)
    BY <1>11, <2>1, RunningFacts DEF TestTag
  <2> QED
    BY <1>0, <1>11, <1>a, <2>1, <2>2, TestsSuited, StopIsSafe DEF TestTag, WithString
<1>12. CASE TestArray
  <2>1. I.op \in Sequential /\ Popped(I) = 1 /\ Pushed(I) = 1
    BY <1>12, SequentialTable, PoppedTable, PushedTable DEF TestArray
  <2> QED
    BY <1>0, <1>12, <1>a, <2>1, TestsSuited DEF TestArray
<1>13. CASE PattEq
  <2>1. I.op \in Sequential /\ Popped(I) = 2 /\ Pushed(I) = 1
    BY <1>13, SequentialTable, PoppedTable, PushedTable DEF PattEq
  <2> QED
    BY <1>0, <1>13, <1>a, <2>1, TestsSuited DEF PattEq
<1>14. CASE Pattern
  <2>1. I.op \in Sequential /\ Popped(I) = 1 /\ Pushed(I) = 1
    BY <1>14, SequentialTable, PoppedTable, PushedTable DEF Pattern
  <2> QED
    BY <1>0, <1>14, <1>a, <2>1, TestsSuited DEF Pattern
<1>15. CASE Length
  <2>1. I.op \in Sequential /\ Popped(I) = 1 /\ Pushed(I) = 1
    BY <1>15, SequentialTable, PoppedTable, PushedTable DEF Length
  <2> QED
    BY <1>0, <1>15, <1>a, <2>1, TestsSuited DEF Length
<1>16. CASE Line
  <2>1. I.op \in Sequential /\ Popped(I) = 0 /\ Pushed(I) = 0
    BY <1>16, SequentialTable, PoppedTable, PushedTable DEF Line
  <2> QED
    BY <1>0, <1>16, <1>a, <2>1, PushesSuited DEF Line
<1>17. CASE Read
  <2>1. I.op \in Sequential /\ Popped(I) = 0 /\ Pushed(I) = 1
    BY <1>17, SequentialTable, PoppedTable, PushedTable DEF Read
  <2> QED
    BY <1>0, <1>17, <1>a, <2>1, OneSuited DEF Read
<1>18. CASE Stringify
  <2>1. I.op \in Sequential /\ Popped(I) = 1 /\ Pushed(I) = 1
    BY <1>18, SequentialTable, PoppedTable, PushedTable DEF Stringify
  <2> QED
    BY <1>0, <1>18, <1>a, <2>1, ObjectsSuited DEF Stringify
<1> QED
  BY <1>1, <1>2, <1>3, <1>4, <1>5, <1>6, <1>7, <1>8, <1>9, <1>10, <1>11, <1>12,
     <1>13, <1>14, <1>15, <1>16, <1>17, <1>18 DEF Data

LEMMA LoadSlotStep ==
  ASSUME StackInv, prog \in Sound, status = "running", I.op \in Loads,
         NEW slot, NEW legal, LoadSlot(slot, legal)
  PROVE  StopsSafely \/ StepsOn
<1>1. I.op \in Sequential /\ Popped(I) = 0 /\ Pushed(I) = 1 /\ Enters(heap)
  BY SequentialTable, PoppedTable, PushedTable, RunningFacts
<1>2. CASE Stop("failed") \/ Stop("wild")
  BY <1>2, StopIsSafe
<1>3. CASE Operate(0, Pushes(<<stack[slot]>>, heap))
  BY <1>1, <1>3, OneSuited, OperateStep
<1> QED
  BY <1>2, <1>3 DEF LoadSlot

(* A store reaches globals and the running activation's own slots.           *)
LEMMA StoreSlotStep ==
  ASSUME StackInv, prog \in Sound, status = "running", I.op \in Stores,
         NEW slot, NEW legal, StoreSlot(slot, legal),
         slot < P.globals \/ slot >= base - args
  PROVE  StopsSafely \/ StepsOn
<1>1. /\ Popped(I) = 1 /\ Pushed(I) = 1 /\ Enters(heap)
      /\ sp \in Nat /\ base \in Nat /\ args \in Nat /\ sp - Popped(I) >= base
  BY PoppedTable, PushedTable, RunningFacts
<1>2. CASE Stop("failed") \/ Stop("wild")
  BY <1>2, StopIsSafe
<1>3. CASE /\ stack' = [stack EXCEPT ![slot] = Top(1)]
           /\ ip' = ip + 1
           /\ UNCHANGED <<sp, heap, registers, status>>
  <2>1. P.globals \in Nat
    BY LoadedProgram DEF StackInv
  <2>2. BelowArgsKept
    <3> SUFFICES ASSUME NEW j \in Slots, P.globals <= j, j < base - args
                 PROVE  stack'[j] = stack[j]
      BY DEF BelowArgsKept
    <3>1. j # slot
      BY <1>1, <2>1 DEF Slots
    <3> QED
      BY <1>3, <3>1 DEF StackInv, TypeOK
  <2>3. Enters(heap') /\ ObjectsStay(heap')
    BY <1>1, <1>3 DEF Enters, ObjectsStay
  <2> QED
    BY <1>1, <1>3, <2>2, <2>3 DEF StepsOn
<1> QED
  BY <1>1, <1>2, <1>3 DEF StoreSlot

LEMMA VariableStep ==
  ASSUME StackInv, prog \in Sound, status = "running", Variable
  PROVE  StopsSafely \/ StepsOn
<1> USE DEF At
<1>0. TypeOK /\ Enters(heap)
  BY RunningFacts DEF StackInv
<1>1. CASE LoadGlobal
  BY <1>1, LoadSlotStep DEF LoadGlobal, Loads
<1>2. CASE LoadLocal
  BY <1>2, LoadSlotStep DEF LoadLocal, Loads
<1>3. CASE LoadArg
  BY <1>3, LoadSlotStep DEF LoadArg, Loads
<1>a. /\ base \in Nat /\ args \in Nat
      /\ WellPlaced(P, ip) /\ Locals(Header(ip)) \in Nat
  <2>1. base \in Nat /\ args \in Nat /\ ip \in Reachable(P)
    BY RunningFacts
  <2> QED
    BY <1>0, <2>1, ReachableInstruction
<1>4. CASE StoreGlobal
  <2>1. I.a < P.globals
    BY <1>0, <1>4, <1>a, LoadedProgram DEF StoreGlobal, WellPlaced, I
  <2> QED
    BY <1>4, <2>1, StoreSlotStep DEF StoreGlobal, Stores
<1>5. CASE StoreLocal
  <2>1. I.a \in 0 .. Locals(Header(ip)) - 1
    BY <1>5, <1>a DEF StoreLocal, WellPlaced, I, Header
  <2>2. base + I.a >= base - args
    BY <1>a, <2>1
  <2> QED
    BY <1>5, <2>2, StoreSlotStep DEF StoreLocal, Stores
<1>6. CASE StoreArg
  <2>1. I.a \in 0 .. Header(ip).a - 1
    BY <1>6, <1>a DEF StoreArg, WellPlaced, I, Header
  <2>2. I.a \in Int /\ I.a >= 0
    BY <2>1
  <2>3. ArgSlot(I.a) >= base - args
    BY <1>a, <2>2 DEF ArgSlot
  <2> QED
    BY <1>6, <2>3, StoreSlotStep DEF StoreArg, Stores
<1>7. CASE LoadCaptured
  <2>1. I.op \in Sequential /\ Popped(I) = 0 /\ Pushed(I) = 1
    BY <1>7, SequentialTable, PoppedTable, PushedTable DEF LoadCaptured, Loads
  <2>2. CASE Stop("failed") \/ Stop("wild")
    BY <2>2, StopIsSafe
  <2>3. CASE Operate(0, Pushes(<<Capture(I.a)>>, heap))
    BY <1>0, <2>1, <2>3, OneSuited, OperateStep
  <2> QED
    BY <1>7, <2>2, <2>3 DEF LoadCaptured, WithCapture
<1>8. CASE StoreCaptured
  <2> DEFINE g == Assigned(heap, stack[ClosureSlot].val, I.a + 1, Top(1))
  <2>1. I.op \in Sequential /\ Popped(I) = 1 /\ Pushed(I) = 1
    BY <1>8, SequentialTable, PoppedTable, PushedTable DEF StoreCaptured, Stores
  <2>2. CASE Stop("failed") \/ Stop("wild")
    BY <2>2, StopIsSafe
  <2>3. CASE HoldsCapture(I.a) /\ Operate(1, Pushes(<<Top(1)>>, g))
    <3>1. I.a \in Int
      BY <1>0, <1>8, FetchedInstruction DEF StoreCaptured, IsInstruction
    <3>2. stack[ClosureSlot].val \in 1 .. Len(heap)
      BY <1>0, <2>3, <3>1, CaptureTypes
    <3>3. Enters(g) /\ ObjectsStay(g)
      BY <1>0, <3>2, AssignedEnters
    <3>4. Suited(Pushes(<<Top(1)>>, g))
      BY <2>1, <3>3 DEF Suited, Pushes
    <3> HIDE DEF g
    <3> QED
      BY <2>1, <2>3, <3>4, OperateStep
  <2> QED
    BY <1>8, <2>2, <2>3 DEF StoreCaptured, WithCapture
<1> QED
  BY <1>1, <1>2, <1>3, <1>4, <1>5, <1>6, <1>7, <1>8 DEF Variable

LEMMA WriteStep ==
  ASSUME StackInv, prog \in Sound, status = "running", Write
  PROVE  StopsSafely \/ StepsOn
<1>1. I.op \in Sequential /\ Popped(I) = 1 /\ Pushed(I) = 1 /\ Enters(heap)
  BY SequentialTable, PoppedTable, PushedTable, RunningFacts DEF Write, At
<1> QED
  BY <1>1, TestsSuited, OperateStep DEF Write

LEMMA MakeClosureStep ==
  ASSUME StackInv, prog \in Sound, status = "running", MakeClosure
  PROVE  StopsSafely \/ StepsOn
<1> DEFINE es == [k \in 1 .. Len(I.caps) |-> Captured(Ref(Len(heap) + 1), I.caps[k])]
           c  == Closure(I.a, es)
<1>1. /\ I.op \in Sequential /\ I.op \notin Begins /\ I.op = "CLOSURE"
      /\ Popped(I) = 0 /\ Pushed(I) = 1
  BY SequentialTable, PoppedTable, PushedTable DEF MakeClosure, At, Begins
<1>2. ip \in Reachable(P) /\ Enters(heap) /\ sp \in Nat /\ TypeOK
  BY RunningFacts DEF StackInv
<1>3. IsEntry(P, I.a)
  BY <1>1, <1>2, ReachableInstruction DEF WellPlaced, I
<1>4. CASE Stop("failed") \/ Stop("wild")
  BY <1>4, StopIsSafe
<1>5. CASE sp >= STACK_MAX_SIZE /\ Stop(PushFault)
  <2>1. ip + 1 \in Successors(P, ip)
    BY <1>1, SequentialSuccessor DEF I
  <2>2. ~ (VERIFIED /\ prog \in Bounded)
    BY <1>1, <1>2, <1>5, <2>1, NextHeightFits, BoundsAssumption
  <2>3. PushFault \in Statuses \ {"running"}
    BY DEF PushFault, Statuses, Undefined
  <2> QED
    BY <1>5, <2>2, <2>3 DEF StopsSafely
<1>6. CASE Operate(0, Allocates(c, heap))
  <2>1. c.entry = I.a
    BY DEF Closure
  <2> HIDE DEF c
  <2>2. Suited(Allocates(c, heap))
    BY <1>1, <1>2, <1>3, <2>1, AllocatesSuited
  <2> QED
    BY <1>1, <1>6, <2>2, OperateStep
<1> QED
  BY <1>4, <1>5, <1>6 DEF MakeClosure

-----------------------------------------------------------------------------
(***************************************************************************)
(* The invariant is kept.                                                  *)
(***************************************************************************)
LEMMA StopKeepsInv ==
  ASSUME StackInv, StopsSafely, UNCHANGED prog, TypeOK'
  PROVE  StackInv'
<1>1. PICK s \in Statuses \ {"running"} :
         /\ Stop(s)
         /\ (VERIFIED /\ prog \in Bounded) => s \notin {"underflow", "overflow"}
  BY DEF StopsSafely
<1>2. prog' \in Sound' => Counts'
  BY <1>1 DEF Stop, registers, StackInv, Counts, Depth, Sound
<1>3. status' # "running"
  BY <1>1 DEF Stop
<1>4. StackSafe'
  BY <1>1 DEF Stop, StackSafe
<1> QED
  BY <1>2, <1>3, <1>4 DEF StackInv, Balanced

(* Control moves to a successor inside the running activation.               *)
LEMMA MoveKeepsInv ==
  ASSUME StackInv, prog \in Sound, status = "running", TypeOK',
         I.op \notin Begins, NEW s \in Successors(P, ip),
         ip' = s, sp' = sp + Pushed(I) - Popped(I), Enters(heap'),
         UNCHANGED <<prog, registers, status>>
  PROVE  StackInv'
<1>1. /\ ip \in Reachable(P) /\ sp = base + Height(ip)
      /\ Height(ip) \in Nat /\ base \in Nat
      /\ Popped(I) \in Nat /\ Pushed(I) \in Nat
  BY RunningFacts
<1>2. /\ ReturnPoint(s) /\ Header(s) = Header(ip)
      /\ Height(s) = Height(ip) + Pushed(I) - Popped(I)
  BY <1>1, SuccessorHeight DEF StackInv, I
<1>3. P' = P /\ Sound' = Sound /\ Bounded' = Bounded
  BY DEF P, Sound, Bounded
<1>4. UNCHANGED <<base, args, is_closure, frames>>
  BY DEF registers
<1>5. Counts'
  BY <1>4 DEF StackInv, Counts, Depth
<1>6. Balanced'
  <2>1. sp' = base + Height(s)
    BY <1>1, <1>2
  <2>2. /\ FloorAt(1) = P.globals
        /\ \A k \in 2 .. Depth :
             /\ ReturnPoint(frames[k].prev_ip)
             /\ Base(k - 1) + Height(frames[k].prev_ip) = FloorAt(k) + 1
    BY DEF StackInv, Balanced
  <2> QED
    BY <1>2, <1>3, <1>4, <2>1, <2>2 DEF Balanced, FloorAt, Floor, Base, Depth,
       ReturnPoint, Reachable, Height, Header
<1>7. StackSafe'
  BY DEF StackSafe
<1>8. Enters(heap)' /\ Room'
  <2>1. Enters(heap)'
    BY <1>3 DEF Enters, IsEntry, Reachable
  <2>2. Room'
    BY <1>2, <1>3, <1>4 DEF StackInv, Room, RoomAt, Header, Base, Depth, I
  <2> QED
    BY <2>1, <2>2
<1> QED
  BY <1>5, <1>6, <1>7, <1>8 DEF StackInv

LEMMA StepKeepsInv ==
  ASSUME StackInv, prog \in Sound, status = "running", TypeOK',
         UNCHANGED prog, I.op \in Sequential, StepsOn
  PROVE  StackInv'
<1>1. ip + 1 \in Successors(P, ip) /\ I.op \notin Begins
  BY SequentialSuccessor DEF I, Sequential
<1> QED
  BY <1>1, MoveKeepsInv DEF StepsOn

LEMMA JumpKeepsInv ==
  ASSUME StackInv, prog \in Sound, status = "running", TypeOK',
         UNCHANGED prog, Jump \/ Branch
  PROVE  StackInv'
<1> USE DEF At
<1>0. /\ ip \in Reachable(P) /\ Popped(I) \in Nat /\ Enters(heap)
      /\ sp \in Nat /\ base \in Nat /\ sp - Popped(I) >= base
  BY RunningFacts
<1>1. CASE Jump
  <2>1. /\ I.op \notin Begins /\ Popped(I) = 0 /\ Pushed(I) = 0
        /\ I.a \in Successors(P, ip)
    BY <1>1, PoppedTable, PushedTable DEF Jump, Begins, Successors, Branches,
       Returns, NotImplemented, AddressOf, I
  <2>2. CASE Stop("failed")
    BY <2>2, StopIsSafe, StopKeepsInv
  <2>3. CASE GoTo(I.a)
    <3>1. ip' = I.a /\ sp' = sp /\ heap' = heap /\ UNCHANGED <<registers, status>>
      BY <2>3 DEF GoTo, memory
    <3>2. Enters(heap') /\ sp' = sp + Pushed(I) - Popped(I)
      BY <1>0, <2>1, <3>1
    <3> QED
      BY <2>1, <3>1, <3>2, MoveKeepsInv
  <2> QED
    BY <1>1, <2>2, <2>3 DEF Jump
<1>2. CASE Branch
  <2>1. /\ I.op \notin Begins /\ Popped(I) = 1 /\ Pushed(I) = 0
        /\ Successors(P, ip) = {I.a, ip + 1}
    BY <1>2, PoppedTable, PushedTable DEF Branch, Begins, Successors, Branches,
       Returns, NotImplemented, AddressOf, I
  <2>2. CASE Stop("failed")
    BY <2>2, StopIsSafe, StopKeepsInv
  <2>3. CASE /\ ip' \in {I.a, ip + 1}
             /\ sp' = sp - 1
             /\ UNCHANGED <<stack, heap, registers, status>>
    <3>1. Enters(heap') /\ sp' = sp + Pushed(I) - Popped(I)
      BY <1>0, <2>1, <2>3
    <3> QED
      BY <2>1, <2>3, <3>1, MoveKeepsInv
  <2> QED
    BY <1>0, <1>2, <2>1, <2>2, <2>3 DEF Branch
<1> QED
  BY <1>1, <1>2

(* BEGIN opens the frame: the locals lie between base and the operands.       *)
LEMMA BeginKeepsInv ==
  ASSUME StackInv, prog \in Sound, status = "running", TypeOK',
         UNCHANGED prog, Begin
  PROVE  StackInv'
<1>0. /\ ip \in Reachable(P) /\ I.op \in Begins /\ Enters(heap) /\ base \in Nat
      /\ sp = base + Height(ip) /\ Height(ip) = 0 /\ TypeOK /\ STACK_MAX_SIZE \in Nat
  BY RunningFacts, BoundsAssumption DEF Begin, At, Height, I, StackInv
<1>1. /\ Locals(I) \in Nat /\ MaxDepth(I) \in Nat /\ Header(ip) = I
      /\ ReturnPoint(ip + 1) /\ Header(ip + 1) = I /\ Height(ip + 1) = Locals(I)
  <2>1. ip + 1 \in Successors(P, ip)
    BY <1>0, SequentialSuccessor DEF I
  <2>2. Header(ip) = I
    BY <1>0, <2>1, SuccessorHeight DEF I
  <2> QED
    BY <1>0, <2>1, <2>2, SuccessorHeight, ReachableInstruction DEF I
<1>2. CASE Stop("exhausted")
  BY <1>2, StopIsSafe, StopKeepsInv
<1>3. CASE /\ ~ (VERIFIED /\ ~ HasRoom)
           /\ ~ Fits(sp + Locals(I)) /\ Stop(PushFault)
  <2>1. ~ VERIFIED
    BY <1>0, <1>1, <1>3 DEF HasRoom, Fits
  <2>2. PushFault = "exhausted"
    BY <2>1 DEF PushFault
  <2> QED
    BY <1>3, <2>2, StopIsSafe, StopKeepsInv
<1>4. CASE /\ ~ (VERIFIED /\ ~ HasRoom)
           /\ sp' = sp + Locals(I)
           /\ ip' = ip + 1
           /\ UNCHANGED <<heap, base, args, captured, is_closure, frames, status>>
  <2>1. P' = P /\ Sound' = Sound /\ Bounded' = Bounded
    BY DEF P, Sound, Bounded
  <2>2. Counts'
    BY <1>4 DEF StackInv, Counts, Depth
  <2>3. Balanced'
    <3>1. sp' = base + Height(ip + 1)
      BY <1>0, <1>1, <1>4
    <3>2. /\ FloorAt(1) = P.globals
          /\ \A k \in 2 .. Depth :
               /\ ReturnPoint(frames[k].prev_ip)
               /\ Base(k - 1) + Height(frames[k].prev_ip) = FloorAt(k) + 1
      BY DEF StackInv, Balanced
    <3> QED
      BY <1>1, <1>4, <2>1, <3>1, <3>2 DEF Balanced, FloorAt, Floor, Base, Depth,
         ReturnPoint, Reachable, Height, Header
  <2>4. StackSafe'
    BY <1>4 DEF StackSafe
  <2>5. Enters(heap)'
    BY <1>0, <1>4, <2>1 DEF Enters, IsEntry, Reachable
  <2>6. Room'
    <3>1. VERIFIED => RoomAt(base, ip + 1)
      BY <1>1, <1>4 DEF HasRoom, RoomAt
    <3>2. (VERIFIED /\ prog \in Bounded) =>
             \A k \in 2 .. Depth : RoomAt(Base(k - 1), frames[k].prev_ip)
      BY DEF StackInv, Room
    <3> QED
      BY <1>4, <2>1, <3>1, <3>2 DEF Room, RoomAt, Header, Base, Depth
  <2> QED
    BY <2>2, <2>3, <2>4, <2>5, <2>6 DEF StackInv
<1> QED
  BY <1>2, <1>3, <1>4 DEF Begin

(* A call suspends the caller at the next instruction, where it is one result *)
(* above the closure and arguments the callee takes over.                    *)
LEMMA EnterKeepsInv ==
  ASSUME StackInv, prog \in Sound, status = "running", TypeOK', UNCHANGED prog,
         I.op \in {"CALL", "CALLC"},
         NEW l, IsEntry(P, l), NEW n \in Nat, NEW closure \in BOOLEAN, NEW nc,
         Popped(I) = n + (IF closure THEN 1 ELSE 0),
         EnterFunction(l, n, closure, nc)
  PROVE  StackInv'
<1>1. CASE Stop("exhausted")
  BY <1>1, StopIsSafe, StopKeepsInv
<1>2. CASE ~ (Len(frames) >= CALL_STACK_MAX_SIZE)
  <2>0. PICK D \in Nat : D = Len(frames)
    BY DEF StackInv, TypeOK
  <2>1. /\ frames' = Append(frames, SavedFrame)
        /\ ip' = l /\ is_closure' = closure /\ base' = sp /\ args' = n
        /\ UNCHANGED <<stack, sp, heap, status>>
    BY <1>2 DEF EnterFunction, memory
  <2>2. frames \in Seq(Frame) /\ Len(frames) = D /\ D \in Nat /\ D # 0
    BY <2>0 DEF StackInv, TypeOK
  <2>3. /\ Len(frames') = D + 1
        /\ \A k \in 1 .. D : frames'[k] = frames[k]
        /\ frames'[D + 1] = SavedFrame
    BY <2>1, <2>2
  <2>4. /\ SavedFrame.prev_ip = ip + 1 /\ SavedFrame.prev_base = base
        /\ SavedFrame.prev_args = args /\ SavedFrame.is_closure = is_closure
    BY DEF SavedFrame, Saved
  <2>5. P' = P /\ Sound' = Sound /\ Bounded' = Bounded
    BY DEF P, Sound, Bounded
  <2>6. /\ ip \in Reachable(P) /\ sp = base + Height(ip) /\ sp \in Nat
        /\ base \in Nat /\ args \in Nat /\ Height(ip) \in Nat
        /\ Popped(I) \in Nat /\ Enters(heap)
    BY RunningFacts
  <2>7. /\ ReturnPoint(ip + 1) /\ Header(ip + 1) = Header(ip)
        /\ Height(ip + 1) = Height(ip) + 1 - Popped(I) /\ I.op \notin Begins
    <3>1. Pushed(I) = 1 /\ I.op \in Sequential /\ I.op \notin Begins
      BY PushedTable, SequentialTable DEF Begins
    <3>2. ip + 1 \in Successors(P, ip)
      BY <3>1, SequentialSuccessor DEF I
    <3> QED
      BY <2>6, <3>1, <3>2, SuccessorHeight DEF StackInv, I
  <2>8. Counts'
    <3> SUFFICES ASSUME NEW k \in 1 .. D + 1
                 PROVE  frames'[k].prev_base \in Nat /\ frames'[k].prev_args \in Nat
      BY <2>1, <2>3, <2>6 DEF Counts, Depth
    <3>1. CASE k = D + 1
      BY <2>3, <2>4, <2>6, <3>1
    <3>2. CASE k # D + 1
      BY <2>2, <2>3, <3>2 DEF StackInv, Counts, Depth
    <3> QED
      BY <3>1, <3>2
  <2>9. /\ \A k \in 1 .. D : Base(k)' = Base(k) /\ FloorAt(k)' = FloorAt(k)
        /\ FloorAt(D + 1)' = sp - Popped(I)
    <3>1. \A k \in 1 .. D : Base(k)' = Base(k)
      BY <2>2, <2>3, <2>4 DEF Base, Depth
    <3>2. \A k \in 1 .. D : FloorAt(k)' = FloorAt(k)
      BY <2>2, <2>3, <2>4 DEF FloorAt, Floor, Depth
    <3>3. FloorAt(D + 1)' = sp - Popped(I)
      BY <2>1, <2>2, <2>3, <2>6 DEF FloorAt, Floor, Depth
    <3> QED
      BY <3>1, <3>2, <3>3
  <2>10. Base(D)' = base
    BY <2>2, <2>9 DEF Base, Depth
  <2>11. \A k \in 2 .. D :
           /\ ReturnPoint(frames[k].prev_ip)
           /\ Base(k - 1) + Height(frames[k].prev_ip) = FloorAt(k) + 1
    BY <2>2 DEF StackInv, Balanced, Depth
  <2>12. Balanced'
    <3>1. ip' \in Reachable(P)' /\ sp' = base' + Height(ip)'
      <4>1. P.code[l].op \in Begins /\ l \in Reachable(P)
        BY DEF IsEntry
      <4> QED
        BY <2>1, <2>5, <2>6, <4>1 DEF Height, Reachable
    <3>2. FloorAt(1)' = (P.globals)'
      BY <2>2, <2>5, <2>9 DEF StackInv, Balanced
    <3>3. \A k \in 2 .. D + 1 :
            /\ ReturnPoint(frames'[k].prev_ip)
            /\ Base(k - 1)' + Height(frames'[k].prev_ip) = FloorAt(k)' + 1
      <4> TAKE k \in 2 .. D + 1
      <4>1. CASE k = D + 1
        <5>1. k - 1 = D /\ frames'[k].prev_ip = ip + 1
          BY <2>2, <2>3, <2>4, <4>1
        <5>2. Base(k - 1)' = base
          BY <2>10, <5>1
        <5>3. FloorAt(k)' = sp - Popped(I)
          BY <2>9, <4>1
        <5>4. base + Height(ip + 1) = sp - Popped(I) + 1
          BY <2>6, <2>7
        <5> QED
          BY <2>7, <5>1, <5>2, <5>3, <5>4
      <4>2. CASE k # D + 1
        <5>1. k \in 2 .. D /\ k \in 1 .. D /\ k - 1 \in 1 .. D
          BY <2>2, <4>2
        <5> QED
          BY <2>3, <2>9, <2>11, <5>1
      <4> QED
        BY <4>1, <4>2
    <3> QED
      BY <2>3, <2>5, <3>1, <3>2, <3>3 DEF Balanced, Depth, ReturnPoint, Reachable,
         Height, Header
  <2>13. StackSafe'
    BY <2>1 DEF StackSafe
  <2>14. Enters(heap)'
    BY <2>1, <2>5, <2>6 DEF Enters, IsEntry, Reachable
  <2>15. Room'
    <3> SUFFICES ASSUME VERIFIED, prog \in Bounded
                 PROVE  /\ I'.op \notin Begins => RoomAt(base, ip)'
                        /\ \A k \in 2 .. D + 1 : RoomAt(Base(k - 1)', frames'[k].prev_ip)
      BY <2>3, <2>5 DEF Room, RoomAt, Header, Depth
    <3>1. I'.op \in Begins
      BY <2>1, <2>5 DEF I, IsEntry
    <3>2. RoomAt(base, ip + 1)
      BY <2>7 DEF StackInv, Room, RoomAt
    <3>3. \A k \in 2 .. D : RoomAt(Base(k - 1), frames[k].prev_ip)
      BY <2>2 DEF StackInv, Room, Depth
    <3>4. \A k \in 2 .. D + 1 : RoomAt(Base(k - 1)', frames'[k].prev_ip)
      <4> TAKE k \in 2 .. D + 1
      <4>1. CASE k = D + 1
        BY <2>2, <2>3, <2>4, <2>10, <3>2, <4>1
      <4>2. CASE k # D + 1
        <5>1. k \in 2 .. D /\ k \in 1 .. D /\ k - 1 \in 1 .. D
          BY <2>2, <4>2
        <5> QED
          BY <2>3, <2>9, <3>3, <5>1
      <4> QED
        BY <4>1, <4>2
    <3> QED
      BY <3>1, <3>4
  <2> QED
    BY <2>8, <2>12, <2>13, <2>14, <2>15 DEF StackInv
<1> QED
  BY <1>1, <1>2 DEF EnterFunction

LEMMA CallKeepsInv ==
  ASSUME StackInv, prog \in Sound, status = "running", TypeOK', UNCHANGED prog,
         Call \/ CallClosure
  PROVE  StackInv'
<1> USE DEF At
<1>0. /\ ip \in Reachable(P) /\ ip \in DOMAIN P.code /\ Enters(heap) /\ TypeOK
      /\ IsInstruction(I) /\ sp \in Nat /\ base \in Nat /\ sp - Popped(I) >= base
  BY RunningFacts, FetchedInstruction DEF StackInv
<1>1. CASE Call
  <2>1. I.op = "CALL" /\ Popped(I) = I.b + 0 /\ I.b \in Nat
    BY <1>0, <1>1, PoppedTable, RunningFacts DEF Call, IsInstruction
  <2>2. IsEntry(P, I.a)
    BY <1>0, <2>1, ReachableInstruction DEF WellPlaced, I
  <2> QED
    BY <1>1, <2>1, <2>2, EnterKeepsInv DEF Call
<1>2. CASE CallClosure
  <2> DEFINE slot == sp - I.a - 1
             c == heap[stack[slot].val]
  <2>1. I.op = "CALLC" /\ Popped(I) = I.a + 1 /\ I.a \in Nat
    BY <1>0, <1>2, PoppedTable, CalledCount DEF CallClosure
  <2>2. CASE Stop("failed") \/ Stop("wild")
    BY <2>2, StopIsSafe, StopKeepsInv
  <2>3. CASE /\ slot \in Slots
             /\ IsA(heap, stack[slot], {"CLOSURE"})
             /\ EnterFunction(c.entry, I.a, TRUE, CapturedBy(c))
    <3>1. stack[slot].val \in 1 .. Len(heap) /\ c.type = "CLOSURE"
      BY <1>0, <2>3, SlotTypes, OperandTypes, ValueCases DEF IsA
    <3>2. IsEntry(P, c.entry)
      BY <1>0, <3>1 DEF Enters
    <3> HIDE DEF c
    <3> QED
      BY <2>1, <2>3, <3>2, EnterKeepsInv
  <2> QED
    BY <1>2, <2>2, <2>3 DEF CallClosure
<1> QED
  BY <1>1, <1>2

(* END gives the caller back its registers: its operands end at the result.   *)
LEMMA ReturnKeepsInv ==
  ASSUME StackInv, prog \in Sound, status = "running", TypeOK', UNCHANGED prog, Return
  PROVE  StackInv'
<1>a. Len(frames) \in Nat
  BY DEF StackInv, TypeOK
<1>0. PICK D \in Nat : D = Len(frames)
  BY <1>a
<1>1. /\ frames \in Seq(Frame) /\ Len(frames) = D /\ D # 0 /\ TypeOK
      /\ STACK_MAX_SIZE \in Nat /\ P.globals + 2 <= STACK_MAX_SIZE /\ P.globals \in Nat
  <2>1. TypeOK /\ frames \in Seq(Frame) /\ frames # <<>>
    BY DEF StackInv, TypeOK
  <2>2. Len(frames) = D /\ D # 0
    BY <1>0, <2>1
  <2>3. STACK_MAX_SIZE \in Nat
    BY BoundsAssumption
  <2> QED
    BY <2>1, <2>2, <2>3, LoadedProgram, SoundProgramFits
<1>2. /\ I.op \in Returns /\ Popped(I) = 1 /\ Enters(heap) /\ Floor \in Int
      /\ sp \in Nat /\ base \in Nat /\ sp - Popped(I) >= base
  BY RunningFacts, PoppedTable DEF Return, At
<1>3. /\ FloorAt(1) = P.globals
      /\ \A k \in 2 .. D :
           /\ ReturnPoint(frames[k].prev_ip)
           /\ Base(k - 1) + Height(frames[k].prev_ip) = FloorAt(k) + 1
  BY <1>1 DEF StackInv, Balanced, Depth
<1>4. FloorAt(D) = Floor
  BY <1>1 DEF FloorAt, Depth
<1>5. \A k \in 1 .. D : frames[k].prev_base \in Nat /\ frames[k].prev_args \in Nat
  BY <1>1 DEF StackInv, Counts, Depth
<1>6. CASE Stop("wild")
  BY <1>6, StopIsSafe, StopKeepsInv
<1>7. CASE Floor >= STACK_MAX_SIZE /\ Stop(PushFault)
  <2>1. D # 1
    BY <1>1, <1>3, <1>4, <1>7
  <2>2. ~ (VERIFIED /\ prog \in Bounded)
    <3> SUFFICES ASSUME VERIFIED, prog \in Bounded PROVE FALSE
      OBVIOUS
    <3> DEFINE i == frames[D].prev_ip
    <3>1. /\ i \in Reachable(P) /\ P.code[i].op \notin Begins
          /\ Base(D - 1) + Height(i) = Floor + 1
      BY <1>1, <1>3, <1>4, <2>1 DEF ReturnPoint
    <3>2. RoomAt(Base(D - 1), i)
      BY <1>1, <2>1 DEF StackInv, Room, Depth
    <3>3. Base(D - 1) \in Nat
      BY <1>1, <1>5, <2>1 DEF Base, Depth
    <3> HIDE DEF i
    <3>4. /\ Height(i) \in Nat /\ Locals(Header(i)) \in Nat /\ MaxDepth(Header(i)) \in Nat
          /\ Height(i) <= Locals(Header(i)) + MaxDepth(Header(i))
      BY <1>1, <3>1, HeightBounded, HeightCoversOperands, ReachableInstruction
    <3> QED
      BY <1>1, <1>2, <1>7, <3>1, <3>2, <3>3, <3>4 DEF RoomAt
  <2>3. PushFault \in Statuses \ {"running"}
    BY DEF PushFault, Statuses, Undefined
  <2>4. StopsSafely
    BY <1>7, <2>2, <2>3 DEF StopsSafely
  <2> QED
    BY <2>4, StopKeepsInv
<1>8. CASE /\ sp' = Floor + 1
           /\ UNCHANGED heap
           /\ Outermost(frames[Len(frames)])
           /\ status' = "halted"
           /\ UNCHANGED <<ip, registers>>
  BY <1>8 DEF StackInv, Counts, Balanced, StackSafe, Depth, registers
<1>9. CASE /\ sp' = Floor + 1
           /\ UNCHANGED heap
           /\ ~ Outermost(frames[Len(frames)])
           /\ ip' = frames[Len(frames)].prev_ip
           /\ base' = frames[Len(frames)].prev_base
           /\ args' = frames[Len(frames)].prev_args
           /\ is_closure' = frames[Len(frames)].is_closure
           /\ frames' = SubSeq(frames, 1, Len(frames) - 1)
           /\ UNCHANGED status
  <2>1. D # 1
    BY <1>1, <1>9 DEF TypeOK, Outermost
  <2>2. /\ Len(frames') = D - 1
        /\ \A k \in 1 .. D - 1 : frames'[k] = frames[k]
    BY <1>1, <1>9, FrontOfSequence
  <2>3. P' = P /\ Sound' = Sound /\ Bounded' = Bounded
    BY DEF P, Sound, Bounded
  <2>4. \A k \in 1 .. D - 1 : Base(k)' = Base(k) /\ FloorAt(k)' = FloorAt(k)
    <3> TAKE k \in 1 .. D - 1
    <3>1. CASE k = D - 1
      BY <1>1, <1>9, <2>1, <2>2, <3>1 DEF Base, FloorAt, Floor, Depth
    <3>2. CASE k # D - 1
      <4>1. k + 1 \in 1 .. D - 1 /\ k # D
        BY <3>2
      <4> QED
        BY <1>1, <2>2, <3>2, <4>1 DEF Base, FloorAt, Depth
    <3> QED
      BY <3>1, <3>2
  <2>5. /\ ReturnPoint(frames[D].prev_ip)
        /\ Base(D - 1) = frames[D].prev_base
        /\ frames[D].prev_base + Height(frames[D].prev_ip) = Floor + 1
    <3>1. Base(D - 1) = frames[D].prev_base
      BY <1>1, <2>1 DEF Base, Depth
    <3> QED
      BY <1>1, <1>3, <1>4, <2>1, <3>1
  <2>6. Counts'
    BY <1>1, <1>5, <1>9, <2>1, <2>2 DEF Counts, Depth
  <2>7. Balanced'
    <3>1. (/\ ip \in Reachable(P)
           /\ sp = base + Height(ip))'
      BY <1>1, <1>9, <2>3, <2>5 DEF ReturnPoint, Reachable, Height, Header
    <3>2. FloorAt(1)' = (P.globals)'
      BY <1>1, <1>3, <2>1, <2>3, <2>4
    <3>3. \A k \in 2 .. D - 1 :
            /\ ReturnPoint(frames'[k].prev_ip)
            /\ Base(k - 1)' + Height(frames'[k].prev_ip) = FloorAt(k)' + 1
      <4> TAKE k \in 2 .. D - 1
      <4>1. k \in 1 .. D - 1 /\ k - 1 \in 1 .. D - 1 /\ k \in 2 .. D
        OBVIOUS
      <4> QED
        BY <1>3, <2>2, <2>4, <4>1
    <3> QED
      BY <2>2, <2>3, <3>1, <3>2, <3>3 DEF Balanced, Depth, ReturnPoint, Reachable,
         Height, Header
  <2>8. StackSafe'
    BY <1>9 DEF StackSafe
  <2>9. Enters(heap)'
    BY <1>2, <1>9, <2>3 DEF Enters, IsEntry, Reachable
  <2>10. Room'
    <3> SUFFICES ASSUME VERIFIED, prog \in Bounded
                 PROVE  /\ RoomAt(base, ip)'
                        /\ \A k \in 2 .. D - 1 : RoomAt(Base(k - 1)', frames'[k].prev_ip)
      BY <2>2, <2>3 DEF Room, RoomAt, Header, Depth
    <3>1. \A k \in 2 .. D : RoomAt(Base(k - 1), frames[k].prev_ip)
      BY <1>1 DEF StackInv, Room, Depth
    <3>2. RoomAt(base, ip)'
      <4>1. RoomAt(frames[D].prev_base, frames[D].prev_ip)
        BY <1>1, <2>1, <2>5, <3>1
      <4> QED
        BY <1>1, <1>9, <2>3, <4>1 DEF RoomAt, Header
    <3>3. \A k \in 2 .. D - 1 : RoomAt(Base(k - 1)', frames'[k].prev_ip)
      <4> TAKE k \in 2 .. D - 1
      <4>1. k \in 1 .. D - 1 /\ k - 1 \in 1 .. D - 1 /\ k \in 2 .. D
        OBVIOUS
      <4> QED
        BY <2>2, <2>4, <3>1, <4>1
    <3> QED
      BY <3>2, <3>3
  <2> QED
    BY <2>6, <2>7, <2>8, <2>9, <2>10 DEF StackInv
<1> QED
  BY <1>2, <1>6, <1>7, <1>8, <1>9 DEF Return, At

(* FAIL and code that cannot be fetched or is not implemented.               *)
LEMMA RefusalKeepsInv ==
  ASSUME StackInv, prog \in Sound, status = "running", TypeOK', UNCHANGED prog,
         FetchOutside \/ Unsupported \/ Fail
  PROVE  StackInv'
<1>1. CASE FetchOutside \/ Unsupported
  BY <1>1, StopIsSafe, StopKeepsInv DEF FetchOutside, Unsupported
<1>2. CASE Fail
  <2>1. ~ (sp < 1)
    BY <1>2, RunningFacts, PoppedTable DEF Fail, At
  <2> QED
    BY <1>2, <2>1, StopIsSafe, StopKeepsInv DEF Fail
<1> QED
  BY <1>1, <1>2

LEMMA ControlCases ==
  ASSUME Control
  PROVE  \/ FetchOutside \/ Unsupported \/ Fail
         \/ Jump \/ Branch
         \/ Begin
         \/ MakeClosure
         \/ Call \/ CallClosure
         \/ Return
BY DEF Control

LEMMA CountsKept ==
  ASSUME StackInv, prog \in Sound, [Next]_vars
  PROVE  Counts'
<1> USE DEF StackInv
<1>1. CASE UNCHANGED <<base, args, frames>>
  BY <1>1 DEF Counts, Depth
<1>2. CASE \E l, n, closure, nc : /\ n \in Nat
                                  /\ EnterFunction(l, n, closure, nc)
  <2>1. PICK l, n, closure, nc : n \in Nat /\ EnterFunction(l, n, closure, nc)
    BY <1>2
  <2>2. CASE frames' = Append(frames, SavedFrame) /\ base' = sp /\ args' = n
    <3>1. frames \in Seq(Frame) /\ Len(frames) \in Nat /\ sp \in Nat
      BY DEF TypeOK
    <3>2. /\ Len(frames') = Len(frames) + 1
          /\ \A k \in 1 .. Len(frames) : frames'[k] = frames[k]
          /\ frames'[Len(frames) + 1] = SavedFrame
      BY <2>2, <3>1
    <3>3. SavedFrame.prev_base \in Nat /\ SavedFrame.prev_args \in Nat
      BY DEF SavedFrame, Saved, Counts
    <3>4. ASSUME NEW k \in 1 .. Len(frames')
          PROVE  frames'[k].prev_base \in Nat /\ frames'[k].prev_args \in Nat
      <4>1. CASE k = Len(frames) + 1
        BY <3>2, <3>3, <4>1
      <4>2. CASE k # Len(frames) + 1
        BY <3>1, <3>2, <4>2 DEF Counts, Depth
      <4> QED
        BY <4>1, <4>2
    <3> QED
      BY <2>1, <2>2, <3>1, <3>4 DEF Counts, Depth
  <2>3. CASE Stop("exhausted")
    BY <2>3, <1>1 DEF Stop, registers
  <2> QED
    BY <2>1, <2>2, <2>3 DEF EnterFunction
<1>3. CASE Return
  <2>1. CASE /\ base' = frames[Len(frames)].prev_base
             /\ args' = frames[Len(frames)].prev_args
             /\ frames' = SubSeq(frames, 1, Len(frames) - 1)
    <3>1. frames \in Seq(Frame) /\ Len(frames) \in Nat /\ Len(frames) # 0
      BY DEF TypeOK
    <3>2. /\ Len(frames') = Len(frames) - 1
          /\ \A k \in 1 .. Len(frames') : frames'[k] = frames[k]
      BY <2>1, <3>1, FrontOfSequence
    <3> QED
      BY <2>1, <3>1, <3>2 DEF Counts, Depth
  <2> QED
    BY <1>1, <1>3, <2>1 DEF Return, Stop, registers
<1>4. ASSUME NEW k, NEW o, Operate(k, o)
      PROVE  UNCHANGED <<base, args, frames>>
  BY <1>4 DEF Operate, Stop, registers
<1>5. CASE Data \/ Write
  BY <1>1, <1>4, <1>5 DEF Data, Write, BinaryOp, Const, LoadString, MakeSexp, MakeArray,
     StoreInto, Elem, Drop, Dup, Swap, TestTag, TestArray, PattEq, Pattern, Length,
     Line, Read, Stringify, WithString, WithCount, Stop, registers
<1>6. CASE Variable
  BY <1>1, <1>4, <1>6 DEF Variable, LoadGlobal, LoadLocal, LoadArg, LoadCaptured,
     StoreGlobal, StoreLocal, StoreArg, StoreCaptured, LoadSlot, StoreSlot,
     WithCapture, Stop, registers
<1>7. CASE FetchOutside \/ Unsupported \/ Fail \/ Jump \/ Branch \/ Begin \/ MakeClosure
  BY <1>1, <1>4, <1>7 DEF FetchOutside, Unsupported, Fail, Jump, Branch, Begin,
     MakeClosure, GoTo, Stop, registers
<1>8. CASE Call \/ CallClosure
  <2>1. status = "running" /\ I.op \in {"CALL", "CALLC"}
    BY <1>8 DEF Call, CallClosure, At
  <2>2. (I.op = "CALL" => I.b \in Nat) /\ (I.op = "CALLC" => I.a \in Nat)
    BY <2>1, RunningFacts, CalledCount, PoppedTable
  <2> QED
    BY <1>1, <1>2, <1>8, <2>2 DEF Call, CallClosure, At, Stop, registers
<1> QED
  BY <1>1, <1>3, <1>5, <1>6, <1>7, <1>8, ControlCases DEF Next, Exited, vars, registers

LEMMA StepsRun ==
  /\ (Data \/ Variable \/ Control \/ Write) => status = "running"
  /\ (Data \/ Variable \/ Write \/ MakeClosure) => I.op \in Sequential
<1> USE DEF At
<1>1. (Data \/ Write) => status = "running" /\ I.op \in Sequential
  BY SequentialTable DEF Data, Write, BinaryOp, Const, LoadString, MakeSexp, MakeArray,
     StoreInto, Elem, Drop, Dup, Swap, TestTag, TestArray, PattEq, Pattern, Length,
     Line, Read, Stringify
<1>2. (Variable \/ MakeClosure) => status = "running" /\ I.op \in Sequential
  BY SequentialTable DEF Variable, LoadGlobal, LoadLocal, LoadArg, LoadCaptured,
     StoreGlobal, StoreLocal, StoreArg, StoreCaptured, MakeClosure, Loads, Stores
<1>3. Control => status = "running"
  BY DEF Control, FetchOutside, Unsupported, Fail, Jump, Branch, Begin, MakeClosure,
     Call, CallClosure, Return
<1> QED
  BY <1>1, <1>2, <1>3

LEMMA NextKeepsInv ==
  ASSUME StackInv, [Next]_vars
  PROVE  StackInv'
<1>1. TypeOK' /\ ((prog \in Sound)' => Counts')
  <2>1. UNCHANGED prog
    BY DEF Next, Exited, vars
  <2> QED
    BY <2>1, NextKeepsType, CountsKept DEF StackInv, Sound
<1>2. CASE UNCHANGED vars
  BY <1>1, <1>2 DEF vars, registers, memory, StackInv, Balanced, StackSafe, Room, RoomAt,
     Enters, IsEntry, Reachable, ReturnPoint, FloorAt, Floor, Base, Depth, Height,
     Header, P, I, Sound, Bounded
<1>3. CASE prog \notin Sound /\ UNCHANGED prog
  BY <1>1, <1>3 DEF StackInv, Balanced, StackSafe, Sound, Bounded
<1>4. CASE prog \in Sound /\ UNCHANGED prog /\ (Data \/ Variable \/ Control \/ Write)
  <2>1. status = "running"
    BY <1>4, StepsRun
  <2>2. CASE Data \/ Variable \/ Write \/ MakeClosure
    <3>1. StopsSafely \/ StepsOn
      BY <1>4, <2>1, <2>2, DataStep, VariableStep, WriteStep, MakeClosureStep
    <3>2. I.op \in Sequential
      BY <2>2, StepsRun
    <3> QED
      BY <1>1, <1>4, <2>1, <3>1, <3>2, StopKeepsInv, StepKeepsInv
  <2>3. CASE FetchOutside \/ Unsupported \/ Fail
    BY <1>1, <1>4, <2>1, <2>3, RefusalKeepsInv
  <2>4. CASE Jump \/ Branch
    BY <1>1, <1>4, <2>1, <2>4, JumpKeepsInv
  <2>5. CASE Begin
    BY <1>1, <1>4, <2>1, <2>5, BeginKeepsInv
  <2>6. CASE Call \/ CallClosure
    BY <1>1, <1>4, <2>1, <2>6, CallKeepsInv
  <2>7. CASE Return
    BY <1>1, <1>4, <2>1, <2>7, ReturnKeepsInv
  <2> QED
    BY <1>4, <2>2, <2>3, <2>4, <2>5, <2>6, <2>7, ControlCases
<1> QED
  BY <1>2, <1>3, <1>4 DEF Next, Exited, vars

(* The program starts in main, on the globals and main's arguments.           *)
LEMMA InitInv ==
  ASSUME Init
  PROVE  StackInv
<1>1. TypeOK /\ P.globals \in Nat
  BY InitType, LoadedProgram
<1>2. /\ ip = 0 /\ base = P.globals + 2 /\ args = 2 /\ is_closure = FALSE
      /\ heap = <<>> /\ frames = <<OuterFrame>>
      /\ status \notin {"underflow", "overflow"}
  BY DEF Init
<1>a. prog \in Sound => sp = P.globals + 2
  BY SoundProgramFits DEF Init, Fits
<1>3. Len(frames) = 1 /\ frames[1] = OuterFrame
  BY <1>2
<1>4. Counts
  BY <1>1, <1>2, <1>3 DEF Counts, Depth, OuterFrame
<1>5. ASSUME prog \in Sound
      PROVE  P.code[ip].op \in Begins /\ ip \in Reachable(P)
  BY <1>2, <1>5 DEF Sound, WellFormed, IsEntry, P
<1>6. Balanced
  BY <1>1, <1>2, <1>3, <1>5, <1>a DEF Balanced, Height, FloorAt, Floor, Depth
<1>7. prog \in Sound => Room
  BY <1>3, <1>5 DEF Room, I, Depth
<1>8. Enters(heap) /\ StackSafe
  BY <1>2 DEF Enters, StackSafe
<1> QED
  BY <1>1, <1>4, <1>6, <1>7, <1>8 DEF StackInv

LEMMA InvHolds == Spec => []StackInv
<1>1. Init => StackInv
  BY InitInv
<1>2. StackInv /\ [Next]_vars => StackInv'
  BY NextKeepsInv
<1> QED
  BY <1>1, <1>2, PTL DEF Spec

(* In any well-formed program, under either interpreter and for any nesting   *)
(* of calls, the stack is cut exactly into the slots of its activations: what *)
(* CALL, CALLC and BEGIN lay down is what END takes away, and every caller    *)
(* resumes with the operand depth its code was analysed with.                *)
THEOREM StackBalanced == Spec => []Balanced
<1>1. StackInv => Balanced
  BY DEF StackInv
<1> QED
  BY <1>1, InvHolds, PTL

(* Interpreter2 removed the checks of push and pop: in a well-formed program  *)
(* whose headers carry sufficient depths, the one check left in BEGIN keeps   *)
(* every push inside the stack, and no pop finds it empty.                   *)
THEOREM UncheckedStackSafe == Spec => []StackSafe
<1>1. StackInv => StackSafe
  BY DEF StackInv
<1> QED
  BY <1>1, InvHolds, PTL

LEMMA NextKeepsCallers ==
  ASSUME StackInv, Next, prog \in Sound
  PROVE  CallersKept
<1>1. CASE UNCHANGED stack
  BY <1>1 DEF CallersKept
<1>2. CASE StopsSafely
  BY <1>1, <1>2 DEF StopsSafely, Stop, memory
<1>3. CASE status = "running" /\ StepsOn
  <2>1. base \in Nat /\ args \in Nat
    BY <1>3, RunningFacts
  <2>2. \A j \in Slots : j < Floor => j < base - args
    BY <2>1 DEF Floor, Slots
  <2> QED
    BY <1>3, <2>2 DEF StepsOn, BelowArgsKept, CallersKept
<1>4. CASE Data \/ Variable \/ Write \/ MakeClosure
  <2>1. status = "running"
    BY <1>4, StepsRun DEF MakeClosure, At
  <2> QED
    BY <1>2, <1>3, <1>4, <2>1, DataStep, VariableStep, WriteStep, MakeClosureStep
<1>5. CASE FetchOutside \/ Unsupported \/ Fail \/ Jump \/ Branch \/ Call \/ CallClosure
  BY <1>1, <1>5 DEF FetchOutside, Unsupported, Fail, Jump, Branch, Call, CallClosure,
     EnterFunction, GoTo, Stop, memory
<1>6. CASE Begin
  <2>1. CASE stack' = [j \in Slots |->
                         IF j \in sp .. sp + Locals(I) - 1 THEN Zero ELSE stack[j]]
    <3>1. sp \in Nat /\ Floor \in Int /\ Floor <= sp
      BY <1>6, RunningFacts DEF Begin, At
    <3>2. Locals(I) \in Int
      BY <1>6, RunningFacts, FetchedInstruction
         DEF Begin, At, StackInv, IsInstruction, Locals, LOCALS_RANGE
    <3>3. ASSUME NEW j \in Slots, j < Floor
          PROVE  stack'[j] = stack[j]
      BY <2>1, <3>1, <3>2, <3>3 DEF Slots
    <3> QED
      BY <3>3 DEF CallersKept
  <2> QED
    BY <1>1, <1>6, <2>1 DEF Begin, Stop, memory
<1>7. CASE Return
  <2>1. CASE stack' = [stack EXCEPT ![Floor] = Top(1)]
    <3>1. stack \in [Slots -> Value(Len(heap))]
      BY DEF StackInv, TypeOK
    <3>2. Floor \in Int
      BY <1>7, RunningFacts DEF Return, At
    <3>3. ASSUME NEW j \in Slots, j < Floor
          PROVE  stack'[j] = stack[j]
      BY <2>1, <3>1, <3>2, <3>3 DEF Slots
    <3> QED
      BY <3>3 DEF CallersKept
  <2> QED
    BY <1>1, <1>7, <2>1 DEF Return, Stop, memory
<1> QED
  BY <1>1, <1>4, <1>5, <1>6, <1>7, ControlCases DEF Next, Exited, vars, memory

(* No step of a well-formed program writes below the closure and arguments of *)
(* the running activation, other than into the globals: a function cannot     *)
(* reach the locals and operands of those that called it.                    *)
THEOREM CallersProtected == Spec => CallerUntouched
<1>1. StackInv /\ [Next]_vars =>
        [(prog \in Sound) => \A j \in Slots : (P.globals <= j /\ j < Floor)
                                                 => stack'[j] = stack[j]]_vars
  BY NextKeepsCallers DEF CallersKept
<1> QED
  BY <1>1, InvHolds, PTL DEF Spec, CallerUntouched

-----------------------------------------------------------------------------
(***************************************************************************)
(* Closures and slots: an activation keeps its own closure through anything *)
(* it and its callees do, and the first interpreter's checks leave only     *)
(* CLOSURE able to reach a slot or a capture that is not there.             *)
(***************************************************************************)

(* The two registers of activation k that StackInv says nothing about.       *)
CapturedAt(k) == IF k = Depth THEN captured ELSE frames[k + 1].prev_captured
LocalsReg(k)  == IF k = Depth THEN locals ELSE frames[k + 1].prev_locals

(* Slot s holds a closure of n captured values.                              *)
Keeps(s, n) == /\ s \in Slots
               /\ IsA(heap, stack[s], {"CLOSURE"})
               /\ n = Len(heap[stack[s].val].elems)

(* Activations lie above the globals, each above the arguments of all those   *)
(* below it.                                                                 *)
Ordered == /\ \A k \in 1 .. Depth : P.globals <= FloorAt(k)
           /\ \A k \in 1 .. Depth : \A j \in 1 .. k - 1 : Base(j) <= FloorAt(k)

(* Every activation of the call stack, not only the running one, has its      *)
(* closure in place: END makes any of them the running one.                  *)
Held == \A k \in 1 .. Depth : Runs(k) => Keeps(FloorAt(k), CapturedAt(k))

(* Past its BEGIN an activation knows how many locals it has.                *)
Known == \A k \in 1 .. Depth :
           P.code[IpAt(k)].op \notin Begins => LocalsReg(k) = Locals(Header(IpAt(k)))

(* The inductive invariant.                                                *)
ClosureInv == /\ StackInv
              /\ (prog \in Sound /\ status = "running") => Ordered /\ Held /\ Known
              /\ SlotsChecked

-----------------------------------------------------------------------------
(* What the stack proofs give about an activation.                          *)
LEMMA ActivationFacts ==
  ASSUME StackInv, prog \in Sound
  PROVE  /\ Depth \in Nat /\ Depth # 0
         /\ \A k \in 1 .. Depth :
              /\ Base(k) \in Nat /\ FloorAt(k) \in Int
              /\ FloorAt(k) <= Base(k)
              /\ Runs(k) => FloorAt(k) < Base(k)
         /\ base = Base(Depth) /\ Floor = FloorAt(Depth)
         /\ Floor <= base - args
         /\ is_closure => Floor < base - args /\ ClosureSlot = Floor
<1>1. Depth \in Nat /\ Depth # 0 /\ frames \in Seq(Frame) /\ Depth = Len(frames)
  BY DEF StackInv, TypeOK, Depth
<1>2. /\ base \in Nat /\ args \in Nat
      /\ \A k \in 1 .. Depth : frames[k].prev_base \in Nat /\ frames[k].prev_args \in Nat
  BY DEF StackInv, Counts
<1>3. ASSUME NEW k \in 1 .. Depth
      PROVE  /\ Base(k) \in Nat /\ FloorAt(k) \in Int
             /\ FloorAt(k) <= Base(k)
             /\ Runs(k) => FloorAt(k) < Base(k)
  <2>1. CASE k = Depth
    BY <1>1, <1>2, <2>1 DEF Base, FloorAt, Floor, Runs
  <2>2. CASE k # Depth
    <3>1. k + 1 \in 1 .. Depth
      BY <1>1, <2>2
    <3> QED
      BY <1>2, <2>2, <3>1 DEF Base, FloorAt, Runs
  <2> QED
    BY <2>1, <2>2
<1>4. base = Base(Depth) /\ Floor = FloorAt(Depth)
  BY DEF Base, FloorAt
<1>5. Floor <= base - args /\ (is_closure => Floor < base - args /\ ClosureSlot = Floor)
  BY <1>2 DEF Floor, ClosureSlot
<1> QED
  BY <1>1, <1>3, <1>4, <1>5

(* An activation whose slot is not written keeps its closure.                *)
LEMMA SlotKept ==
  ASSUME TypeOK, Held, ObjectsStay(heap'), NEW k \in 1 .. Depth, Runs(k),
         FloorAt(k)' = FloorAt(k), CapturedAt(k)' = CapturedAt(k),
         FloorAt(k) \in Slots => stack'[FloorAt(k)] = stack[FloorAt(k)]
  PROVE  Keeps(FloorAt(k), CapturedAt(k))'
<1>1. Keeps(FloorAt(k), CapturedAt(k))
  BY DEF Held
<1>2. ASSUME NEW s, s = FloorAt(k), NEW n, n = CapturedAt(k)
      PROVE  /\ s \in Slots'
             /\ IsA(heap', stack'[s], {"CLOSURE"})
             /\ n = Len(heap'[stack'[s].val].elems)
  <2>1. /\ s \in Slots /\ stack'[s] = stack[s]
        /\ IsA(heap, stack[s], {"CLOSURE"})
        /\ n = Len(heap[stack[s].val].elems)
    BY <1>1, <1>2 DEF Keeps
  <2>2. stack[s].val \in 1 .. Len(heap)
    BY <2>1, SlotTypes, OperandTypes, ValueCases DEF IsA
  <2> QED
    BY <2>1, <2>2 DEF IsA, ObjectsStay, UNBOXED, Slots
<1> QED
  BY <1>2 DEF Keeps

(* What the running activation writes at or above its arguments takes no      *)
(* closure from any activation.                                             *)
LEMMA HeldStays ==
  ASSUME StackInv, Ordered, Held, prog \in Sound, BelowArgsKept, ObjectsStay(heap'),
         UNCHANGED <<prog, base, args, captured, is_closure, frames>>
  PROVE  Ordered' /\ Held'
<1>1. P' = P /\ Depth' = Depth
  BY DEF P, Depth
<1>2. \A k \in 1 .. Depth : /\ Base(k)' = Base(k) /\ FloorAt(k)' = FloorAt(k)
                            /\ Runs(k)' = Runs(k) /\ CapturedAt(k)' = CapturedAt(k)
  BY DEF Base, FloorAt, Floor, Runs, CapturedAt, Depth
<1>3. Depth \in Nat
  BY ActivationFacts
<1>4. Ordered'
  <2>1. \A k \in 1 .. Depth : \A j \in 1 .. k - 1 : j \in 1 .. Depth
    BY <1>3
  <2> QED
    BY <1>1, <1>2, <2>1 DEF Ordered
<1>5. ASSUME NEW k \in 1 .. Depth, Runs(k)
      PROVE  Keeps(FloorAt(k), CapturedAt(k))'
  <2>1. P.globals <= FloorAt(k)
    BY DEF Ordered
  <2>2. FloorAt(k) < base - args
    <3>1. CASE k = Depth
      BY <1>5, <3>1, ActivationFacts DEF Runs
    <3>2. CASE k # Depth
      <4>1. k \in 1 .. Depth - 1 /\ Depth \in 1 .. Depth
        BY <1>3, <3>2
      <4>2. Base(k) <= Floor
        BY <4>1, ActivationFacts DEF Ordered
      <4>3. /\ FloorAt(k) < Base(k) /\ Base(k) \in Nat /\ FloorAt(k) \in Int
            /\ Floor <= base - args /\ Floor \in Int
        BY <1>5, <4>1, ActivationFacts
      <4>4. base \in Nat /\ args \in Nat
        BY DEF StackInv, Counts
      <4> QED
        BY <4>2, <4>3, <4>4
    <3> QED
      BY <3>1, <3>2
  <2>3. FloorAt(k) \in Slots => stack'[FloorAt(k)] = stack[FloorAt(k)]
    BY <2>1, <2>2 DEF BelowArgsKept
  <2> QED
    BY <1>2, <1>5, <2>3, SlotKept DEF StackInv
<1> QED
  BY <1>1, <1>2, <1>4, <1>5 DEF Held

(* The activations that wait know their locals as before.                    *)
LEMMA KnownStays ==
  ASSUME Known, Depth \in Nat, UNCHANGED <<prog, frames>>,
         (P.code[ip].op \notin Begins => locals = Locals(Header(ip)))'
  PROVE  Known'
<1>1. P' = P /\ Depth' = Depth
  BY DEF P, Depth
<1>2. ASSUME NEW k \in 1 .. Depth, k # Depth
      PROVE  IpAt(k)' = IpAt(k) /\ LocalsReg(k)' = LocalsReg(k)
  BY <1>2 DEF IpAt, LocalsReg, Depth
<1>3. IpAt(Depth)' = ip' /\ LocalsReg(Depth)' = locals'
  BY DEF IpAt, LocalsReg, Depth
<1>4. \A i : Header(i)' = Header(i)
  BY <1>1 DEF Header
<1> QED
  BY <1>1, <1>2, <1>3, <1>4 DEF Known

-----------------------------------------------------------------------------
(***************************************************************************)
(* The invariant is kept.                                                  *)
(***************************************************************************)
LEMMA MoveKeepsClosures ==
  ASSUME StackInv, Ordered, Held, Known, prog \in Sound, status = "running",
         I.op \notin Begins, NEW s \in Successors(P, ip), ip' = s,
         UNCHANGED <<prog, registers>>, BelowArgsKept, ObjectsStay(heap')
  PROVE  Ordered' /\ Held' /\ Known'
<1>1. UNCHANGED <<base, args, locals, captured, is_closure, frames>>
  BY DEF registers
<1>2. Ordered' /\ Held'
  BY <1>1, HeldStays
<1>3. ip \in Reachable(P) /\ Depth \in Nat /\ Depth # 0
  BY RunningFacts, ActivationFacts
<1>4. Header(s) = Header(ip)
  BY <1>3, SuccessorHeight DEF StackInv
<1>5. locals = Locals(Header(ip))
  BY <1>3 DEF Known, IpAt, LocalsReg, I
<1>6. P' = P
  BY DEF P
<1>7. Known'
  BY <1>1, <1>3, <1>4, <1>5, <1>6, KnownStays DEF Header
<1> QED
  BY <1>2, <1>7

LEMMA StepKeepsClosures ==
  ASSUME StackInv, Ordered, Held, Known, prog \in Sound, status = "running",
         UNCHANGED prog, I.op \in Sequential, StepsOn
  PROVE  Ordered' /\ Held' /\ Known'
<1>1. ip + 1 \in Successors(P, ip) /\ I.op \notin Begins
  BY SequentialSuccessor DEF I, Sequential
<1> QED
  BY <1>1, MoveKeepsClosures DEF StepsOn

(* A step that leaves stack and heap alone.                                  *)
LEMMA NothingWritten ==
  ASSUME UNCHANGED <<stack, heap>>
  PROVE  BelowArgsKept /\ ObjectsStay(heap')
BY HeapStays DEF BelowArgsKept

LEMMA JumpKeepsClosures ==
  ASSUME StackInv, Ordered, Held, Known, prog \in Sound, status = "running",
         UNCHANGED prog, Jump \/ Branch, status' = "running"
  PROVE  Ordered' /\ Held' /\ Known'
<1> USE DEF At
<1>1. I.op \notin Begins
  BY DEF Jump, Branch, Begins, Branches
<1>2. /\ Jump => Successors(P, ip) = {I.a}
      /\ Branch => Successors(P, ip) = {I.a, ip + 1}
  BY DEF Jump, Branch, Successors, Branches, Returns, NotImplemented, AddressOf, I
<1>3. ASSUME NEW t, t # "running", Stop(t) PROVE FALSE
  BY <1>3 DEF Stop
<1>4. /\ ip' \in Successors(P, ip)
      /\ UNCHANGED <<stack, heap, registers>>
  <2>1. CASE Jump
    BY <1>2, <1>3, <2>1 DEF Jump, GoTo, memory
  <2>2. CASE Branch
    <3>1. PopFault # "running"
      BY DEF PopFault
    <3> QED
      BY <1>2, <1>3, <2>2, <3>1 DEF Branch
  <2> QED
    BY <2>1, <2>2
<1> QED
  BY <1>1, <1>4, NothingWritten, MoveKeepsClosures

(* BEGIN clears locals above every closure, and notes how many there are.     *)
LEMMA BeginKeepsClosures ==
  ASSUME StackInv, Ordered, Held, Known, prog \in Sound, status = "running",
         UNCHANGED prog, Begin, status' = "running"
  PROVE  Ordered' /\ Held' /\ Known'
<1>1. /\ ip \in Reachable(P) /\ I.op \in Begins /\ sp \in Nat
      /\ base \in Nat /\ args \in Nat /\ sp - Popped(I) >= base
      /\ Popped(I) = 0 /\ Depth \in Nat
  BY RunningFacts, ActivationFacts, BeginMovesNothing DEF Begin, At
<1>2. /\ locals' = Locals(I)
      /\ stack' = [j \in Slots |->
                     IF j \in sp .. sp + Locals(I) - 1 THEN Zero ELSE stack[j]]
      /\ ip' = ip + 1
      /\ UNCHANGED <<heap, base, args, captured, is_closure, frames>>
  <2>1. ASSUME NEW t, t # "running", Stop(t) PROVE FALSE
    BY <2>1 DEF Stop
  <2>2. PushFault # "running"
    BY DEF PushFault
  <2> QED
    BY <2>1, <2>2 DEF Begin
<1>3. Header(ip + 1) = I /\ Locals(I) \in Nat
  <2>1. ip + 1 \in Successors(P, ip)
    BY <1>1, SequentialSuccessor DEF I
  <2> QED
    BY <1>1, <2>1, SuccessorHeight, ReachableInstruction DEF I, StackInv
<1>4. BelowArgsKept
  <2> SUFFICES ASSUME NEW j \in Slots, j < base - args
               PROVE  stack'[j] = stack[j]
    BY DEF BelowArgsKept
  <2>1. j \in Int /\ ~ (j \in sp .. sp + Locals(I) - 1)
    BY <1>1, <1>3 DEF Slots
  <2> QED
    BY <1>2, <2>1
<1>5. Ordered' /\ Held'
  BY <1>2, <1>4, HeapStays, HeldStays
<1>6. P' = P
  BY DEF P
<1>7. Known'
  BY <1>1, <1>2, <1>3, <1>6, KnownStays DEF Header
<1> QED
  BY <1>5, <1>7

(* The callee lies above everything its callers own, on top of the closure    *)
(* it was called through.                                                   *)
LEMMA EnterKeepsClosures ==
  ASSUME StackInv, Ordered, Held, Known, prog \in Sound, status = "running",
         UNCHANGED prog, I.op \notin Begins, ip + 1 \in Successors(P, ip),
         NEW l, IsEntry(P, l), NEW n \in Nat, NEW closure \in BOOLEAN, NEW nc,
         Popped(I) = n + (IF closure THEN 1 ELSE 0),
         closure => Keeps(sp - Popped(I), nc),
         EnterFunction(l, n, closure, nc), status' = "running"
  PROVE  Ordered' /\ Held' /\ Known'
<1>0. PICK D \in Nat : D = Depth
  BY ActivationFacts
<1>1. /\ frames' = Append(frames, SavedFrame)
      /\ ip' = l /\ is_closure' = closure /\ base' = sp /\ args' = n
      /\ captured' = nc /\ locals' = 0
      /\ UNCHANGED <<stack, sp, heap>>
  BY DEF EnterFunction, memory, Stop
<1>2. frames \in Seq(Frame) /\ Len(frames) = D /\ D # 0
  BY <1>0 DEF StackInv, TypeOK, Depth
<1>3. /\ Len(frames') = D + 1
      /\ \A k \in 1 .. D : frames'[k] = frames[k]
      /\ frames'[D + 1] = SavedFrame
  BY <1>1, <1>2
<1>4. /\ SavedFrame.prev_ip = ip + 1 /\ SavedFrame.prev_base = base
      /\ SavedFrame.prev_args = args /\ SavedFrame.prev_locals = locals
      /\ SavedFrame.prev_captured = captured /\ SavedFrame.is_closure = is_closure
  BY DEF SavedFrame, Saved
<1>5. P' = P /\ Depth' = D + 1 /\ \A i : Header(i)' = Header(i)
  BY <1>3 DEF P, Depth, Header
<1>6. /\ ip \in Reachable(P) /\ sp \in Nat /\ base \in Nat
      /\ Popped(I) \in Nat /\ sp - Popped(I) >= base
  BY RunningFacts
<1>7. \A k \in 1 .. D : /\ Base(k)' = Base(k) /\ FloorAt(k)' = FloorAt(k)
                        /\ Runs(k)' = Runs(k) /\ CapturedAt(k)' = CapturedAt(k)
                        /\ LocalsReg(k)' = LocalsReg(k)
  <2>1. \A k \in 1 .. D : Base(k)' = Base(k)
    BY <1>2, <1>3, <1>4 DEF Base, Depth
  <2>2. \A k \in 1 .. D : FloorAt(k)' = FloorAt(k)
    BY <1>2, <1>3, <1>4 DEF FloorAt, Floor, Depth
  <2>3. \A k \in 1 .. D : Runs(k)' = Runs(k)
    BY <1>2, <1>3, <1>4 DEF Runs, Depth
  <2>4. \A k \in 1 .. D : CapturedAt(k)' = CapturedAt(k) /\ LocalsReg(k)' = LocalsReg(k)
    BY <1>2, <1>3, <1>4 DEF CapturedAt, LocalsReg, Depth
  <2> QED
    BY <2>1, <2>2, <2>3, <2>4
<1>8. FloorAt(D + 1)' = sp - Popped(I) /\ Runs(D + 1)' = closure /\ CapturedAt(D + 1)' = nc
  BY <1>1, <1>2, <1>3, <1>6 DEF FloorAt, Floor, Runs, CapturedAt, Depth
<1>9. Ordered'
  <2>1. base = Base(D) /\ Floor = FloorAt(D) /\ Floor <= base /\ Floor \in Int
    BY <1>0, <1>2, <1>6, RunningFacts, ActivationFacts
  <2>2. P.globals \in Nat
    BY LoadedProgram DEF StackInv
  <2>3. /\ P.globals <= FloorAt(D + 1)'
        /\ \A j \in 1 .. D : Base(j) <= FloorAt(D + 1)'
    <3>1. P.globals <= Floor /\ \A j \in 1 .. D - 1 : Base(j) <= Floor /\ Base(j) \in Nat
      BY <1>0, <1>2, <2>1, ActivationFacts DEF Ordered
    <3>2. ASSUME NEW j \in 1 .. D PROVE Base(j) <= FloorAt(D + 1)'
      <4>1. CASE j = D
        BY <1>6, <1>8, <2>1, <4>1
      <4>2. CASE j # D
        <5>1. Base(j) <= Floor /\ Base(j) \in Nat
          BY <3>1, <4>2
        <5> QED
          BY <1>6, <1>8, <2>1, <5>1
      <4> QED
        BY <4>1, <4>2
    <3> QED
      BY <1>6, <1>8, <2>1, <2>2, <3>1, <3>2
  <2>4. ASSUME NEW k \in 1 .. D + 1
        PROVE  /\ P.globals <= FloorAt(k)'
               /\ \A j \in 1 .. k - 1 : Base(j)' <= FloorAt(k)'
    <3>1. CASE k = D + 1
      BY <1>7, <2>3, <3>1
    <3>2. CASE k # D + 1
      <4>1. k \in 1 .. D /\ \A j \in 1 .. k - 1 : j \in 1 .. D
        BY <1>2, <3>2
      <4> QED
        BY <1>0, <1>7, <4>1 DEF Ordered
    <3> QED
      BY <3>1, <3>2
  <2> QED
    BY <1>5, <2>4 DEF Ordered
<1>10. Held'
  <2>1. ASSUME NEW k \in 1 .. D + 1, Runs(k)'
        PROVE  Keeps(FloorAt(k), CapturedAt(k))'
    <3>1. CASE k = D + 1
      <4>1. closure /\ Keeps(sp - Popped(I), nc)
        BY <1>8, <2>1, <3>1
      <4> QED
        BY <1>1, <1>8, <3>1, <4>1 DEF Keeps, Slots
    <3>2. CASE k # D + 1
      <4>1. k \in 1 .. D
        BY <1>2, <3>2
      <4> QED
        BY <1>0, <1>1, <1>7, <2>1, <4>1, NothingWritten, SlotKept DEF StackInv
    <3> QED
      BY <3>1, <3>2
  <2> QED
    BY <1>5, <2>1 DEF Held
<1>11. Known'
  <2>1. locals = Locals(Header(ip + 1))
    <3>1. Header(ip + 1) = Header(ip)
      BY <1>6, SuccessorHeight DEF StackInv
    <3> QED
      BY <1>0, <1>2, <3>1 DEF Known, IpAt, LocalsReg, I
  <2>2. ASSUME NEW k \in 1 .. D + 1, P.code[IpAt(k)'].op \notin Begins
        PROVE  LocalsReg(k)' = Locals(Header(IpAt(k)'))
    <3>1. CASE k = D + 1
      BY <1>1, <1>5, <2>2, <3>1 DEF IpAt, IsEntry
    <3>2. CASE k = D
      <4>1. IpAt(k)' = ip + 1 /\ LocalsReg(k) = locals
        BY <1>0, <1>3, <1>4, <1>5, <3>2 DEF IpAt, LocalsReg
      <4> QED
        BY <1>2, <1>7, <2>1, <3>2, <4>1
    <3>3. CASE k \in 1 .. D - 1
      <4>1. IpAt(k)' = IpAt(k)
        BY <1>0, <1>2, <1>3, <1>5, <3>3 DEF IpAt
      <4> QED
        BY <1>0, <1>2, <1>7, <2>2, <3>3, <4>1 DEF Known
    <3> QED
      BY <1>2, <3>1, <3>2, <3>3
  <2> QED
    BY <1>5, <2>2 DEF Known
<1> QED
  BY <1>9, <1>10, <1>11

LEMMA CallKeepsClosures ==
  ASSUME StackInv, Ordered, Held, Known, prog \in Sound, status = "running",
         UNCHANGED prog, Call \/ CallClosure, status' = "running"
  PROVE  Ordered' /\ Held' /\ Known'
<1> USE DEF At
<1>0. /\ ip \in Reachable(P) /\ ip \in DOMAIN P.code /\ Enters(heap) /\ TypeOK
      /\ IsInstruction(I) /\ sp \in Nat
  BY RunningFacts, FetchedInstruction DEF StackInv
<1>1. I.op \notin Begins /\ ip + 1 \in Successors(P, ip)
  <2>1. I.op \in Sequential /\ I.op \notin Begins
    BY SequentialTable DEF Call, CallClosure, Begins
  <2> QED
    BY <2>1, SequentialSuccessor DEF I
<1>2. CASE Call
  <2>1. Popped(I) = I.b + 0 /\ I.b \in Nat
    BY <1>0, <1>2, PoppedTable, RunningFacts DEF Call, IsInstruction
  <2>2. IsEntry(P, I.a)
    BY <1>0, <1>2, ReachableInstruction DEF Call, WellPlaced, I
  <2> QED
    BY <1>1, <1>2, <2>1, <2>2, EnterKeepsClosures DEF Call
<1>3. CASE CallClosure
  <2> DEFINE slot == sp - I.a - 1
             c == heap[stack[slot].val]
  <2>1. Popped(I) = I.a + 1 /\ I.a \in Nat
    BY <1>0, <1>3, PoppedTable, CalledCount DEF CallClosure
  <2>2. ASSUME NEW t, t # "running", Stop(t) PROVE FALSE
    BY <2>2 DEF Stop
  <2>3. /\ slot \in Slots
        /\ IsA(heap, stack[slot], {"CLOSURE"})
        /\ EnterFunction(c.entry, I.a, TRUE, CapturedBy(c))
    BY <1>3, <2>2 DEF CallClosure
  <2>4. stack[slot].val \in 1 .. Len(heap) /\ c.type = "CLOSURE"
    BY <1>0, <2>3, SlotTypes, OperandTypes, ValueCases DEF IsA
  <2>5. IsEntry(P, c.entry)
    BY <1>0, <2>4 DEF Enters
  <2>6. CapturedBy(c) = Len(c.elems)
    <3>1. IsHeap(heap)
      BY <1>0, OperandTypes
    <3>2. /\ heap[stack[slot].val].elems \in Seq(Value(Len(heap)))
          /\ Len(heap[stack[slot].val].elems) \in Nat
      BY <2>4, <3>1, ElementsAreValues
    <3> QED
      BY <2>4, <3>2 DEF CapturedBy, LenOf
  <2>7. slot = sp - Popped(I)
    BY <1>0, <2>1
  <2>8. Keeps(sp - Popped(I), CapturedBy(c))
    BY <2>3, <2>6, <2>7 DEF Keeps
  <2> HIDE DEF c
  <2> QED
    BY <1>1, <2>1, <2>3, <2>5, <2>8, EnterKeepsClosures
<1> QED
  BY <1>2, <1>3

(* END writes the slot its own activation started at, above every caller's    *)
(* closure, and gives the caller back the registers saved for it.            *)
LEMMA ReturnKeepsClosures ==
  ASSUME StackInv, Ordered, Held, Known, prog \in Sound, status = "running",
         UNCHANGED prog, Return, status' = "running"
  PROVE  Ordered' /\ Held' /\ Known'
<1>0. PICK D \in Nat : D = Depth
  BY ActivationFacts
<1>1. frames \in Seq(Frame) /\ Len(frames) = D /\ D # 0 /\ TypeOK
  BY <1>0 DEF StackInv, TypeOK, Depth
<1>2. /\ stack' = [stack EXCEPT ![Floor] = Top(1)]
      /\ UNCHANGED heap
      /\ ~ Outermost(frames[D])
      /\ ip' = frames[D].prev_ip
      /\ base' = frames[D].prev_base
      /\ args' = frames[D].prev_args
      /\ locals' = frames[D].prev_locals
      /\ captured' = frames[D].prev_captured
      /\ is_closure' = frames[D].is_closure
      /\ frames' = SubSeq(frames, 1, D - 1)
  <2>1. ASSUME NEW t, t # "running", Stop(t) PROVE FALSE
    BY <2>1 DEF Stop
  <2>2. PopFault # "running" /\ PushFault # "running"
    BY DEF PopFault, PushFault
  <2> QED
    BY <1>1, <2>1, <2>2 DEF Return
<1>3. D # 1
  BY <1>1, <1>2 DEF TypeOK, Outermost
<1>4. Len(frames') = D - 1 /\ \A k \in 1 .. D - 1 : frames'[k] = frames[k]
  BY <1>1, <1>2, FrontOfSequence
<1>5. P' = P /\ Depth' = D - 1 /\ \A i : Header(i)' = Header(i)
  BY <1>4 DEF P, Depth, Header
<1>6. ASSUME NEW k \in 1 .. D - 1
      PROVE  /\ Base(k)' = Base(k) /\ FloorAt(k)' = FloorAt(k)
             /\ Runs(k)' = Runs(k) /\ CapturedAt(k)' = CapturedAt(k)
             /\ LocalsReg(k)' = LocalsReg(k) /\ IpAt(k)' = IpAt(k)
  <2>1. CASE k = D - 1
    BY <1>0, <1>2, <1>3, <1>5, <2>1 DEF Base, FloorAt, Floor, Runs, CapturedAt,
       LocalsReg, IpAt
  <2>2. CASE k # D - 1
    <3>1. k + 1 \in 1 .. D - 1 /\ k # D
      BY <2>2
    <3> QED
      BY <1>0, <1>4, <1>5, <2>2, <3>1 DEF Base, FloorAt, Runs, CapturedAt, LocalsReg,
         IpAt
  <2> QED
    BY <2>1, <2>2
<1>7. \A k \in 1 .. D - 1 : k \in 1 .. Depth /\ \A j \in 1 .. k - 1 : j \in 1 .. D - 1
  BY <1>0
<1>8. Ordered'
  BY <1>5, <1>6, <1>7 DEF Ordered
<1>9. Known'
  BY <1>5, <1>6, <1>7 DEF Known
<1>10. ASSUME NEW k \in 1 .. D - 1, Runs(k)'
       PROVE  Keeps(FloorAt(k), CapturedAt(k))'
  <2>1. Runs(k) /\ k \in 1 .. Depth
    BY <1>6, <1>7, <1>10
  <2>2. Floor = FloorAt(D) /\ D \in 1 .. Depth
    BY <1>0, <1>1, ActivationFacts
  <2>3. Base(k) <= Floor
    BY <2>2 DEF Ordered
  <2>4. FloorAt(k) < Base(k) /\ Base(k) \in Nat /\ FloorAt(k) \in Int /\ Floor \in Int
    BY <2>1, <2>2, ActivationFacts
  <2>5. FloorAt(k) # Floor
    BY <2>3, <2>4
  <2>6. FloorAt(k) \in Slots => stack'[FloorAt(k)] = stack[FloorAt(k)]
    BY <1>1, <1>2, <2>5 DEF TypeOK
  <2> QED
    BY <1>1, <1>2, <1>6, <2>1, <2>6, HeapStays, SlotKept
<1> QED
  BY <1>5, <1>8, <1>9, <1>10 DEF Held

-----------------------------------------------------------------------------
(***************************************************************************)
(* Slots and captures.                                                     *)
(***************************************************************************)

(* The slots an instruction of the first interpreter finds legal exist.      *)
LEMMA LegalSlots ==
  ASSUME StackInv, Ordered, Known, prog \in Sound, status = "running",
         I.op \notin Begins, NEW a \in Int
  PROVE  /\ a \in 0 .. P.globals - 1 => a \in Slots
         /\ a \in 0 .. locals - 1 => base + a \in Slots
         /\ a \in 0 .. args - 1 => ArgSlot(a) \in Slots
<1>1. /\ P.globals \in Nat /\ P.globals + 2 <= STACK_MAX_SIZE /\ STACK_MAX_SIZE \in Nat
  BY LoadedProgram, SoundProgramFits, BoundsAssumption DEF StackInv
<1>2. /\ ip \in Reachable(P) /\ sp = base + Height(ip) /\ base \in Nat /\ args \in Nat
      /\ Popped(I) \in Nat /\ Height(ip) \in Nat /\ Floor \in Int
  BY RunningFacts
<1>3. sp <= STACK_MAX_SIZE /\ sp \in Nat
  BY DEF StackInv, TypeOK
<1>4. Depth \in Nat /\ Depth # 0 /\ Floor = FloorAt(Depth) /\ Floor <= base - args
  BY ActivationFacts
<1>5. P.globals <= Floor
  BY <1>4 DEF Ordered
<1>6. /\ locals = Locals(Header(ip)) /\ Locals(Header(ip)) \in Nat
      /\ Height(ip) >= Popped(I) + Locals(Header(ip))
  <2>1. locals = Locals(Header(ip))
    BY <1>4 DEF Known, IpAt, LocalsReg, I
  <2> QED
    BY <1>2, <2>1, ReachableInstruction, HeightCoversOperands DEF StackInv, I
<1>7. a \in 0 .. P.globals - 1 => a \in Slots
  BY <1>1 DEF Slots
<1>8. a \in 0 .. locals - 1 => base + a \in Slots
  BY <1>1, <1>2, <1>3, <1>6 DEF Slots
<1>9. a \in 0 .. args - 1 => ArgSlot(a) \in Slots
  BY <1>1, <1>2, <1>3, <1>4, <1>5 DEF ArgSlot, Slots
<1> QED
  BY <1>7, <1>8, <1>9

LEMMA RunningClosure ==
  ASSUME StackInv, Held, prog \in Sound, is_closure
  PROVE  Keeps(ClosureSlot, captured)
<1>1. Depth \in 1 .. Depth /\ FloorAt(Depth) = ClosureSlot
  BY ActivationFacts
<1> QED
  BY <1>1 DEF Held, Runs, CapturedAt

(* A caller's count of arguments is no negative number in well-formed code,   *)
(* so the check of an argument is that of an index.                          *)
LEMMA PassedIs ==
  ASSUME args \in Nat, NEW a \in Int
  PROVE  Passed(a) <=> a \in 0 .. args - 1
BY DEF Passed

(* Every capture below captured is there to be read.                         *)
LEMMA CapturesThere ==
  ASSUME StackInv, Held, prog \in Sound, is_closure, NEW c \in Int, c \in 0 .. captured - 1
  PROVE  ClosureSlot \in Slots /\ HoldsCapture(c)
<1>1. Keeps(ClosureSlot, captured)
  BY RunningClosure
<1>2. stack[ClosureSlot].val \in 1 .. Len(heap)
  BY <1>1, SlotTypes, OperandTypes, ValueCases DEF Keeps, IsA, StackInv
<1>3. heap[stack[ClosureSlot].val].elems \in Seq(Value(Len(heap)))
  BY <1>2, OperandTypes, ElementsAreValues DEF StackInv
<1>4. c + 1 \in DOMAIN heap[stack[ClosureSlot].val].elems
  BY <1>1, <1>3 DEF Keeps
<1> QED
  BY <1>1, <1>4 DEF Keeps, HoldsCapture

(* Only a CLOSURE stops the first interpreter outside an object or the stack. *)
LEMMA OnlyClosureIsWild ==
  ASSUME StackInv, Ordered, Held, Known, prog \in Sound, status = "running",
         ~ VERIFIED, Data \/ Variable \/ Control \/ Write, status' = "wild"
  PROVE  I.op = "CLOSURE" /\ UNCHANGED ip
<1> USE DEF At
<1>1. PopFault = "failed" /\ PushFault = "exhausted"
  BY DEF PopFault, PushFault
<1>2. ASSUME NEW t, t # "wild", Stop(t) PROVE FALSE
  BY <1>2 DEF Stop
<1>3. ASSUME NEW k, NEW o, Operate(k, o) PROVE FALSE
  BY <1>1, <1>2, <1>3 DEF Operate
<1>4. ~ (Data \/ Write)
  <2>1. I.op \in {"STRING", "SEXP", "TAG"} => I.a \in DOMAIN P.strings
    BY RunningFacts, ReachableInstruction DEF StackInv, WellPlaced, I
  <2>2. ~ (LoadString \/ TestTag)
    BY <1>1, <1>2, <1>3, <2>1 DEF LoadString, TestTag, WithString
  <2>3. ~ (MakeSexp \/ MakeArray)
    <3>1. (I.op = "SEXP" => ~ (I.b < 0)) /\ (I.op = "CALL_Barray" => ~ (I.a < 0))
      BY RunningFacts, PoppedTable
    <3> QED
      BY <1>2, <1>3, <2>1, <3>1 DEF MakeSexp, MakeArray, WithString, WithCount
  <2> QED
    BY <1>2, <1>3, <2>2, <2>3 DEF Data, Write, BinaryOp, Const,
       StoreInto, Elem, Drop, Dup, Swap, TestArray, PattEq, Pattern, Length,
       Line, Read, Stringify
<1>5. ASSUME ip \in DOMAIN P.code PROVE I.a \in Int
  BY <1>5, FetchedInstruction DEF StackInv, IsInstruction
<1>6. ~ (LoadGlobal \/ LoadLocal \/ LoadArg)
  <2>1. ASSUME NEW slot, NEW legal, legal => slot \in Slots, LoadSlot(slot, legal)
        PROVE  FALSE
    BY <1>2, <1>3, <2>1 DEF LoadSlot
  <2>2. SUFFICES ASSUME LoadGlobal \/ LoadLocal \/ LoadArg PROVE FALSE
    OBVIOUS
  <2>3. I.op \notin Begins /\ I.a \in Int
    BY <1>5, <2>2 DEF LoadGlobal, LoadLocal, LoadArg, Begins
  <2>4. Passed(I.a) => ArgSlot(I.a) \in Slots
    BY <2>3, RunningFacts, PassedIs, LegalSlots
  <2> QED
    BY <2>1, <2>2, <2>3, <2>4, LegalSlots DEF LoadGlobal, LoadLocal, LoadArg
<1>7. ~ (StoreGlobal \/ StoreLocal \/ StoreArg)
  <2>1. ASSUME NEW slot, NEW legal, legal => slot \in Slots, StoreSlot(slot, legal)
        PROVE  FALSE
    BY <1>1, <1>2, <2>1 DEF StoreSlot
  <2>2. SUFFICES ASSUME StoreGlobal \/ StoreLocal \/ StoreArg PROVE FALSE
    OBVIOUS
  <2>3. I.op \notin Begins /\ I.a \in Int
    BY <1>5, <2>2 DEF StoreGlobal, StoreLocal, StoreArg, Begins
  <2>4. Passed(I.a) => ArgSlot(I.a) \in Slots
    BY <2>3, RunningFacts, PassedIs, LegalSlots
  <2> QED
    BY <2>1, <2>2, <2>3, <2>4, LegalSlots DEF StoreGlobal, StoreLocal, StoreArg
<1>8. ~ (LoadCaptured \/ StoreCaptured)
  <2>1. SUFFICES ASSUME LoadCaptured \/ StoreCaptured PROVE FALSE
    OBVIOUS
  <2>2. I.a \in Int
    BY <1>5, <2>1 DEF LoadCaptured, StoreCaptured
  <2>3. is_closure => ClosureSlot \in Slots
    BY RunningClosure DEF Keeps
  <2>4. is_closure /\ I.a \in 0 .. captured - 1 => HoldsCapture(I.a)
    BY <2>2, CapturesThere
  <2> QED
    BY <1>2, <1>3, <2>1, <2>3, <2>4 DEF LoadCaptured, StoreCaptured, WithCapture
<1>9. ~ CallClosure
  <2>1. SUFFICES ASSUME CallClosure PROVE FALSE
    OBVIOUS
  <2>2. /\ I.a \in Nat /\ sp \in Nat /\ base \in Nat /\ Popped(I) = I.a + 1
        /\ sp - Popped(I) >= base
    BY <2>1, RunningFacts, PoppedTable, CalledCount DEF CallClosure
  <2>3. sp <= STACK_MAX_SIZE /\ STACK_MAX_SIZE \in Nat
    BY BoundsAssumption DEF StackInv, TypeOK
  <2>4. sp - I.a - 1 \in Slots
    BY <2>2, <2>3 DEF Slots
  <2> QED
    BY <1>2, <2>1, <2>4 DEF CallClosure, EnterFunction
<1>10. ~ Return
  <2>1. P.globals \in Nat /\ Floor \in Int /\ Depth \in Nat /\ Depth # 0
        /\ Floor = FloorAt(Depth)
    BY LoadedProgram, RunningFacts, ActivationFacts DEF StackInv
  <2>2. ~ (Floor < 0)
    BY <2>1 DEF Ordered
  <2> QED
    BY <1>1, <1>2, <2>2 DEF Return
<1>11. ~ (FetchOutside \/ Unsupported \/ Fail \/ Jump \/ Branch \/ Begin \/ Call)
  BY <1>1, <1>2 DEF FetchOutside, Unsupported, Fail, Jump, Branch, Begin, Call, GoTo,
     EnterFunction
<1>12. MakeClosure => I.op = "CLOSURE" /\ UNCHANGED ip
  BY <1>3 DEF MakeClosure, Stop
<1> QED
  BY <1>4, <1>6, <1>7, <1>8, <1>9, <1>10, <1>11, <1>12, ControlCases DEF Variable

-----------------------------------------------------------------------------
LEMMA NextKeepsClosures ==
  ASSUME ClosureInv, [Next]_vars
  PROVE  ClosureInv'
<1>1. StackInv /\ StackInv' /\ SlotsChecked
  BY NextKeepsInv DEF ClosureInv
<1>2. CASE UNCHANGED vars
  BY <1>1, <1>2 DEF vars, registers, memory, ClosureInv, Ordered, Held, Known, Keeps,
     IsA, CapturedAt, LocalsReg, IpAt, Runs, FloorAt, Floor, Base, Depth, Header,
     P, I, Sound, SlotsChecked
<1>3. CASE prog \notin Sound /\ UNCHANGED prog
  BY <1>1, <1>3 DEF ClosureInv, SlotsChecked, Sound
<1>4. CASE prog \in Sound /\ UNCHANGED prog /\ (Data \/ Variable \/ Control \/ Write)
  <2>1. status = "running" /\ Ordered /\ Held /\ Known
    BY <1>4, StepsRun DEF ClosureInv
  <2>2. SlotsChecked'
    BY <1>1, <1>4, <2>1, OnlyClosureIsWild DEF SlotsChecked, I, P
  <2>3. SUFFICES ASSUME status' = "running"
                 PROVE  Ordered' /\ Held' /\ Known'
    BY <1>1, <2>2 DEF ClosureInv
  <2>4. CASE Data \/ Variable \/ Write \/ MakeClosure
    <3>1. StopsSafely \/ StepsOn
      BY <1>1, <1>4, <2>1, <2>4, DataStep, VariableStep, WriteStep, MakeClosureStep
    <3>2. ~ StopsSafely
      BY <2>3 DEF StopsSafely, Stop
    <3>3. I.op \in Sequential
      BY <2>4, StepsRun
    <3> QED
      BY <1>1, <1>4, <2>1, <3>1, <3>2, <3>3, StepKeepsClosures
  <2>5. CASE FetchOutside \/ Unsupported \/ Fail
    <3>1. PopFault # "running"
      BY DEF PopFault
    <3> QED
      BY <2>3, <2>5, <3>1 DEF FetchOutside, Unsupported, Fail, Stop
  <2>6. CASE Jump \/ Branch
    BY <1>1, <1>4, <2>1, <2>3, <2>6, JumpKeepsClosures
  <2>7. CASE Begin
    BY <1>1, <1>4, <2>1, <2>3, <2>7, BeginKeepsClosures
  <2>8. CASE Call \/ CallClosure
    BY <1>1, <1>4, <2>1, <2>3, <2>8, CallKeepsClosures
  <2>9. CASE Return
    BY <1>1, <1>4, <2>1, <2>3, <2>9, ReturnKeepsClosures
  <2> QED
    BY <1>4, <2>4, <2>5, <2>6, <2>7, <2>8, <2>9, ControlCases
<1> QED
  BY <1>2, <1>3, <1>4 DEF Next, Exited, vars

(* main is no closure, and its BEGIN has not run yet.                        *)
LEMMA InitClosures ==
  ASSUME Init
  PROVE  ClosureInv
<1>1. StackInv /\ P.globals \in Nat
  BY InitInv, InitType, LoadedProgram
<1>2. /\ ip = 0 /\ base = P.globals + 2 /\ args = 2 /\ is_closure = FALSE
      /\ frames = <<OuterFrame>>
      /\ prog \in Sound => status = "running"
  BY SoundProgramFits DEF Init, Fits
<1>3. Depth = 1
  BY <1>2 DEF Depth
<1>4. FloorAt(1) = P.globals /\ ~ Runs(1) /\ IpAt(1) = 0
  BY <1>1, <1>2, <1>3 DEF FloorAt, Floor, Runs, IpAt
<1>5. prog \in Sound => P.code[0].op \in Begins
  BY DEF Sound, WellFormed, IsEntry, P
<1>6. Ordered /\ Held
  BY <1>1, <1>3, <1>4 DEF Ordered, Held
<1>7. prog \in Sound => Known
  BY <1>3, <1>4, <1>5 DEF Known
<1> QED
  BY <1>1, <1>2, <1>6, <1>7 DEF ClosureInv, SlotsChecked

LEMMA ClosureInvHolds == Spec => []ClosureInv
<1>1. Init => ClosureInv
  BY InitClosures
<1>2. ClosureInv /\ [Next]_vars => ClosureInv'
  BY NextKeepsClosures
<1> QED
  BY <1>1, <1>2, PTL DEF Spec

(* In any well-formed program, under either interpreter and through any       *)
(* nesting of calls, a running closure finds itself below its arguments and   *)
(* captured counts what it holds: the first thing LDC and STC rely on.       *)
THEOREM ClosuresKept == Spec => []ClosureKept
<1>1. ClosureInv => ClosureKept
  BY RunningClosure DEF ClosureInv, ClosureKept, Keeps
<1> QED
  BY <1>1, ClosureInvHolds, PTL

(* In any well-formed program the checks of the first interpreter leave no    *)
(* instruction but CLOSURE that could reach a slot outside the stack or a     *)
(* capture its closure does not hold.                                       *)
THEOREM SlotsAreChecked == Spec => []SlotsChecked
<1>1. ClosureInv => SlotsChecked
  BY DEF ClosureInv
<1> QED
  BY <1>1, ClosureInvHolds, PTL

-----------------------------------------------------------------------------
(***************************************************************************)
(* The interpreters implement LamaMachine: one flat stack, a few registers  *)
(* and an array of saved registers behave as activations that own their     *)
(* arguments, locals, operands and closure.  Each action is shown to be a   *)
(* step of the machine, which the last lemmas put together.                 *)
(***************************************************************************)

-----------------------------------------------------------------------------
(***************************************************************************)
(* Stretches of the stack as sequences.                                    *)
(***************************************************************************)

(* The values in slots lo .. hi-1 of st.                                     *)
Segment(st, lo, hi) == [j \in 1 .. hi - lo |-> st[lo + j - 1]]

LEMMA FunctionIsSequence ==
  ASSUME NEW S, NEW n \in Nat, NEW f \in [1 .. n -> S]
  PROVE  f \in Seq(S) /\ Len(f) = n
OBVIOUS

LEMMA SameElements ==
  ASSUME NEW S, NEW T, NEW s \in Seq(S), NEW t \in Seq(T), Len(s) = Len(t),
         \A j \in 1 .. Len(s) : s[j] = t[j]
  PROVE  s = t
OBVIOUS

(* Segments as sequences over what their slots hold.                         *)
Cells(st, lo, hi) == {st[j] : j \in lo .. hi - 1}

LEMMA SegmentIsSequence ==
  ASSUME NEW st, NEW lo \in Int, NEW hi \in Int, lo <= hi
  PROVE  /\ Segment(st, lo, hi) \in Seq(Cells(st, lo, hi))
         /\ Len(Segment(st, lo, hi)) = hi - lo
         /\ \A j \in 1 .. hi - lo : Segment(st, lo, hi)[j] = st[lo + j - 1]
         /\ <<>> \o Segment(st, lo, hi) = Segment(st, lo, hi)
<1>1. hi - lo \in Nat
  OBVIOUS
<1>2. ASSUME NEW j \in 1 .. hi - lo
      PROVE  st[lo + j - 1] \in Cells(st, lo, hi)
  <2>1. lo + j - 1 \in lo .. hi - 1
    OBVIOUS
  <2> QED
    BY <2>1 DEF Cells
<1>3. Segment(st, lo, hi) \in [1 .. hi - lo -> Cells(st, lo, hi)]
  BY <1>2 DEF Segment
<1>4. /\ Segment(st, lo, hi) \in Seq(Cells(st, lo, hi))
      /\ Len(Segment(st, lo, hi)) = hi - lo
  BY <1>1, <1>3, FunctionIsSequence
<1>5. <<>> \o Segment(st, lo, hi) = Segment(st, lo, hi)
  BY <1>4, ConcatEmptySeq
<1> QED
  BY <1>4, <1>5 DEF Segment

LEMMA CellsWithin ==
  ASSUME NEW st, NEW lo \in Int, NEW hi \in Int, NEW a \in Int, NEW b \in Int,
         lo <= a, b <= hi
  PROVE  Cells(st, a, b) \subseteq Cells(st, lo, hi)
BY DEF Cells

LEMMA SegmentsEqual ==
  ASSUME NEW st, NEW tt, NEW lo \in Int, NEW hi \in Int,
         \A j \in Int : lo <= j /\ j < hi => st[j] = tt[j]
  PROVE  Segment(st, lo, hi) = Segment(tt, lo, hi)
BY DEF Segment

LEMMA SegmentEmpty ==
  ASSUME NEW st, NEW lo \in Int
  PROVE  Segment(st, lo, lo) = <<>>
<1>1. Segment(st, lo, lo) \in Seq(Cells(st, lo, lo)) /\ Len(Segment(st, lo, lo)) = lo - lo
  BY SegmentIsSequence
<1> QED
  BY <1>1

LEMMA SegmentPart ==
  ASSUME NEW st, NEW lo \in Int, NEW hi \in Int, NEW a \in Int, NEW b \in Int,
         lo <= a, a <= b, b <= hi
  PROVE  SubSeq(Segment(st, lo, hi), a - lo + 1, b - lo) = Segment(st, a, b)
<1> DEFINE s == Segment(st, lo, hi)
           t == Segment(st, a, b)
           S == Cells(st, lo, hi)
<1>1. s \in Seq(S) /\ Len(s) = hi - lo /\ \A j \in 1 .. hi - lo : s[j] = st[lo + j - 1]
  BY SegmentIsSequence
<1>2. t \in Seq(Cells(st, a, b)) /\ Len(t) = b - a
      /\ \A j \in 1 .. b - a : t[j] = st[a + j - 1]
  BY SegmentIsSequence
<1> HIDE DEF s, t, S
<1>3. /\ \A i \in a - lo + 1 .. b - lo : s[i] \in S
      /\ a - lo + 1 \in Int /\ b - lo \in Int
  BY <1>1
<1>4. /\ SubSeq(s, a - lo + 1, b - lo) \in Seq(S)
      /\ Len(SubSeq(s, a - lo + 1, b - lo)) =
           IF a - lo + 1 <= b - lo THEN b - lo - (a - lo + 1) + 1 ELSE 0
      /\ \A i \in 1 .. b - lo - (a - lo + 1) + 1 :
           SubSeq(s, a - lo + 1, b - lo)[i] = s[a - lo + 1 + i - 1]
  BY <1>3, SubSeqProperties
<1>5. Len(SubSeq(s, a - lo + 1, b - lo)) = b - a
  BY <1>4
<1>6. \A i \in 1 .. b - a : SubSeq(s, a - lo + 1, b - lo)[i] = t[i]
  <2> TAKE i \in 1 .. b - a
  <2>1. /\ i \in 1 .. b - lo - (a - lo + 1) + 1 /\ a - lo + 1 + i - 1 = a - lo + i
        /\ a - lo + i \in 1 .. hi - lo /\ lo + (a - lo + i) - 1 = a + i - 1
    OBVIOUS
  <2> QED
    BY <1>1, <1>2, <1>4, <2>1
<1>7. SubSeq(s, a - lo + 1, b - lo) = t
  BY <1>2, <1>4, <1>5, <1>6, SameElements
<1> QED
  BY <1>7 DEF s, t

LEMMA SegmentJoin ==
  ASSUME NEW st, NEW lo \in Int, NEW mid \in Int, NEW hi \in Int, lo <= mid, mid <= hi
  PROVE  Segment(st, lo, hi) = Segment(st, lo, mid) \o Segment(st, mid, hi)
<1> DEFINE S == Cells(st, lo, hi)
           s == Segment(st, lo, mid)
           t == Segment(st, mid, hi)
           u == Segment(st, lo, hi)
<1>1. /\ s \in Seq(Cells(st, lo, mid)) /\ Len(s) = mid - lo
      /\ \A j \in 1 .. mid - lo : s[j] = st[lo + j - 1]
  BY SegmentIsSequence
<1>2. /\ t \in Seq(Cells(st, mid, hi)) /\ Len(t) = hi - mid
      /\ \A j \in 1 .. hi - mid : t[j] = st[mid + j - 1]
  BY SegmentIsSequence
<1>3. /\ u \in Seq(S) /\ Len(u) = hi - lo
      /\ \A j \in 1 .. hi - lo : u[j] = st[lo + j - 1]
  BY SegmentIsSequence
<1> HIDE DEF s, t, u
<1>4. s \in Seq(S) /\ t \in Seq(S)
  <2>1. Cells(st, lo, mid) \subseteq S /\ Cells(st, mid, hi) \subseteq S
    BY CellsWithin
  <2> QED
    BY <1>1, <1>2, <2>1
<1> HIDE DEF S
<1>5. /\ s \o t \in Seq(S) /\ Len(s \o t) = Len(s) + Len(t)
      /\ \A i \in 1 .. Len(s) + Len(t) :
           (s \o t)[i] = IF i <= Len(s) THEN s[i] ELSE t[i - Len(s)]
  BY <1>4, ConcatProperties
<1>6. Len(u) = Len(s \o t) /\ Len(s) + Len(t) = hi - lo
  BY <1>1, <1>2, <1>3, <1>5
<1>7. \A i \in 1 .. Len(u) : u[i] = (s \o t)[i]
  <2> TAKE i \in 1 .. Len(u)
  <2>1. i \in 1 .. Len(s) + Len(t) /\ i \in 1 .. hi - lo
    BY <1>3, <1>6
  <2>2. u[i] = st[lo + i - 1]
    BY <1>3, <2>1
  <2>3. (s \o t)[i] = IF i <= Len(s) THEN s[i] ELSE t[i - Len(s)]
    BY <1>5, <2>1
  <2>4. CASE i <= Len(s)
    <3>1. i \in 1 .. mid - lo
      BY <1>1, <2>1, <2>4
    <3> QED
      BY <1>1, <2>2, <2>3, <2>4, <3>1
  <2>5. CASE ~ (i <= Len(s))
    <3>1. i - Len(s) \in 1 .. hi - mid /\ mid + (i - Len(s)) - 1 = lo + i - 1
      BY <1>1, <2>1, <2>5
    <3>2. t[i - Len(s)] = st[mid + (i - Len(s)) - 1]
      BY <1>2, <3>1
    <3> QED
      BY <2>2, <2>3, <2>5, <3>1, <3>2
  <2> QED
    BY <2>4, <2>5
<1>8. u = s \o t
  BY <1>3, <1>5, <1>6, <1>7, SameElements
<1> QED
  BY <1>8 DEF s, t, u

LEMMA SegmentAppend ==
  ASSUME NEW st, NEW lo \in Int, NEW hi \in Int, lo <= hi
  PROVE  Append(Segment(st, lo, hi), st[hi]) = Segment(st, lo, hi + 1)
<1> DEFINE s == Segment(st, lo, hi)
           u == Segment(st, lo, hi + 1)
           S == Cells(st, lo, hi + 1)
<1>1. /\ s \in Seq(Cells(st, lo, hi)) /\ Len(s) = hi - lo
      /\ \A j \in 1 .. hi - lo : s[j] = st[lo + j - 1]
  BY SegmentIsSequence
<1>2. /\ u \in Seq(S) /\ Len(u) = hi + 1 - lo
      /\ \A j \in 1 .. hi + 1 - lo : u[j] = st[lo + j - 1]
  <2> DEFINE h == hi + 1
  <2>1. h \in Int /\ lo <= h
    OBVIOUS
  <2> HIDE DEF h
  <2>2. /\ Segment(st, lo, h) \in Seq(Cells(st, lo, h))
        /\ Len(Segment(st, lo, h)) = h - lo
        /\ \A j \in 1 .. h - lo : Segment(st, lo, h)[j] = st[lo + j - 1]
    BY <2>1, SegmentIsSequence
  <2> QED
    BY <2>2 DEF h
<1> HIDE DEF s, u
<1>3. s \in Seq(S) /\ st[hi] \in S
  <2>1. Cells(st, lo, hi) \subseteq S
    BY DEF Cells
  <2>2. hi \in lo .. hi + 1 - 1
    OBVIOUS
  <2>3. st[hi] \in S
    BY <2>2 DEF Cells
  <2> QED
    BY <1>1, <2>1, <2>3
<1> HIDE DEF S
<1>4. /\ Append(s, st[hi]) \in Seq(S) /\ Len(Append(s, st[hi])) = Len(s) + 1
      /\ \A i \in 1 .. Len(s) : Append(s, st[hi])[i] = s[i]
      /\ Append(s, st[hi])[Len(s) + 1] = st[hi]
  BY <1>3, AppendProperties
<1>5. Append(s, st[hi]) = u
  <2>1. Len(u) = Len(Append(s, st[hi]))
    BY <1>1, <1>2, <1>4
  <2>2. \A i \in 1 .. Len(u) : u[i] = Append(s, st[hi])[i]
    BY <1>1, <1>2, <1>4
  <2> QED
    BY <1>2, <1>4, <2>1, <2>2, SameElements
<1> QED
  BY <1>5 DEF s, u

-----------------------------------------------------------------------------
(***************************************************************************)
(* The two copies of LamaValues, here and in Machine, say the same.        *)
(***************************************************************************)

LEMMA SameWords ==
  /\ \A b : Machine!Truth(b) = Truth(b)
  /\ \A n : Machine!BOX(n) = BOX(n)
  /\ Machine!Zero = Zero
  /\ \A v : Machine!UNBOXED(v) = UNBOXED(v)
  /\ \A h, v, ts : Machine!IsA(h, v, ts) = IsA(h, v, ts)
  /\ \A r : Machine!Ref(r) = Ref(r)
  /\ \A o : Machine!LenOf(o) = LenOf(o)
BY DEF Machine!Truth, Truth, Machine!BOX, BOX, Machine!IntValue, IntValue, Machine!Zero, Zero,
   Machine!UNBOXED, UNBOXED, Machine!IsA, IsA, Machine!Ref, Ref, Machine!LenOf, LenOf

LEMMA SameForms ==
  /\ \A vs, h : Machine!Pushes(vs, h) = Pushes(vs, h)
  /\ \A h : Machine!Refused(h) = Refused(h)
  /\ \A o, h : Machine!Allocates(o, h) = Allocates(o, h)
  /\ \A c, o, h : Machine!AssertThen(c, o, h) = AssertThen(c, o, h)
BY DEF Machine!Pushes, Pushes, Machine!Refused, Refused, Machine!Allocates, Allocates,
  Machine!AssertThen, AssertThen, Machine!Ref, Ref

LEMMA SameArithmetic ==
  /\ \A op, x, y : Machine!ArithmeticResult(op, x, y) = ArithmeticResult(op, x, y)
  /\ \A op, x, y : Machine!RelationalResult(op, x, y) = RelationalResult(op, x, y)
<1>1. \A x, y : Machine!Quotient(x, y) = Quotient(x, y)
  BY DEF Machine!Quotient, Quotient, Machine!Abs, Abs
<1>2. \A x, y : Machine!Remainder(x, y) = Remainder(x, y)
  BY <1>1 DEF Machine!Remainder, Remainder
<1>3. \A op, x, y : Machine!ArithmeticResult(op, x, y) = ArithmeticResult(op, x, y)
  BY <1>1, <1>2, SameWords DEF Machine!ArithmeticResult, ArithmeticResult
<1> QED
  BY <1>3, SameWords DEF Machine!RelationalResult, RelationalResult

LEMMA SameBinary == \A op, l, r, h : Machine!BinaryOutcome(op, l, r, h) = BinaryOutcome(op, l, r, h)
<1> SUFFICES ASSUME NEW op, NEW l, NEW r, NEW h PROVE Machine!BinaryOutcome(op, l, r, h) = BinaryOutcome(op, l, r, h)
 OBVIOUS
<1> Machine!Arithmetic = Arithmetic BY DEF Machine!Arithmetic, Arithmetic
<1>1. CASE op = "EQU"
 BY <1>1, SameWords, SameForms DEF Machine!BinaryOutcome, BinaryOutcome
<1>2. CASE op # "EQU"
  BY <1>2, SameWords, SameForms, SameArithmetic DEF Machine!BinaryOutcome, BinaryOutcome, Machine!AssertThen, AssertThen
<1> QED BY <1>1, <1>2

LEMMA SameOutcomes ==
  /\ \A cs : Machine!StringOf(cs) = StringOf(cs)
  /\ \A es : Machine!Array(es) = Array(es)
  /\ \A l, es : Machine!Closure(l, es) = Closure(l, es)
  /\ \A n, es, h : Machine!SexpOutcome(n, es, h) = SexpOutcome(n, es, h)
  /\ \A a, i, h : Machine!InRange(h, a, i) = InRange(h, a, i)
  /\ \A a, i, h : Machine!ElemOutcome(a, i, h) = ElemOutcome(a, i, h)
  /\ \A a, h : Machine!LengthOutcome(a, h) = LengthOutcome(a, h)
  /\ \A s, n, v, h : Machine!TagOutcome(s, n, v, h) = TagOutcome(s, n, v, h)
  /\ \A n, v, h : Machine!ArrayOutcome(n, v, h) = ArrayOutcome(n, v, h)
  /\ \A v, w, h : Machine!PattEqOutcome(v, w, h) = PattEqOutcome(v, w, h)
  /\ \A op, v, h : Machine!PatternOutcome(op, v, h) = PatternOutcome(op, v, h)
  /\ \A v, h : Machine!WriteOutcome(v, h) = WriteOutcome(v, h)
<1>1. \A a, i, h : Machine!InRange(h, a, i) = InRange(h, a, i)
  BY SameWords DEF Machine!InRange, InRange, Machine!Aggregates, Aggregates
<1>2. \A s : Machine!Hashable(s) = Hashable(s) /\ Machine!LtagHash(s) = LtagHash(s)
  BY DEF Machine!Hashable, Hashable, Machine!LtagHash, LtagHash
<1>3. \A cs : Machine!StringOf(cs) = StringOf(cs)
  BY DEF Machine!StringOf, StringOf, Machine!IntValue, IntValue
<1>4. \A es : Machine!Array(es) = Array(es)
  BY DEF Machine!Array, Array
<1>5. \A l, es : Machine!Closure(l, es) = Closure(l, es)
  BY DEF Machine!Closure, Closure
<1>6. \A n, es, h : Machine!SexpOutcome(n, es, h) = SexpOutcome(n, es, h)
  BY <1>2, SameForms DEF Machine!SexpOutcome, SexpOutcome, Machine!Sexp, Sexp
<1>7. \A a, i, h : Machine!ElemOutcome(a, i, h) = ElemOutcome(a, i, h)
  BY <1>1, SameForms DEF Machine!ElemOutcome, ElemOutcome
<1>8. \A a, h : Machine!LengthOutcome(a, h) = LengthOutcome(a, h)
  BY SameForms, SameWords DEF Machine!LengthOutcome, LengthOutcome, Machine!Aggregates, Aggregates
<1>9. \A s, n, v, h : Machine!TagOutcome(s, n, v, h) = TagOutcome(s, n, v, h)
  BY <1>2, SameForms, SameWords DEF Machine!TagOutcome, TagOutcome
<1>10. \A n, v, h : Machine!ArrayOutcome(n, v, h) = ArrayOutcome(n, v, h)
  BY SameForms, SameWords DEF Machine!ArrayOutcome, ArrayOutcome
<1>11. \A v, w, h : Machine!PattEqOutcome(v, w, h) = PattEqOutcome(v, w, h)
  <2>1. \A cs : Machine!UpToNul(cs) = UpToNul(cs)
    BY SameWords DEF Machine!UpToNul, UpToNul
  <2> QED
    BY <2>1, SameForms, SameWords DEF Machine!PattEqOutcome, PattEqOutcome
<1>12. \A op, v, h : Machine!PatternOutcome(op, v, h) = PatternOutcome(op, v, h)
  BY SameForms, SameWords DEF Machine!PatternOutcome, PatternOutcome
<1>13. \A v, h : Machine!WriteOutcome(v, h) = WriteOutcome(v, h)
  BY SameForms, SameWords DEF Machine!WriteOutcome, WriteOutcome
<1> QED
  BY <1>1, <1>3, <1>4, <1>5, <1>6, <1>7, <1>8, <1>9, <1>10, <1>11, <1>12, <1>13

-----------------------------------------------------------------------------
(***************************************************************************)
(* The inductive invariant.  An activation that waits for a result has a   *)
(* operand slot to put it in: the instruction it returns to is never reached*)
(* with an empty operand stack.                                            *)
(***************************************************************************)

Resumable == \A k \in 2 .. Depth : P.depth[frames[k].prev_ip] >= 1

RefInv == /\ ClosureInv
          /\ (prog \in Sound /\ status = "running") => Resumable

LEMMA EnterKeepsResumable ==
  ASSUME ClosureInv, Resumable, prog \in Sound, status = "running", UNCHANGED prog,
         I.op \in {"CALL", "CALLC"}, frames' = Append(frames, SavedFrame)
  PROVE  Resumable'
<1>1. TypeOK /\ frames \in Seq(Frame)
  BY DEF ClosureInv, StackInv, TypeOK
<1>2. /\ Depth' = Depth + 1 /\ Depth \in Nat
      /\ \A k \in 1 .. Depth : frames'[k] = frames[k]
      /\ frames'[Depth + 1] = SavedFrame
  BY <1>1 DEF Depth
<1>3. P' = P
  BY DEF P
<1>4. P.depth[ip + 1] >= 1
  <2>1. /\ ip \in Reachable(P) /\ Popped(I) \in Nat
        /\ WellPlaced(P, ip) /\ P.depth[ip] \in Nat
    BY <1>1, RunningFacts, ReachableInstruction DEF ClosureInv
  <2>2. Pushed(I) = 1 /\ I.op \in Sequential
    BY PushedTable, SequentialTable
  <2>3. ip + 1 \in Successors(P, ip)
    BY <2>2, SequentialSuccessor DEF I
  <2>4. /\ P.depth[ip + 1] = P.depth[ip] + Pushed(I) - Popped(I)
        /\ P.depth[ip] >= Popped(I)
    BY <2>1, <2>3 DEF WellPlaced, Follows, I
  <2> QED
    BY <2>1, <2>2, <2>4
<1>5. SavedFrame.prev_ip = ip + 1
  BY DEF SavedFrame, Saved
<1>6. ASSUME NEW k \in 2 .. Depth + 1
      PROVE  P.depth[frames'[k].prev_ip] >= 1
  <2>1. CASE k = Depth + 1
    BY <1>2, <1>4, <1>5, <2>1
  <2>2. CASE k # Depth + 1
    <3>1. k \in 2 .. Depth /\ k \in 1 .. Depth
      BY <1>2, <2>2
    <3> QED
      BY <1>2, <3>1 DEF Resumable
  <2> QED
    BY <2>1, <2>2
<1> QED
  BY <1>2, <1>3, <1>6 DEF Resumable

LEMMA ReturnKeepsResumable ==
  ASSUME TypeOK, Resumable, UNCHANGED prog,
         frames' = SubSeq(frames, 1, Len(frames) - 1)
  PROVE  Resumable'
<1>1. frames \in Seq(Frame) /\ Len(frames) # 0 /\ Len(frames) \in Nat
  BY DEF TypeOK
<1>2. Depth' = Depth - 1 /\ \A k \in 1 .. Depth - 1 : frames'[k] = frames[k]
  BY <1>1, FrontOfSequence DEF Depth
<1>3. P' = P
  BY DEF P
<1> QED
  BY <1>1, <1>2, <1>3 DEF Resumable, Depth

LEMMA NextKeepsRef ==
  ASSUME RefInv, [Next]_vars
  PROVE  RefInv'
<1>1. ClosureInv /\ ClosureInv' /\ StackInv /\ TypeOK
  BY NextKeepsClosures DEF RefInv, ClosureInv, StackInv
<1>2. SUFFICES ASSUME prog' \in Sound', status' = "running"
               PROVE  Resumable'
  BY <1>1 DEF RefInv
<1>3. UNCHANGED prog
  BY DEF Next, Exited, vars
<1>4. prog \in Sound
  BY <1>2, <1>3 DEF Sound
<1>5. CASE UNCHANGED frames /\ status = "running"
  BY <1>3, <1>4, <1>5 DEF RefInv, Resumable, Depth, P
<1>6. CASE status = "running" /\ (Data \/ Variable \/ Write \/ MakeClosure)
  <2>1. StopsSafely \/ StepsOn
    BY <1>1, <1>4, <1>6, DataStep, VariableStep, WriteStep, MakeClosureStep
       DEF RefInv, ClosureInv
  <2> QED
    BY <1>5, <1>6, <2>1 DEF StopsSafely, StepsOn, Stop, registers
<1>7. CASE status = "running" /\ (FetchOutside \/ Unsupported \/ Fail \/ Jump \/ Branch \/ Begin)
  BY <1>5, <1>7 DEF FetchOutside, Unsupported, Fail, Jump, Branch, Begin, Stop, GoTo, registers
<1>8. CASE status = "running" /\ (Call \/ CallClosure)
  <2>1. I.op \in {"CALL", "CALLC"}
    BY <1>8 DEF Call, CallClosure, At
  <2>2. CASE frames' = Append(frames, SavedFrame)
    BY <1>1, <1>3, <1>4, <1>8, <2>1, <2>2, EnterKeepsResumable DEF RefInv
  <2> QED
    BY <1>5, <1>8, <2>2 DEF Call, CallClosure, EnterFunction, Stop, registers
<1>9. CASE status = "running" /\ Return
  <2>1. CASE frames' = SubSeq(frames, 1, Len(frames) - 1)
    BY <1>1, <1>3, <1>4, <1>9, <2>1, ReturnKeepsResumable DEF RefInv
  <2> QED
    BY <1>5, <1>9, <2>1 DEF Return, Stop, registers
<1>10. CASE UNCHANGED vars
  BY <1>2, <1>5, <1>10 DEF vars, registers
<1> QED
  BY <1>2, <1>6, <1>7, <1>8, <1>9, <1>10, StepsRun, ControlCases DEF Next, Exited

LEMMA RefHolds == Spec => []RefInv
<1>1. Init => RefInv
  <2> SUFFICES ASSUME Init PROVE RefInv
    OBVIOUS
  <2>1. Depth = 1
    BY DEF Init, Depth
  <2> QED
    BY <2>1, InitClosures DEF RefInv, Resumable
<1>2. RefInv /\ [Next]_vars => RefInv'
  BY NextKeepsRef
<1> QED
  BY <1>1, <1>2, PTL DEF Spec

(* Where activation k lies.                                                  *)
LEMMA Layout ==
  ASSUME RefInv, prog \in Sound, status = "running", NEW k \in 1 .. Depth
  PROVE  /\ P.globals \in Nat /\ FloorAt(k) \in Nat /\ ArgsAt(k) \in Nat
         /\ Base(k) \in Nat /\ LocalsAt(k) \in Nat /\ EndOf(k) \in Nat
         /\ P.globals <= FloorAt(k)
         /\ FloorAt(k) <= Base(k) - ArgsAt(k)
         /\ Runs(k) => FloorAt(k) < Base(k) - ArgsAt(k)
         /\ Base(k) + LocalsAt(k) <= EndOf(k)
         /\ EndOf(k) <= STACK_MAX_SIZE
         /\ k # Depth => EndOf(k) <= Floor
         /\ P.code[IpAt(k)].op \notin Begins => LocalsAt(k) = Locals(Header(IpAt(k)))
<1>1. StackInv /\ TypeOK /\ Ordered /\ Held /\ Known /\ Resumable
  BY DEF RefInv, ClosureInv, StackInv
<1>2. P.globals \in Nat /\ STACK_MAX_SIZE \in Nat
  BY <1>1, LoadedProgram, BoundsAssumption
<1>3. /\ Depth \in Nat /\ Depth # 0 /\ Depth = Len(frames)
      /\ \A j \in 1 .. Depth : /\ Base(j) \in Nat /\ FloorAt(j) \in Int
                               /\ FloorAt(j) <= Base(j)
                               /\ P.globals <= FloorAt(j)
      /\ Floor = FloorAt(Depth) /\ base = Base(Depth)
  BY <1>1, ActivationFacts DEF Ordered, Depth
<1>4. /\ ip \in Reachable(P) /\ sp = base + Height(ip) /\ Height(ip) \in Nat
      /\ sp \in Nat /\ args \in Nat /\ base \in Nat
  BY <1>1, RunningFacts
<1>5. sp <= STACK_MAX_SIZE
  BY <1>1 DEF TypeOK
<1>6. CASE k = Depth
  <2>1. /\ IpAt(k) = ip /\ EndOf(k) = sp /\ ArgsAt(k) = args
        /\ FloorAt(k) = Floor /\ Base(k) = base /\ Runs(k) = is_closure
    BY <1>3, <1>4, <1>6 DEF IpAt, EndOf, ArgsAt, Runs
  <2>2. /\ FloorAt(k) <= Base(k) - ArgsAt(k)
        /\ Runs(k) => FloorAt(k) < Base(k) - ArgsAt(k)
    BY <1>3, <1>4, <1>6, <2>1 DEF Floor
  <2>3. P.depth[ip] \in Nat /\ Locals(Header(ip)) \in Nat
    BY <1>1, <1>4, ReachableInstruction
  <2>4. CASE P.code[ip].op \in Begins
    <3>1. LocalsAt(k) = 0 /\ ~ (P.code[IpAt(k)].op \notin Begins)
      BY <2>1, <2>4 DEF LocalsAt
    <3>2. /\ Base(k) + LocalsAt(k) <= EndOf(k) /\ EndOf(k) <= STACK_MAX_SIZE
          /\ EndOf(k) \in Nat /\ LocalsAt(k) \in Nat /\ ArgsAt(k) \in Nat
      BY <1>2, <1>4, <1>5, <2>1, <3>1
    <3>3. FloorAt(k) \in Nat /\ Base(k) \in Nat /\ P.globals <= FloorAt(k)
      BY <1>2, <1>3
    <3> QED
      BY <1>2, <1>6, <2>2, <3>1, <3>2, <3>3
  <2>5. CASE P.code[ip].op \notin Begins
    <3>1. LocalsAt(k) = Locals(Header(ip))
      BY <1>1, <1>3, <1>6, <2>1, <2>5 DEF LocalsAt, Known, LocalsReg
    <3>2. Height(ip) = Locals(Header(ip)) + P.depth[ip]
      BY <2>5 DEF Height
    <3>3. /\ Base(k) + LocalsAt(k) <= EndOf(k) /\ EndOf(k) <= STACK_MAX_SIZE
          /\ EndOf(k) \in Nat /\ LocalsAt(k) \in Nat /\ ArgsAt(k) \in Nat
      BY <1>4, <1>5, <2>1, <2>3, <3>1, <3>2
    <3>4. FloorAt(k) \in Nat /\ Base(k) \in Nat /\ P.globals <= FloorAt(k)
      BY <1>2, <1>3
    <3> QED
      BY <1>2, <1>6, <2>1, <2>2, <3>1, <3>3, <3>4
  <2> QED
    BY <2>4, <2>5
<1>7. CASE k # Depth
  <2> DEFINE f == frames[k + 1]
             i == f.prev_ip
  <2>1. k + 1 \in 1 .. Depth /\ k + 1 \in 2 .. Depth /\ k + 1 - 1 = k
    BY <1>3, <1>7
  <2>2. /\ IpAt(k) = i /\ EndOf(k) = FloorAt(k + 1) /\ ArgsAt(k) = f.prev_args
        /\ Base(k) = f.prev_base /\ Runs(k) = f.is_closure
        /\ LocalsReg(k) = f.prev_locals
        /\ FloorAt(k) = f.prev_base - f.prev_args - (IF f.is_closure THEN 1 ELSE 0)
    BY <1>7 DEF IpAt, EndOf, ArgsAt, Base, Runs, LocalsReg, FloorAt
  <2>3. f.prev_args \in Nat /\ f.prev_base \in Nat
    BY <1>1, <2>1 DEF StackInv, Counts
  <2>4. ReturnPoint(i) /\ Base(k) + Height(i) = FloorAt(k + 1) + 1
    BY <1>1, <2>1 DEF StackInv, Balanced
  <2>5. P.depth[i] >= 1
    BY <1>1, <2>1 DEF Resumable
  <2> HIDE DEF i, f
  <2>6. P.depth[i] \in Nat /\ Locals(Header(i)) \in Nat /\ P.code[i].op \notin Begins
    BY <1>1, <2>4, ReachableInstruction DEF ReturnPoint
  <2>7. Height(i) = Locals(Header(i)) + P.depth[i]
    BY <2>6 DEF Height
  <2>8. LocalsAt(k) = Locals(Header(i))
    BY <1>1, <1>7, <2>2, <2>6 DEF LocalsAt, Known, LocalsReg
  <2>9. EndOf(k) <= Floor
    <3>1. CASE k + 1 = Depth
      BY <1>3, <2>2, <3>1
    <3>2. CASE k + 1 # Depth
      <4>1. k + 1 \in 1 .. Depth - 1
        BY <1>3, <2>1, <3>2
      <4>2. Base(k + 1) <= FloorAt(Depth)
        BY <1>1, <1>3, <4>1 DEF Ordered
      <4> QED
        BY <1>3, <2>1, <2>2, <4>2
    <3> QED
      BY <3>1, <3>2
  <2>10. Floor <= sp
    BY <1>3, <1>4
  <2>11. EndOf(k) \in Nat /\ Floor \in Int
    BY <1>2, <1>3, <2>1, <2>2
  <2>12. /\ FloorAt(k) <= Base(k) - ArgsAt(k)
         /\ Runs(k) => FloorAt(k) < Base(k) - ArgsAt(k)
    BY <2>2, <2>3
  <2>13. /\ Base(k) \in Nat /\ FloorAt(k) \in Nat /\ ArgsAt(k) \in Nat
         /\ P.globals <= FloorAt(k) /\ LocalsAt(k) \in Nat
    BY <1>2, <1>3, <2>2, <2>3, <2>6, <2>8
  <2>14. Base(k) + LocalsAt(k) <= EndOf(k)
    BY <2>2, <2>4, <2>5, <2>6, <2>7, <2>8, <2>11, <2>13
  <2>15. EndOf(k) <= STACK_MAX_SIZE
    BY <1>2, <1>4, <1>5, <2>9, <2>10, <2>11
  <2> QED
    BY <1>2, <2>2, <2>8, <2>9, <2>11, <2>12, <2>13, <2>14, <2>15
<1> QED
  BY <1>6, <1>7

-----------------------------------------------------------------------------
(***************************************************************************)
(* The abstract state of LamaMachine, read off the stack and the frames.   *)
(***************************************************************************)

Acts == IF status = "running" THEN Activations ELSE <<>>
Glob == IF status = "running" THEN Slice(0, P.globals) ELSE <<>>

(* An activation as a value: n arguments below b, l locals from b on and     *)
(* operands up to e.                                                        *)
Framed(i, st, n, b, l, e, self) ==
  [ip |-> i, args |-> Segment(st, b - n, b), locals |-> Segment(st, b, b + l),
   opnds |-> Segment(st, b + l, e), self |-> self]

LEMMA FramedFields ==
  ASSUME NEW i, NEW st, NEW n, NEW b, NEW l, NEW e, NEW self
  PROVE  LET a == Framed(i, st, n, b, l, e, self)
         IN  /\ a.ip = i /\ a.args = Segment(st, b - n, b)
             /\ a.locals = Segment(st, b, b + l) /\ a.opnds = Segment(st, b + l, e)
             /\ a.self = self
BY DEF Framed

LEMMA FramedKept ==
  ASSUME NEW st, NEW tt, NEW i, NEW self,
         NEW n \in Nat, NEW b \in Int, NEW l \in Nat, NEW e \in Int, b + l <= e,
         \A j \in Int : b - n <= j /\ j < e => st[j] = tt[j]
  PROVE  Framed(i, st, n, b, l, e, self) = Framed(i, tt, n, b, l, e, self)
<1>1. /\ \A j \in Int : b - n <= j /\ j < b => st[j] = tt[j]
      /\ \A j \in Int : b <= j /\ j < b + l => st[j] = tt[j]
      /\ \A j \in Int : b + l <= j /\ j < e => st[j] = tt[j]
  OBVIOUS
<1>2. b - n \in Int /\ b + l \in Int
  OBVIOUS
<1>3. /\ Segment(st, b - n, b) = Segment(tt, b - n, b)
      /\ Segment(st, b, b + l) = Segment(tt, b, b + l)
      /\ Segment(st, b + l, e) = Segment(tt, b + l, e)
  BY <1>1, <1>2, SegmentsEqual
<1> QED
  BY <1>3 DEF Framed

(* Evaluating a function of 1..n as a sequence changes nothing.              *)
LEMMA ListIs ==
  ASSUME NEW n \in Nat, NEW f, f = [k \in 1 .. n |-> f[k]]
  PROVE  <<>> \o f = f /\ Len(f) = n
<1> DEFINE S == {f[k] : k \in 1 .. n}
<1>1. \A k \in 1 .. n : f[k] \in S
  OBVIOUS
<1> HIDE DEF S
<1>2. f \in [1 .. n -> S]
  BY <1>1
<1>3. f \in Seq(S) /\ Len(f) = n
  BY <1>2, FunctionIsSequence
<1> QED
  BY <1>3, ConcatEmptySeq

LEMMA ActsAre ==
  ASSUME status = "running", Depth \in Nat
  PROVE  /\ Acts = [k \in 1 .. Depth |-> ActivationAt(k)]
         /\ Len(Acts) = Depth
<1> DEFINE f == [k \in 1 .. Depth |-> ActivationAt(k)]
<1>1. f = [k \in 1 .. Depth |-> f[k]]
  OBVIOUS
<1>2. Acts = <<>> \o f
  BY DEF Acts, Activations
<1> HIDE DEF f
<1>3. <<>> \o f = f /\ Len(f) = Depth
  BY <1>1, ListIs
<1>4. Acts = f /\ Len(Acts) = Depth
  BY <1>2, <1>3
<1> QED
  BY <1>4 DEF f

LEMMA ActsNext ==
  ASSUME status' = "running", NEW n \in Nat, Depth' = n
  PROVE  /\ Acts' = [k \in 1 .. n |-> ActivationAt(k)']
         /\ Len(Acts') = n
<1> DEFINE f == [k \in 1 .. n |-> ActivationAt(k)']
<1>1. f = [k \in 1 .. n |-> f[k]]
  OBVIOUS
<1>2. Acts' = <<>> \o f
  BY DEF Acts, Activations
<1> HIDE DEF f
<1>3. <<>> \o f = f /\ Len(f) = n
  BY <1>1, ListIs
<1>4. Acts' = f /\ Len(Acts') = n
  BY <1>2, <1>3
<1> QED
  BY <1>4 DEF f

LEMMA SliceIs ==
  ASSUME NEW lo \in Int, NEW hi \in Int, lo <= hi
  PROVE  Slice(lo, hi) = Segment(stack, lo, hi)
<1>1. Slice(lo, hi) = <<>> \o Segment(stack, lo, hi)
  BY DEF Slice, Segment
<1> QED
  BY <1>1, SegmentIsSequence

LEMMA ActivationIs ==
  ASSUME RefInv, prog \in Sound, status = "running", NEW k \in 1 .. Depth
  PROVE  ActivationAt(k) = Framed(IpAt(k), stack, ArgsAt(k), Base(k), LocalsAt(k), EndOf(k),
                                  IF Runs(k) THEN stack[FloorAt(k)] ELSE Zero)
<1> DEFINE b == Base(k)
           n == ArgsAt(k)
           l == LocalsAt(k)
           e == EndOf(k)
<1>1. b \in Nat /\ n \in Nat /\ l \in Nat /\ e \in Nat /\ b + l <= e
  BY Layout
<1> HIDE DEF b, n, l, e
<1>2. b - n \in Int /\ b \in Int /\ b + l \in Int /\ e \in Int
      /\ b - n <= b /\ b <= b + l
  BY <1>1
<1>3. /\ Slice(b - n, b) = Segment(stack, b - n, b)
      /\ Slice(b, b + l) = Segment(stack, b, b + l)
      /\ Slice(b + l, e) = Segment(stack, b + l, e)
  BY <1>1, <1>2, SliceIs
<1> QED
  BY <1>3 DEF ActivationAt, Framed, b, n, l, e

Becomes(k, i, n, b, l, e, r, f) ==
  /\ n \in Nat /\ b \in Nat /\ l \in Nat /\ e \in Nat /\ b + l <= e
  /\ IpAt(k)' = i /\ ArgsAt(k)' = n /\ Base(k)' = b /\ LocalsAt(k)' = l /\ EndOf(k)' = e
  /\ Runs(k)' = r /\ FloorAt(k)' = f

LEMMA ActivationNext ==
  ASSUME NEW k, NEW i, NEW n, NEW b, NEW l, NEW e, NEW r, NEW f,
         Becomes(k, i, n, b, l, e, r, f)
  PROVE  ActivationAt(k)' = Framed(i, stack', n, b, l, e, IF r THEN stack'[f] ELSE Zero)
<1>1. /\ n \in Nat /\ b \in Nat /\ l \in Nat /\ e \in Nat /\ b + l <= e
      /\ IpAt(k)' = i /\ ArgsAt(k)' = n /\ Base(k)' = b /\ LocalsAt(k)' = l /\ EndOf(k)' = e
      /\ Runs(k)' = r /\ FloorAt(k)' = f
  BY DEF Becomes
<1>2. b - n \in Int /\ b \in Int /\ b + l \in Int /\ e \in Int
      /\ b - n <= b /\ b <= b + l /\ b + l <= e
  BY <1>1
<1>3. /\ <<>> \o Segment(stack', b - n, b) = Segment(stack', b - n, b)
      /\ <<>> \o Segment(stack', b, b + l) = Segment(stack', b, b + l)
      /\ <<>> \o Segment(stack', b + l, e) = Segment(stack', b + l, e)
  BY <1>2, SegmentIsSequence
<1>4. /\ Slice(Base(k) - ArgsAt(k), Base(k))' = <<>> \o Segment(stack', b - n, b)
      /\ Slice(Base(k), Base(k) + LocalsAt(k))' = <<>> \o Segment(stack', b, b + l)
      /\ Slice(Base(k) + LocalsAt(k), EndOf(k))' = <<>> \o Segment(stack', b + l, e)
  BY <1>1 DEF Slice, Segment
<1> QED
  BY <1>1, <1>3, <1>4 DEF ActivationAt, Framed

(* The abstract machine's current activation is the running one.             *)
L    == LocalsAt(Depth)
Self == IF is_closure THEN stack[Floor] ELSE Zero
Now  == Framed(ip, stack, args, base, L, sp, Self)

LEMMA RunningLayout ==
  ASSUME RefInv, prog \in Sound, status = "running"
  PROVE  /\ StackInv /\ TypeOK /\ Ordered /\ Held /\ Known
         /\ P.globals \in Nat /\ Floor \in Nat /\ args \in Nat /\ base \in Nat
         /\ L \in Nat /\ sp \in Nat /\ sp <= STACK_MAX_SIZE /\ STACK_MAX_SIZE \in Nat
         /\ P.globals <= Floor /\ Floor <= base - args
         /\ is_closure => Floor < base - args /\ Floor = base - args - 1
         /\ ~ is_closure => Floor = base - args
         /\ base + L <= sp
         /\ Depth \in Nat /\ Depth # 0 /\ Depth \in 1 .. Depth
         /\ IpAt(Depth) = ip /\ ArgsAt(Depth) = args /\ Base(Depth) = base
         /\ EndOf(Depth) = sp /\ Runs(Depth) = is_closure /\ FloorAt(Depth) = Floor
         /\ ip \in Reachable(P) /\ ip \in Nat
         /\ I.op \notin Begins => L = Locals(Header(ip)) /\ L = locals
                                  /\ sp - Popped(I) >= base + L
         /\ I.op \in Begins => L = 0 /\ sp = base
<1>1. StackInv /\ TypeOK /\ Ordered /\ Held /\ Known
  BY DEF RefInv, ClosureInv, StackInv
<1>2. Depth \in Nat /\ Depth # 0 /\ Depth \in 1 .. Depth
  BY <1>1, ActivationFacts
<1>3. /\ IpAt(Depth) = ip /\ ArgsAt(Depth) = args /\ Base(Depth) = base
      /\ EndOf(Depth) = sp /\ Runs(Depth) = is_closure /\ FloorAt(Depth) = Floor
  BY DEF IpAt, ArgsAt, Base, EndOf, Runs, FloorAt
<1>4. /\ P.globals \in Nat /\ Floor \in Nat /\ args \in Nat /\ base \in Nat
      /\ L \in Nat /\ sp \in Nat /\ sp <= STACK_MAX_SIZE
      /\ P.globals <= Floor /\ Floor <= base - args
      /\ base + L <= sp
      /\ P.code[ip].op \notin Begins => L = Locals(Header(ip))
  BY <1>2, <1>3, Layout DEF L
<1>5. /\ ip \in Reachable(P) /\ sp = base + Height(ip)
      /\ Height(ip) \in Nat /\ Popped(I) \in Nat
  BY <1>1, RunningFacts
<1>6. ip \in Nat
  BY <1>1, <1>5, ReachableInstruction
<1>7. I.op \notin Begins => L = locals /\ sp - Popped(I) >= base + L
  <2> SUFFICES ASSUME I.op \notin Begins PROVE L = locals /\ sp - Popped(I) >= base + L
    OBVIOUS
  <2>1. L = locals
    BY <1>3 DEF L, LocalsAt, I
  <2>2. Height(ip) >= Popped(I) + Locals(Header(ip))
    BY <1>1, <1>5, HeightCoversOperands DEF I
  <2> QED
    BY <1>4, <1>5, <2>1, <2>2 DEF I
<1>8. I.op \in Begins => L = 0 /\ sp = base
  BY <1>3, <1>4, <1>5 DEF L, LocalsAt, I, Height
<1>9. /\ is_closure => Floor < base - args /\ Floor = base - args - 1
      /\ ~ is_closure => Floor = base - args
  BY <1>4 DEF Floor
<1> QED
  BY <1>1, <1>2, <1>3, <1>4, <1>5, <1>6, <1>7, <1>8, <1>9, BoundsAssumption DEF I

LEMMA CurrentIs ==
  ASSUME RefInv, prog \in Sound, status = "running"
  PROVE  /\ Machine!Current = Now /\ Machine!P = P /\ Machine!I = I
         /\ Acts[Depth] = Now /\ Len(Acts) = Depth
         /\ Glob = Segment(stack, 0, P.globals)
<1>1. /\ Depth \in 1 .. Depth /\ Depth \in Nat /\ IpAt(Depth) = ip /\ ArgsAt(Depth) = args
      /\ Base(Depth) = base /\ EndOf(Depth) = sp /\ Runs(Depth) = is_closure
      /\ FloorAt(Depth) = Floor /\ P.globals \in Nat
  BY RunningLayout
<1>2. Acts = [k \in 1 .. Depth |-> ActivationAt(k)] /\ Len(Acts) = Depth
  BY <1>1, ActsAre
<1>3. ActivationAt(Depth) = Now
  BY <1>1, ActivationIs DEF Now, L, Self
<1>4. Acts[Depth] = Now
  BY <1>1, <1>2, <1>3
<1>5. Machine!Current = Now
  BY <1>2, <1>4 DEF Machine!Current, Acts
<1>6. Machine!P = P
  BY DEF Machine!P, P
<1>7. Machine!I = I
  BY <1>5, <1>6, FramedFields DEF Machine!I, I, Now
<1>8. Glob = Segment(stack, 0, P.globals)
  <2>1. 0 \in Int /\ P.globals \in Int /\ 0 <= P.globals
    BY <1>1
  <2> QED
    BY <2>1, SliceIs DEF Glob
<1> QED
  BY <1>2, <1>4, <1>5, <1>6, <1>7, <1>8

-----------------------------------------------------------------------------
(***************************************************************************)
(* A step of the running activation leaves the others as they were.        *)
(***************************************************************************)

LEMMA OthersKept ==
  ASSUME RefInv, prog \in Sound, status = "running", CallersKept,
         NEW k \in 1 .. Depth, k # Depth,
         IpAt(k)' = IpAt(k), ArgsAt(k)' = ArgsAt(k), Base(k)' = Base(k),
         LocalsAt(k)' = LocalsAt(k), EndOf(k)' = EndOf(k), Runs(k)' = Runs(k),
         FloorAt(k)' = FloorAt(k)
  PROVE  ActivationAt(k)' = ActivationAt(k)
<1> DEFINE i == IpAt(k)
           b == Base(k)
           n == ArgsAt(k)
           l == LocalsAt(k)
           e == EndOf(k)
           f == FloorAt(k)
           r == Runs(k)
<1>1. /\ b \in Nat /\ n \in Nat /\ l \in Nat /\ e \in Nat /\ f \in Nat /\ b + l <= e
      /\ P.globals \in Nat /\ P.globals <= f /\ f <= b - n
      /\ r => f < b - n
      /\ e <= STACK_MAX_SIZE /\ e <= Floor
  BY Layout
<1>2. STACK_MAX_SIZE \in Nat /\ Floor \in Nat
  BY RunningLayout
<1>3. ActivationAt(k) = Framed(i, stack, n, b, l, e, IF r THEN stack[f] ELSE Zero)
  BY ActivationIs
<1> HIDE DEF i, b, n, l, e, f, r
<1>4. IpAt(k)' = i /\ ArgsAt(k)' = n /\ Base(k)' = b /\ LocalsAt(k)' = l
      /\ EndOf(k)' = e /\ Runs(k)' = r /\ FloorAt(k)' = f
  BY DEF i, b, n, l, e, f, r
<1>5. ActivationAt(k)' = Framed(i, stack', n, b, l, e, IF r THEN stack'[f] ELSE Zero)
  <2>1. Becomes(k, i, n, b, l, e, r, f)
    BY <1>1, <1>4 DEF Becomes
  <2> QED
    BY <2>1, ActivationNext
<1>6. \A j \in Int : f <= j /\ j < e => stack[j] = stack'[j]
  <2> SUFFICES ASSUME NEW j \in Int, f <= j, j < e PROVE stack[j] = stack'[j]
    OBVIOUS
  <2>1. j \in Slots /\ P.globals <= j /\ j < Floor
    BY <1>1, <1>2 DEF Slots
  <2> QED
    BY <2>1 DEF CallersKept
<1>7. \A j \in Int : b - n <= j /\ j < e => stack[j] = stack'[j]
  BY <1>1, <1>6
<1>8. Framed(i, stack', n, b, l, e, IF r THEN stack'[f] ELSE Zero)
        = Framed(i, stack, n, b, l, e, IF r THEN stack'[f] ELSE Zero)
  <2>1. \A j \in Int : b - n <= j /\ j < e => stack'[j] = stack[j]
    BY <1>7
  <2>2. b \in Int /\ e \in Int
    BY <1>1
  <2> QED
    BY <1>1, <2>1, <2>2, FramedKept
<1>9. (IF r THEN stack'[f] ELSE Zero) = (IF r THEN stack[f] ELSE Zero)
  <2>1. f < b => stack[f] = stack'[f]
    BY <1>1, <1>6
  <2>2. r => f < b
    BY <1>1
  <2> QED
    BY <2>1, <2>2
<1> QED
  BY <1>3, <1>5, <1>8, <1>9

(* The running activation goes on; the others are as they were.              *)
LEMMA Resumes ==
  ASSUME RefInv, prog \in Sound, status = "running", status' = "running",
         UNCHANGED <<prog, base, args, is_closure, frames>>, BelowArgsKept,
         NEW l \in Nat, NEW e \in Nat, base + l <= e,
         LocalsAt(Depth)' = l, sp' = e
  PROVE  Machine!Resume(Framed(ip', stack', args, base, l, e, Self))
<1> DEFINE a == Framed(ip', stack', args, base, l, e, Self)
<1>1. /\ Depth \in Nat /\ Depth \in 1 .. Depth /\ args \in Nat /\ base \in Nat
      /\ Floor \in Nat /\ P.globals <= Floor /\ Floor <= base - args /\ sp <= STACK_MAX_SIZE
      /\ is_closure => Floor < base - args
      /\ base + L <= sp /\ L \in Nat /\ sp \in Nat /\ STACK_MAX_SIZE \in Nat /\ P.globals \in Nat
  BY RunningLayout
<1>2. PICK D \in Nat : D = Depth
  BY <1>1
<1>3. Depth' = D /\ P' = P
  BY <1>2 DEF Depth, P
<1>4. CallersKept
  BY <1>1 DEF CallersKept, BelowArgsKept, Slots
<1>5. ASSUME NEW k \in 1 .. D, k # D
      PROVE  ActivationAt(k)' = ActivationAt(k)
  <2>1. IpAt(k)' = IpAt(k) /\ ArgsAt(k)' = ArgsAt(k) /\ Base(k)' = Base(k)
        /\ Runs(k)' = Runs(k) /\ FloorAt(k)' = FloorAt(k)
    BY <1>2, <1>3, <1>5 DEF IpAt, ArgsAt, Base, Runs, FloorAt
  <2>2. LocalsAt(k)' = LocalsAt(k)
    BY <1>2, <1>3, <1>5, <2>1 DEF LocalsAt
  <2>3. EndOf(k)' = EndOf(k)
    <3>1. FloorAt(k + 1)' = FloorAt(k + 1)
      BY <1>2, <1>3 DEF FloorAt, Floor
    <3> QED
      BY <1>2, <1>3, <1>5, <3>1 DEF EndOf
  <2>4. k \in 1 .. Depth /\ k # Depth
    BY <1>2, <1>5
  <2> QED
    BY <1>4, <2>1, <2>2, <2>3, <2>4, OthersKept
<1>6. ActivationAt(D)' = a
  <2>1. /\ IpAt(D)' = ip' /\ ArgsAt(D)' = args /\ Base(D)' = base /\ LocalsAt(D)' = l
        /\ EndOf(D)' = e /\ Runs(D)' = is_closure /\ FloorAt(D)' = Floor
    BY <1>2, <1>3 DEF IpAt, ArgsAt, Base, EndOf, Runs, FloorAt, Floor
  <2>2. ActivationAt(D)' = Framed(ip', stack', args, base, l, e,
                                  IF is_closure THEN stack'[Floor] ELSE Zero)
    <3> DEFINE r == is_closure
               i == ip'
    <3>1. Becomes(D, i, args, base, l, e, r, Floor)
      BY <1>1, <2>1 DEF Becomes
    <3> HIDE DEF r, i
    <3>2. ActivationAt(D)' = Framed(i, stack', args, base, l, e,
                                    IF r THEN stack'[Floor] ELSE Zero)
      BY <3>1, ActivationNext
    <3> QED
      BY <3>2 DEF r, i
  <2>3. (IF is_closure THEN stack'[Floor] ELSE Zero) = Self
    <3>1. CASE is_closure
      <4>1. Floor \in Slots /\ P.globals <= Floor /\ Floor < base - args
        BY <1>1, <3>1 DEF Slots
      <4>2. stack'[Floor] = stack[Floor]
        BY <4>1 DEF BelowArgsKept
      <4> QED
        BY <3>1, <4>2 DEF Self
    <3>2. CASE ~ is_closure
      BY <3>2 DEF Self
    <3> QED
      BY <3>1, <3>2
  <2> QED
    BY <2>2, <2>3
<1>7. Acts' = [k \in 1 .. D |-> ActivationAt(k)'] /\ Len(Acts') = D
  BY <1>3, ActsNext
<1>8. Acts = [k \in 1 .. D |-> ActivationAt(k)] /\ Len(Acts) = D
  BY <1>1, <1>2, ActsAre
<1> HIDE DEF a
<1>9. Acts' = [Acts EXCEPT ![Len(Acts)] = a]
  BY <1>5, <1>6, <1>7, <1>8
<1> QED
  BY <1>9 DEF Machine!Resume, Acts, a

LEMMA GlobalsKept ==
  ASSUME status = "running", status' = "running", UNCHANGED prog, P.globals \in Nat,
         P.globals <= STACK_MAX_SIZE, STACK_MAX_SIZE \in Nat,
         \A j \in Slots : j < P.globals => stack'[j] = stack[j]
  PROVE  Glob' = Glob
<1>1. P' = P
  BY DEF P
<1>2. \A j \in Int : 0 <= j /\ j < P.globals => stack[j] = stack'[j]
  BY DEF Slots
<1>3. 0 \in Int /\ P.globals \in Int
  OBVIOUS
<1>4. Segment(stack, 0, P.globals) = Segment(stack', 0, P.globals)
  BY <1>2, <1>3, SegmentsEqual
<1>5. Glob = <<>> \o Segment(stack, 0, P.globals)
  BY DEF Glob, Slice, Segment
<1>6. Glob' = <<>> \o Segment(stack', 0, P.globals)
  BY <1>1 DEF Glob, Slice, Segment
<1> QED
  BY <1>4, <1>5, <1>6

LEMMA StopIsStop ==
  ASSUME NEW s, s # "running", status' = s, UNCHANGED <<heap, out>>
  PROVE  Machine!Stop(s)
BY DEF Machine!Stop

LEMMA ExhaustIs ==
  ASSUME status = "running", Stop("exhausted"), UNCHANGED <<prog, out>>
  PROVE  Machine!Next
BY StopIsStop DEF Stop, memory, Machine!Exhaust, Machine!Next

(* The top of the operands.                                                  *)
LEMMA OperandsAre ==
  ASSUME NEW i, NEW st, NEW n, NEW b \in Int, NEW l \in Int, NEW e \in Int, NEW self,
         NEW k \in Nat, b + l <= e - k
  PROVE  LET a == Framed(i, st, n, b, l, e, self)
         IN  /\ Machine!Over(a, k) = Segment(st, e - k, e)
             /\ Machine!Under(a, k) = Segment(st, b + l, e - k)
             /\ Len(a.opnds) = e - (b + l)
             /\ k # 0 => a.opnds[Len(a.opnds)] = st[e - 1]
<1> DEFINE a == Framed(i, st, n, b, l, e, self)
           lo == b + l
<1>1. a.opnds = Segment(st, lo, e)
  BY FramedFields
<1>2. lo \in Int /\ e - k \in Int /\ lo <= e - k /\ e - k <= e /\ lo <= e /\ lo <= lo
  OBVIOUS
<1> HIDE DEF a, lo
<1>3. /\ Len(Segment(st, lo, e)) = e - lo
      /\ \A j \in 1 .. e - lo : Segment(st, lo, e)[j] = st[lo + j - 1]
  BY <1>2, SegmentIsSequence
<1>4. /\ SubSeq(Segment(st, lo, e), e - k - lo + 1, e - lo) = Segment(st, e - k, e)
      /\ SubSeq(Segment(st, lo, e), lo - lo + 1, e - k - lo) = Segment(st, lo, e - k)
  <2>1. e <= e
    OBVIOUS
  <2> QED
    BY <1>2, <2>1, SegmentPart
<1>5. /\ e - lo - k + 1 = e - k - lo + 1 /\ lo - lo + 1 = 1 /\ e - lo - k = e - k - lo
  BY <1>2
<1>6. Machine!Over(a, k) = Segment(st, e - k, e)
  BY <1>1, <1>3, <1>4, <1>5 DEF Machine!Over
<1>7. Machine!Under(a, k) = Segment(st, lo, e - k)
  BY <1>1, <1>3, <1>4, <1>5 DEF Machine!Under
<1>8. k # 0 => a.opnds[Len(a.opnds)] = st[e - 1]
  <2> SUFFICES ASSUME k # 0 PROVE a.opnds[Len(a.opnds)] = st[e - 1]
    OBVIOUS
  <2>1. e - lo \in 1 .. e - lo /\ lo + (e - lo) - 1 = e - 1
    BY <1>2
  <2> QED
    BY <1>1, <1>3, <2>1
<1> QED
  BY <1>1, <1>3, <1>6, <1>7, <1>8 DEF a, lo

(* The operands an instruction pops, seen from the abstract machine.          *)
LEMMA PoppedOperands ==
  ASSUME RefInv, prog \in Sound, status = "running", I.op \notin Begins,
         NEW k \in Nat, k <= Popped(I)
  PROVE  /\ Machine!Over(Now, k) = Segment(stack, sp - k, sp)
         /\ Machine!Over(Now, k) = Operands(k)
         /\ Machine!Under(Now, k) = Segment(stack, base + L, sp - k)
         /\ \A j \in 1 .. k : Machine!Over(Now, k)[j] = Top(k - j + 1)
         /\ k # 0 => Machine!Operand = Top(1)
         /\ sp - k \in Nat /\ base + L <= sp - k
<1>1. /\ sp - Popped(I) >= base + L /\ base \in Nat /\ L \in Nat /\ sp \in Nat
      /\ Popped(I) \in Nat
  <2>1. StackInv
    BY RunningLayout
  <2> QED
    BY <2>1, RunningLayout, RunningFacts
<1>2. base \in Int /\ L \in Int /\ sp \in Int /\ base + L <= sp - k /\ sp - k \in Nat
  BY <1>1
<1>3. /\ Machine!Over(Now, k) = Segment(stack, sp - k, sp)
      /\ Machine!Under(Now, k) = Segment(stack, base + L, sp - k)
      /\ k # 0 => Now.opnds[Len(Now.opnds)] = stack[sp - 1]
  BY <1>2, OperandsAre DEF Now
<1>4. k # 0 => Machine!Operand = Top(1)
  BY <1>3, CurrentIs DEF Machine!Operand, Top
<1>5. sp - (sp - k) = k
  BY <1>2
<1>6. Segment(stack, sp - k, sp) = Operands(k)
  BY <1>5 DEF Segment, Operands
<1>7. \A j \in 1 .. k : Machine!Over(Now, k)[j] = Top(k - j + 1)
  <2> TAKE j \in 1 .. k
  <2>1. sp - k + j - 1 = sp - (k - j + 1)
    BY <1>2
  <2> QED
    BY <1>3, <1>6, <2>1 DEF Operands, Top
<1> QED
  BY <1>2, <1>3, <1>4, <1>6, <1>7

-----------------------------------------------------------------------------
(***************************************************************************)
(* Instructions that pop operands, compute an outcome and push it.         *)
(***************************************************************************)

LEMMA NextLocals ==
  ASSUME RefInv, prog \in Sound, status = "running", UNCHANGED <<prog, frames, locals>>,
         I.op \notin Begins, NEW s \in Successors(P, ip), ip' = s
  PROVE  LocalsAt(Depth)' = L
<1>1. TypeOK /\ ip \in Reachable(P) /\ L = locals
  BY RunningLayout
<1>2. ReturnPoint(s)
  BY <1>1, SuccessorHeight
<1>3. P.code[s].op \notin Begins
  BY <1>2 DEF ReturnPoint
<1>4. P' = P /\ Depth' = Depth
  BY DEF P, Depth
<1>5. IpAt(Depth)' = s
  BY DEF IpAt
<1> QED
  BY <1>1, <1>3, <1>4, <1>5 DEF LocalsAt

(* The values an instruction pushes.                                         *)
Listed(o) == o.ok => \E v, w : o.push \in {<<>>, <<v>>, <<v, w>>}

LEMMA ListedIsSequence ==
  ASSUME NEW o, o.ok, Listed(o)
  PROVE  o.push \in Seq({o.push[j] : j \in 1 .. Len(o.push)})
<1>1. PICK v, w : o.push \in {<<>>, <<v>>, <<v, w>>}
  BY DEF Listed
<1>2. o.push \in Seq({v, w})
  <2>1. <<>> \in Seq({v, w}) /\ <<v>> \in Seq({v, w}) /\ <<v, w>> \in Seq({v, w})
    OBVIOUS
  <2> QED
    BY <1>1, <2>1
<1> DEFINE s == o.push
           S == {s[j] : j \in 1 .. Len(s)}
<1>3. \A j \in 1 .. Len(s) : s[j] \in S
  OBVIOUS
<1> HIDE DEF S
<1>4. s \in [1 .. Len(s) -> S] /\ Len(s) \in Nat
  BY <1>2, <1>3
<1>5. s \in Seq(S)
  BY <1>4, FunctionIsSequence
<1> QED
  BY <1>5 DEF S

(* What Operate comes to: the instruction is refused, the stack is full, or   *)
(* the outcome's values replace the operands of the running activation.      *)
Advances(o) ==
  /\ status' = "running"
  /\ Machine!Resume([Now EXCEPT !.opnds = Machine!Under(Now, Popped(I)) \o o.push,
                                !.ip = @ + 1])
  /\ heap' = o.heap
  /\ Glob' = Glob

Alike(st, tt, lo, hi) == \A j \in Int : lo <= j /\ j < hi => tt[j] = st[j]
LaidAt(tt, low, new)  == \A j \in 1 .. Len(new) : tt[low + j - 1] = new[j]

LEMMA Replaced ==
  ASSUME NEW st, NEW tt, NEW lo \in Int, NEW low \in Int, lo <= low,
         NEW S, NEW new \in Seq(S), Alike(st, tt, lo, low), LaidAt(tt, low, new)
  PROVE  Segment(tt, lo, low + Len(new)) = Segment(st, lo, low) \o new
<1>1. Len(new) \in Nat
  OBVIOUS
<1> DEFINE hi == low + Len(new)
<1>2. hi \in Int /\ low <= hi /\ hi - low = Len(new)
  BY <1>1
<1> HIDE DEF hi
<1>3. Segment(tt, lo, hi) = Segment(tt, lo, low) \o Segment(tt, low, hi)
  BY <1>2, SegmentJoin
<1>4. Segment(tt, lo, low) = Segment(st, lo, low)
  BY SegmentsEqual DEF Alike
<1>5. Segment(tt, low, hi) = new
  <2>0. /\ Segment(tt, low, hi) \in Seq(Cells(tt, low, hi))
        /\ Len(Segment(tt, low, hi)) = hi - low
        /\ \A j \in 1 .. hi - low : Segment(tt, low, hi)[j] = tt[low + j - 1]
    BY <1>2, SegmentIsSequence
  <2>1. /\ Segment(tt, low, hi) \in Seq(Cells(tt, low, hi))
        /\ Len(Segment(tt, low, hi)) = Len(new)
        /\ \A j \in 1 .. Len(new) : Segment(tt, low, hi)[j] = tt[low + j - 1]
    BY <1>2, <2>0
  <2>2. \A j \in 1 .. Len(Segment(tt, low, hi)) : Segment(tt, low, hi)[j] = new[j]
    BY <2>1 DEF LaidAt
  <2> QED
    BY <2>1, <2>2, SameElements
<1> QED
  BY <1>3, <1>4, <1>5 DEF hi

Advanced(r, u) == [r EXCEPT !.opnds = u, !.ip = @ + 1]

LEMMA MovedRecord ==
  ASSUME NEW i, NEW x, NEW y, NEW z, NEW s, NEW u, NEW r,
         r = [ip |-> i, args |-> x, locals |-> y, opnds |-> z, self |-> s]
  PROVE  Advanced(r, u)
           = [ip |-> i + 1, args |-> x, locals |-> y, opnds |-> u, self |-> s]
<1>1. r.ip = i
  OBVIOUS
<1>2. [r EXCEPT !["opnds"] = u, !["ip"] = i + 1]
        = [ip |-> i + 1, args |-> x, locals |-> y, opnds |-> u, self |-> s]
  OBVIOUS
<1>3. [r EXCEPT !.opnds = u, !.ip = @ + 1] = [r EXCEPT !["opnds"] = u, !["ip"] = i + 1]
  BY <1>1
<1> QED
  BY <1>2, <1>3 DEF Advanced

LEMMA FramedMoved ==
  ASSUME NEW i, NEW st, NEW n, NEW b, NEW l, NEW e, NEW self, NEW r,
         r = Framed(i, st, n, b, l, e, self),
         NEW tt, NEW f, NEW u, u = Segment(tt, b + l, f),
         Segment(tt, b - n, b) = Segment(st, b - n, b),
         Segment(tt, b, b + l) = Segment(st, b, b + l)
  PROVE  Advanced(r, u) = Framed(i + 1, tt, n, b, l, f, self)
<1> DEFINE x == Segment(st, b - n, b)
           y == Segment(st, b, b + l)
           z == Segment(st, b + l, e)
<1>1. r = [ip |-> i, args |-> x, locals |-> y, opnds |-> z, self |-> self]
  BY DEF Framed
<1>2. Framed(i + 1, tt, n, b, l, f, self) = [ip |-> i + 1, args |-> x, locals |-> y,
                                             opnds |-> u, self |-> self]
  BY DEF Framed
<1> HIDE DEF x, y, z
<1> QED
  BY <1>1, <1>2, MovedRecord

LEMMA Overwritten ==
  ASSUME NEW st, NEW tt, NEW new, NEW D, NEW low \in Int, NEW n \in Nat,
         tt = [j \in D |-> IF j \in low .. low + n - 1 THEN new[j - low + 1] ELSE st[j]],
         NEW j \in 1 .. n, low + j - 1 \in D
  PROVE  tt[low + j - 1] = new[j]
<1> DEFINE x == low + j - 1
<1>1. x \in D /\ x \in low .. low + n - 1 /\ x - low + 1 = j
  OBVIOUS
<1> HIDE DEF x
<1>2. tt[x] = IF x \in low .. low + n - 1 THEN new[x - low + 1] ELSE st[x]
  BY <1>1
<1>3. tt[x] = new[x - low + 1]
  BY <1>1, <1>2
<1>4. tt[x] = new[j]
  BY <1>1, <1>3
<1> QED
  BY <1>4 DEF x

LEMMA OperateCases ==
  ASSUME RefInv, prog \in Sound, VERIFIED => prog \in Bounded, status = "running",
         UNCHANGED prog, I.op \in Sequential,
         NEW o, Listed(o), o.ok => Len(o.push) = Pushed(I), Operate(Popped(I), o)
  PROVE  \/ Stop("exhausted")
         \/ ~ o.ok /\ Stop("failed")
         \/ o.ok /\ Advances(o)
<1> DEFINE k == Popped(I)
           low == sp - k
           new == o.push
<1>1. /\ StackInv /\ TypeOK /\ L \in Nat /\ base \in Nat /\ args \in Nat /\ sp \in Nat
      /\ Floor <= base - args /\ P.globals \in Nat /\ P.globals <= Floor /\ Floor \in Nat
      /\ STACK_MAX_SIZE \in Nat /\ sp <= STACK_MAX_SIZE /\ ip \in Reachable(P)
  BY RunningLayout
<1>2. I.op \notin Begins /\ ip + 1 \in Successors(P, ip)
  BY SequentialSuccessor DEF Sequential, I
<1>3. k \in Nat /\ Pushed(I) \in Nat
  BY <1>1, RunningFacts
<1>4. low \in Nat /\ low >= base + L
  BY <1>1, <1>2, <1>3, RunningLayout
<1>5. ~ (sp < k)
  BY <1>1, <1>3, <1>4
<1>6. CASE ~ o.ok
  <2>1. Stop("failed")
    BY <1>5, <1>6 DEF Operate
  <2> QED
    BY <1>6, <2>1
<1>7. CASE o.ok /\ ~ Fits(low + Len(new))
  <2>1. Stop(PushFault)
    BY <1>5, <1>7 DEF Operate
  <2>2. ~ VERIFIED
    <3> SUFFICES ASSUME VERIFIED PROVE FALSE
      OBVIOUS
    <3>1. sp + Pushed(I) - Popped(I) <= STACK_MAX_SIZE
      BY <1>1, <1>2, NextHeightFits
    <3>2. low + Len(new) = sp + Pushed(I) - Popped(I)
      BY <1>1, <1>3, <1>7
    <3> QED
      BY <1>7, <3>1, <3>2 DEF Fits
  <2> QED
    BY <2>1, <2>2 DEF PushFault
<1>8. CASE o.ok /\ Fits(low + Len(new))
  <2>1. /\ stack' = [j \in Slots |-> IF j \in low .. low + Len(new) - 1
                                       THEN new[j - low + 1] ELSE stack[j]]
        /\ sp' = low + Len(new)
        /\ heap' = o.heap
        /\ ip' = ip + 1
        /\ UNCHANGED <<base, args, locals, captured, is_closure, frames, status>>
    BY <1>5, <1>8 DEF Operate, registers
  <2> DEFINE S == {new[j] : j \in 1 .. Len(new)}
  <2>2. new \in Seq(S)
    BY <1>8, ListedIsSequence
  <2> HIDE DEF S
  <2>3. Len(new) \in Nat /\ low + Len(new) <= STACK_MAX_SIZE
    BY <1>8, <2>2 DEF Fits
  <2> HIDE DEF low, k, new
  <2>4. \A j \in Slots : j < low => stack'[j] = stack[j]
    BY <1>4, <2>1 DEF Slots
  <2>5. \A j \in 1 .. Len(new) : stack'[low + j - 1] = new[j]
    <3> TAKE j \in 1 .. Len(new)
    <3>1. low + j - 1 \in Slots /\ low \in Int /\ Len(new) \in Nat
      BY <1>1, <1>4, <2>3 DEF Slots
    <3>2. stack' = [x \in Slots |-> IF x \in low .. low + Len(new) - 1
                                       THEN new[x - low + 1] ELSE stack[x]]
      BY <2>1
    <3> QED
      BY <3>1, <3>2, Overwritten
  <2>6. BelowArgsKept
    BY <1>1, <1>4, <2>4 DEF BelowArgsKept, Slots
  <2>7. Glob' = Glob
    <3>1. \A j \in Slots : j < P.globals => stack'[j] = stack[j]
      BY <1>1, <1>4, <2>4 DEF Slots
    <3>2. P.globals <= STACK_MAX_SIZE /\ status' = "running"
      BY <1>1, <1>4, <2>1, <2>3
    <3> QED
      BY <1>1, <3>1, <3>2, GlobalsKept
  <2>8. LocalsAt(Depth)' = L
    BY <1>2, <2>1, NextLocals
  <2> DEFINE e == low + Len(new)
  <2>9. e \in Nat /\ base + L <= e /\ sp' = e
    BY <1>1, <1>4, <2>1, <2>3
  <2>10. \A j \in Int : base - args <= j /\ j < low => stack'[j] = stack[j]
    BY <1>1, <1>4, <2>3, <2>4 DEF Slots
  <2>11. /\ Segment(stack', base - args, base) = Segment(stack, base - args, base)
         /\ Segment(stack', base, base + L) = Segment(stack, base, base + L)
    <3>1. /\ \A j \in Int : base - args <= j /\ j < base => stack'[j] = stack[j]
          /\ \A j \in Int : base <= j /\ j < base + L => stack'[j] = stack[j]
      BY <1>1, <1>4, <2>10
    <3>2. base - args \in Int /\ base \in Int /\ base + L \in Int
      BY <1>1
    <3> QED
      BY <3>1, <3>2, SegmentsEqual
  <2>12. Segment(stack', base + L, e) = Segment(stack, base + L, low) \o new
    <3> DEFINE lo == base + L
    <3>1. Alike(stack, stack', lo, low) /\ LaidAt(stack', low, new)
      BY <1>1, <1>4, <2>5, <2>10 DEF Alike, LaidAt
    <3>2. lo \in Int /\ low \in Int /\ lo <= low
      BY <1>1, <1>4
    <3> HIDE DEF lo
    <3>3. Segment(stack', lo, low + Len(new)) = Segment(stack, lo, low) \o new
      BY <2>2, <3>1, <3>2, Replaced
    <3> QED
      BY <3>3 DEF lo
  <2>13. Machine!Under(Now, k) = Segment(stack, base + L, low)
    BY <1>2, <1>3, PoppedOperands DEF k, low
  <2>14. Framed(ip', stack', args, base, L, e, Self) =
           [Now EXCEPT !.opnds = Machine!Under(Now, k) \o new, !.ip = @ + 1]
    <3> DEFINE u == Machine!Under(Now, k) \o new
    <3>1. u = Segment(stack', base + L, e)
      BY <2>12, <2>13
    <3> HIDE DEF u, e
    <3>2. PICK r : r = Now
      OBVIOUS
    <3>3. r = Framed(ip, stack, args, base, L, sp, Self)
      BY <3>2 DEF Now
    <3>4. Advanced(r, u) = Framed(ip + 1, stack', args, base, L, e, Self)
      BY <2>11, <3>1, <3>3, FramedMoved
    <3>5. Framed(ip', stack', args, base, L, e, Self) = [Now EXCEPT !.opnds = u, !.ip = @ + 1]
      BY <2>1, <3>2, <3>4 DEF Advanced
    <3> QED
      BY <3>5 DEF u
  <2>15. Machine!Resume(Framed(ip', stack', args, base, L, e, Self))
    <3> HIDE DEF e
    <3>1. status' = "running" /\ UNCHANGED <<prog, base, args, is_closure, frames>>
      BY <2>1
    <3> QED
      BY <1>1, <2>6, <2>8, <2>9, <3>1, Resumes
  <2>16. Machine!Resume([Now EXCEPT !.opnds = Machine!Under(Now, k) \o new, !.ip = @ + 1])
    BY <2>14, <2>15
  <2> QED
    BY <1>8, <2>1, <2>7, <2>16 DEF Advances, k, new
<1> QED
  BY <1>6, <1>7, <1>8

LEMMA SamePopped == \A c : Machine!Popped(c) = Popped(c)
<1>1. /\ Machine!Loads = Loads /\ Machine!AddressOf = AddressOf /\ Machine!Begins = Begins
      /\ Machine!Binary = Binary /\ Machine!Returns = Returns /\ Machine!Stores = Stores
      /\ Machine!Branches = Branches /\ Machine!Patterns = Patterns
  BY DEF Machine!Loads, Loads, Machine!AddressOf, AddressOf, Machine!Begins, Begins,
         Machine!Binary, Binary, Machine!Arithmetic, Arithmetic, Machine!Relational, Relational,
         Machine!Returns, Returns, Machine!Stores, Stores, Machine!Branches, Branches,
         Machine!Patterns, Patterns
<1> QED
  BY <1>1 DEF Machine!Popped, Popped

(* What the abstract machine lets an instruction compute.                    *)
Tabled(c, s) ==
  /\ c.op \in Binary =>
       Machine!Outcomes(c, s) = {BinaryOutcome(c.op, s[1], s[2], heap)}
  /\ c.op = "CONST" => Machine!Outcomes(c, s) = {Pushes(<<BOX(c.a)>>, heap)}
  /\ c.op = "STRING" =>
       Machine!Outcomes(c, s) = {Allocates(StringOf(P.strings[c.a]), heap)}
  /\ c.op = "SEXP" => Machine!Outcomes(c, s) = {SexpOutcome(P.strings[c.a], s, heap)}
  /\ c.op = "CALL_Barray" => Machine!Outcomes(c, s) = {Allocates(Array(s), heap)}
  /\ c.op = "STA" => Machine!Outcomes(c, s) = {Machine!Assign(s[1], s[2], s[3])}
  /\ c.op = "ELEM" => Machine!Outcomes(c, s) = {ElemOutcome(s[1], s[2], heap)}
  /\ c.op \in {"DROP", "LINE"} => Machine!Outcomes(c, s) = {Pushes(<<>>, heap)}
  /\ c.op = "DUP" => Machine!Outcomes(c, s) = {Pushes(<<s[1], s[1]>>, heap)}
  /\ c.op = "SWAP" => Machine!Outcomes(c, s) = {Pushes(<<s[2], s[1]>>, heap)}
  /\ c.op = "TAG" =>
       Machine!Outcomes(c, s) = {TagOutcome(P.strings[c.a], c.b, s[1], heap)}
  /\ c.op = "ARRAY" => Machine!Outcomes(c, s) = {ArrayOutcome(c.a, s[1], heap)}
  /\ c.op = "PATT_eq" => Machine!Outcomes(c, s) = {PattEqOutcome(s[1], s[2], heap)}
  /\ c.op \in Patterns => Machine!Outcomes(c, s) = {PatternOutcome(c.op, s[1], heap)}
  /\ c.op = "CALL_Llength" => Machine!Outcomes(c, s) = {LengthOutcome(s[1], heap)}
  /\ c.op = "CALL_Lread" =>
       \A n \in Inputs : Pushes(<<BOX(n)>>, heap) \in Machine!Outcomes(c, s)
  /\ c.op = "CALL_Lstring" =>
       \A cs \in Printed : Allocates(StringOf(cs), heap) \in Machine!Outcomes(c, s)
  /\ c.op = "CALL_Lwrite" => Machine!Outcomes(c, s) = {WriteOutcome(s[1], heap)}

LEMMA OutcomeTable ==
  ASSUME NEW c, NEW s
  PROVE  Tabled(c, s)
<1>1. Machine!Binary = Binary /\ Machine!Patterns = Patterns /\ Machine!P = P
  BY DEF Machine!Binary, Binary, Machine!Arithmetic, Arithmetic, Machine!Relational, Relational,
         Machine!Patterns, Patterns, Machine!P, P
<1> USE DEF Binary, Arithmetic, Relational, Patterns
<1>2. /\ c.op \in Binary =>
              Machine!Outcomes(c, s) = {BinaryOutcome(c.op, s[1], s[2], heap)}
      /\ c.op \in Patterns => Machine!Outcomes(c, s) = {PatternOutcome(c.op, s[1], heap)}
  BY <1>1, SameBinary, SameOutcomes DEF Machine!Outcomes
<1>3. /\ c.op = "CONST" => Machine!Outcomes(c, s) = {Pushes(<<BOX(c.a)>>, heap)}
      /\ c.op = "STRING" =>
              Machine!Outcomes(c, s) = {Allocates(StringOf(P.strings[c.a]), heap)}
      /\ c.op = "SEXP" => Machine!Outcomes(c, s) = {SexpOutcome(P.strings[c.a], s, heap)}
      /\ c.op = "CALL_Barray" => Machine!Outcomes(c, s) = {Allocates(Array(s), heap)}
  BY <1>1, SameForms, SameWords, SameOutcomes DEF Machine!Outcomes
<1>4. /\ c.op = "STA" => Machine!Outcomes(c, s) = {Machine!Assign(s[1], s[2], s[3])}
      /\ c.op = "ELEM" => Machine!Outcomes(c, s) = {ElemOutcome(s[1], s[2], heap)}
      /\ c.op \in {"DROP", "LINE"} => Machine!Outcomes(c, s) = {Pushes(<<>>, heap)}
      /\ c.op = "DUP" => Machine!Outcomes(c, s) = {Pushes(<<s[1], s[1]>>, heap)}
      /\ c.op = "SWAP" => Machine!Outcomes(c, s) = {Pushes(<<s[2], s[1]>>, heap)}
  BY <1>1, SameForms, SameOutcomes DEF Machine!Outcomes
<1>5. /\ c.op = "TAG" =>
              Machine!Outcomes(c, s) = {TagOutcome(P.strings[c.a], c.b, s[1], heap)}
      /\ c.op = "ARRAY" => Machine!Outcomes(c, s) = {ArrayOutcome(c.a, s[1], heap)}
      /\ c.op = "PATT_eq" => Machine!Outcomes(c, s) = {PattEqOutcome(s[1], s[2], heap)}
      /\ c.op = "CALL_Llength" => Machine!Outcomes(c, s) = {LengthOutcome(s[1], heap)}
      /\ c.op = "CALL_Lwrite" => Machine!Outcomes(c, s) = {WriteOutcome(s[1], heap)}
  BY <1>1, SameOutcomes DEF Machine!Outcomes
<1>6. /\ c.op = "CALL_Lread" =>
              \A n \in Inputs : Pushes(<<BOX(n)>>, heap) \in Machine!Outcomes(c, s)
      /\ c.op = "CALL_Lstring" =>
              \A cs \in Printed : Allocates(StringOf(cs), heap) \in Machine!Outcomes(c, s)
  BY <1>1, SameForms, SameWords, SameOutcomes DEF Machine!Outcomes
<1> QED
  BY <1>2, <1>3, <1>4, <1>5, <1>6 DEF Tabled

LEMMA SameAssignment ==
  ASSUME NEW agg, NEW idx, NEW v, ~ IsA(heap, agg, {"SEXP"})
  PROVE  Machine!Assign(agg, idx, v) = StaOutcome(agg, idx, v, heap)
<1>1. Machine!InRange(heap, agg, idx) = InRange(heap, agg, idx)
  BY SameOutcomes
<1>2. CASE InRange(heap, agg, idx)
  <2>1. StoreElement(heap, agg, idx, v) = Assigned(heap, agg.val, idx.val + 1, v)
    BY <1>2 DEF StoreElement, InRange, IsA
  <2> QED
    BY <1>1, <2>1, SameForms DEF Machine!Assign, StaOutcome, Machine!Assigned, Assigned,
       Machine!IsStorableChar, IsStorableChar, Machine!UNBOXED, UNBOXED
<1>3. CASE ~ InRange(heap, agg, idx)
  BY <1>1, <1>3, SameForms DEF Machine!Assign, StaOutcome, AssertThen
<1> QED
  BY <1>2, <1>3

LEMMA ListedOutcomes ==
  /\ \A h : Listed(Pushes(<<>>, h)) /\ Listed(Refused(h))
  /\ \A v, h : Listed(Pushes(<<v>>, h))
  /\ \A v, w, h : Listed(Pushes(<<v, w>>, h))
  /\ \A x, h : Listed(Allocates(x, h))
  /\ \A op, x, y, h : Listed(BinaryOutcome(op, x, y, h))
  /\ \A n, es, h : Listed(SexpOutcome(n, es, h))
  /\ \A x, y, v, h : Listed(StaOutcome(x, y, v, h))
  /\ \A x, y, h : Listed(ElemOutcome(x, y, h)) /\ Listed(ArrayOutcome(x, y, h))
                   /\ Listed(PattEqOutcome(x, y, h)) /\ Listed(PatternOutcome(x, y, h))
  /\ \A x, y, v, h : Listed(TagOutcome(x, y, v, h))
  /\ \A x, h : Listed(LengthOutcome(x, h)) /\ Listed(WriteOutcome(x, h))
<1>1. /\ \A h : Listed(Pushes(<<>>, h))
      /\ \A v, h : Listed(Pushes(<<v>>, h))
      /\ \A v, w, h : Listed(Pushes(<<v, w>>, h))
  BY DEF Listed, Pushes
<1>2. \A h : Listed(Refused(h))
  BY DEF Listed, Refused
<1>3. \A x, h : Listed(Allocates(x, h))
  BY <1>1 DEF Allocates
<1>4. \A c, o, h : Listed(o) => Listed(AssertThen(c, o, h))
  BY <1>2 DEF AssertThen
<1>5. \A op, x, y, h : Listed(BinaryOutcome(op, x, y, h))
  BY <1>1, <1>4 DEF BinaryOutcome
<1>6. /\ \A n, es, h : Listed(SexpOutcome(n, es, h))
      /\ \A x, y, v, h : Listed(StaOutcome(x, y, v, h))
      /\ \A x, y, v, h : Listed(TagOutcome(x, y, v, h))
      /\ \A x, h : Listed(LengthOutcome(x, h)) /\ Listed(WriteOutcome(x, h))
      /\ \A x, y, h : Listed(ElemOutcome(x, y, h))
  BY <1>1, <1>3, <1>4 DEF SexpOutcome, StaOutcome, TagOutcome, LengthOutcome, WriteOutcome,
                          ElemOutcome
<1>7. \A x, y, h : Listed(ArrayOutcome(x, y, h)) /\ Listed(PattEqOutcome(x, y, h))
                   /\ Listed(PatternOutcome(x, y, h))
  BY <1>1 DEF ArrayOutcome, PattEqOutcome, PatternOutcome
<1> QED
  BY <1>1, <1>2, <1>3, <1>5, <1>6, <1>7

(* The values popped, last pushed last.                                      *)
Args == Machine!Over(Now, Popped(I))

LEMMA PoppedArgs ==
  ASSUME RefInv, prog \in Sound, status = "running", I.op \notin Begins
  PROVE  /\ Args = Operands(Popped(I))
         /\ Popped(I) = 1 => Args[1] = Top(1)
         /\ Popped(I) = 2 => Args[1] = Top(2) /\ Args[2] = Top(1)
         /\ Popped(I) = 3 => Args[1] = Top(3) /\ Args[2] = Top(2) /\ Args[3] = Top(1)
<1> DEFINE k == Popped(I)
<1>1. k \in Nat /\ k <= k
  <2>1. StackInv
    BY RunningLayout
  <2> QED
    BY <2>1, RunningFacts
<1>2. /\ Machine!Over(Now, k) = Operands(k)
      /\ \A j \in 1 .. k : Machine!Over(Now, k)[j] = Top(k - j + 1)
  <2> HIDE DEF k
  <2>1. k \in Nat /\ k <= Popped(I)
    BY <1>1 DEF k
  <2> QED
    BY <2>1, PoppedOperands
<1>3. /\ k = 1 => Args[1] = Top(1)
      /\ k = 2 => Args[1] = Top(2) /\ Args[2] = Top(1)
      /\ k = 3 => Args[1] = Top(3) /\ Args[2] = Top(2) /\ Args[3] = Top(1)
  <2>1. \A j \in 1 .. k : Args[j] = Top(k - j + 1)
    BY <1>2 DEF Args
  <2> HIDE DEF k
  <2>2. CASE k = 1
    <3>1. 1 \in 1 .. k /\ k - 1 + 1 = 1
      BY <2>2
    <3>2. Args[1] = Top(k - 1 + 1)
      BY <2>1, <3>1
    <3> QED
      BY <2>2, <3>1, <3>2
  <2>3. CASE k = 2
    <3>1. 1 \in 1 .. k /\ 2 \in 1 .. k /\ k - 1 + 1 = 2 /\ k - 2 + 1 = 1
      BY <2>3
    <3>2. Args[1] = Top(k - 1 + 1) /\ Args[2] = Top(k - 2 + 1)
      BY <2>1, <3>1
    <3> QED
      BY <2>3, <3>1, <3>2
  <2>4. CASE k = 3
    <3>1. /\ 1 \in 1 .. k /\ 2 \in 1 .. k /\ 3 \in 1 .. k
          /\ k - 1 + 1 = 3 /\ k - 2 + 1 = 2 /\ k - 3 + 1 = 1
      BY <2>4
    <3>2. Args[1] = Top(k - 1 + 1) /\ Args[2] = Top(k - 2 + 1) /\ Args[3] = Top(k - 3 + 1)
      BY <2>1, <3>1
    <3> QED
      BY <2>4, <3>1, <3>2
  <2> QED
    BY <2>2, <2>3, <2>4
<1> QED
  BY <1>2, <1>3 DEF Args

(* The instruction computes what the abstract machine does.                  *)
Computes(o) == /\ Listed(o) /\ Suited(o)
               /\ o \in Machine!Outcomes(I, Args)
               /\ Operate(Popped(I), o)

LEMMA DataComputes ==
  ASSUME RefInv, Disciplined, prog \in Sound, status = "running", Data
  PROVE  \E o : Computes(o)
<1> USE DEF At
<1>0. StackInv /\ TypeOK /\ Enters(heap) /\ ip \in Reachable(P)
  <2>1. StackInv /\ TypeOK
    BY RunningLayout
  <2> QED
    BY <2>1, RunningFacts
<1>a. I.op \in Sequential => I.op \notin Begins
  BY DEF Sequential
<1>b. ASSUME I.op \in {"STRING", "SEXP", "TAG"}
      PROVE  I.a \in DOMAIN P.strings
  BY <1>0, <1>b, ReachableInstruction DEF WellPlaced, I
<1>c. Tabled(I, Args)
  BY OutcomeTable
<1>d. /\ I.op \in Sequential => Args = Operands(Popped(I))
      /\ I.op \in Sequential /\ Popped(I) = 1 => Args[1] = Top(1)
      /\ I.op \in Sequential /\ Popped(I) = 2 => Args[1] = Top(2) /\ Args[2] = Top(1)
      /\ I.op \in Sequential /\ Popped(I) = 3 =>
           Args[1] = Top(3) /\ Args[2] = Top(2) /\ Args[3] = Top(1)
  BY <1>a, PoppedArgs
<1>1. CASE BinaryOp
  <2>1. I.op \in Sequential /\ Popped(I) = 2 /\ Pushed(I) = 1
    BY <1>1, SequentialTable, PoppedTable, PushedTable DEF BinaryOp
  <2>2. Operate(2, BinaryOutcome(I.op, Top(2), Top(1), heap))
    BY <1>1 DEF BinaryOp
  <2>3. Suited(BinaryOutcome(I.op, Top(2), Top(1), heap))
    BY <1>0, <2>1, BinarySuited
  <2>4. Listed(BinaryOutcome(I.op, Top(2), Top(1), heap))
    BY ListedOutcomes
  <2>5. BinaryOutcome(I.op, Top(2), Top(1), heap) \in Machine!Outcomes(I, Args)
    BY <1>1, <1>c, <1>d, <2>1 DEF BinaryOp, Tabled
  <2>6. Computes(BinaryOutcome(I.op, Top(2), Top(1), heap))
    BY <2>1, <2>2, <2>3, <2>4, <2>5 DEF Computes
  <2> QED
    BY <2>6
<1>2. CASE Const
  <2>1. I.op \in Sequential /\ Popped(I) = 0 /\ Pushed(I) = 1
    BY <1>2, SequentialTable, PoppedTable, PushedTable DEF Const
  <2>2. Operate(0, Pushes(<<BOX(I.a)>>, heap))
    BY <1>2 DEF Const
  <2>3. Suited(Pushes(<<BOX(I.a)>>, heap))
    BY <1>0, <2>1, OneSuited
  <2>4. Listed(Pushes(<<BOX(I.a)>>, heap))
    BY ListedOutcomes
  <2>5. Pushes(<<BOX(I.a)>>, heap) \in Machine!Outcomes(I, Args)
    BY <1>2, <1>c, <1>d, <2>1 DEF Const, Tabled
  <2>6. Computes(Pushes(<<BOX(I.a)>>, heap))
    BY <2>1, <2>2, <2>3, <2>4, <2>5 DEF Computes
  <2> QED
    BY <2>6
<1>3. CASE LoadString
  <2>1. I.op \in Sequential /\ Popped(I) = 0 /\ Pushed(I) = 1
    BY <1>3, SequentialTable, PoppedTable, PushedTable DEF LoadString
  <2>2. Operate(0, Allocates(StringOf(P.strings[I.a]), heap))
    BY <1>3, <1>b DEF LoadString, WithString
  <2>3. Suited(Allocates(StringOf(P.strings[I.a]), heap))
    BY <1>0, <2>1, ObjectsSuited
  <2>4. Listed(Allocates(StringOf(P.strings[I.a]), heap))
    BY ListedOutcomes
  <2>5. Allocates(StringOf(P.strings[I.a]), heap) \in Machine!Outcomes(I, Args)
    BY <1>3, <1>c, <1>d, <2>1 DEF LoadString, Tabled
  <2>6. Computes(Allocates(StringOf(P.strings[I.a]), heap))
    BY <2>1, <2>2, <2>3, <2>4, <2>5 DEF Computes
  <2> QED
    BY <2>6
<1>4. CASE MakeSexp
  <2>1. I.op \in Sequential /\ Popped(I) = I.b /\ Pushed(I) = 1
    BY <1>4, SequentialTable, PoppedTable, PushedTable DEF MakeSexp
  <2>2. Operate(I.b, SexpOutcome(P.strings[I.a], Operands(I.b), heap))
    <3>1. ~ (I.b < 0)
      BY <1>0, <2>1, RunningFacts
    <3> QED
      BY <1>4, <1>b, <3>1 DEF MakeSexp, WithString, WithCount
  <2>3. Suited(SexpOutcome(P.strings[I.a], Operands(I.b), heap))
    BY <1>0, <2>1, ObjectsSuited
  <2>4. Listed(SexpOutcome(P.strings[I.a], Operands(I.b), heap))
    BY ListedOutcomes
  <2>5. SexpOutcome(P.strings[I.a], Operands(I.b), heap) \in Machine!Outcomes(I, Args)
    BY <1>4, <1>c, <1>d, <2>1 DEF MakeSexp, Tabled
  <2>6. Computes(SexpOutcome(P.strings[I.a], Operands(I.b), heap))
    BY <2>1, <2>2, <2>3, <2>4, <2>5 DEF Computes
  <2> QED
    BY <2>6
<1>5. CASE MakeArray
  <2>1. I.op \in Sequential /\ Popped(I) = I.a /\ Pushed(I) = 1
    BY <1>5, SequentialTable, PoppedTable, PushedTable DEF MakeArray
  <2>2. Operate(I.a, Allocates(Array(Operands(I.a)), heap))
    <3>1. ~ (I.a < 0)
      BY <1>0, <2>1, RunningFacts
    <3> QED
      BY <1>5, <3>1 DEF MakeArray, WithCount
  <2>3. Suited(Allocates(Array(Operands(I.a)), heap))
    BY <1>0, <2>1, ObjectsSuited
  <2>4. Listed(Allocates(Array(Operands(I.a)), heap))
    BY ListedOutcomes
  <2>5. Allocates(Array(Operands(I.a)), heap) \in Machine!Outcomes(I, Args)
    BY <1>5, <1>c, <1>d, <2>1 DEF MakeArray, Tabled
  <2>6. Computes(Allocates(Array(Operands(I.a)), heap))
    BY <2>1, <2>2, <2>3, <2>4, <2>5 DEF Computes
  <2> QED
    BY <2>6
<1>6. CASE StoreInto
  <2>1. I.op \in Sequential /\ Popped(I) = 3 /\ Pushed(I) = 1
    BY <1>6, SequentialTable, PoppedTable, PushedTable DEF StoreInto
  <2>2. Operate(3, StaOutcome(Top(3), Top(2), Top(1), heap))
    BY <1>6 DEF StoreInto
  <2>s. sp >= 3
    BY <1>0, <2>1, RunningFacts
  <2>3. Suited(StaOutcome(Top(3), Top(2), Top(1), heap))
    BY <1>0, <2>1, <2>s, StaSuited
  <2>4. Listed(StaOutcome(Top(3), Top(2), Top(1), heap))
    BY ListedOutcomes
  <2>5. StaOutcome(Top(3), Top(2), Top(1), heap) \in Machine!Outcomes(I, Args)
    <3>1. ~ IsA(heap, Top(3), {"SEXP"}) /\ I.op = "STA"
      BY <1>6 DEF Disciplined, StoreInto
    <3> QED
      BY <1>c, <1>d, <2>1, <3>1, SameAssignment DEF Tabled
  <2>6. Computes(StaOutcome(Top(3), Top(2), Top(1), heap))
    BY <2>1, <2>2, <2>3, <2>4, <2>5 DEF Computes
  <2> QED
    BY <2>6
<1>7. CASE Elem
  <2>1. I.op \in Sequential /\ Popped(I) = 2 /\ Pushed(I) = 1
    BY <1>7, SequentialTable, PoppedTable, PushedTable DEF Elem
  <2>2. Operate(2, ElemOutcome(Top(2), Top(1), heap))
    BY <1>7 DEF Elem
  <2>3. Suited(ElemOutcome(Top(2), Top(1), heap))
    BY <1>0, <2>1, TestsSuited
  <2>4. Listed(ElemOutcome(Top(2), Top(1), heap))
    BY ListedOutcomes
  <2>5. ElemOutcome(Top(2), Top(1), heap) \in Machine!Outcomes(I, Args)
    BY <1>7, <1>c, <1>d, <2>1 DEF Elem, Tabled
  <2>6. Computes(ElemOutcome(Top(2), Top(1), heap))
    BY <2>1, <2>2, <2>3, <2>4, <2>5 DEF Computes
  <2> QED
    BY <2>6
<1>8. CASE Drop
  <2>1. I.op \in Sequential /\ Popped(I) = 1 /\ Pushed(I) = 0
    BY <1>8, SequentialTable, PoppedTable, PushedTable DEF Drop
  <2>2. Operate(1, Pushes(<<>>, heap))
    BY <1>8 DEF Drop
  <2>3. Suited(Pushes(<<>>, heap))
    BY <1>0, <2>1, PushesSuited
  <2>4. Listed(Pushes(<<>>, heap))
    BY ListedOutcomes
  <2>5. Pushes(<<>>, heap) \in Machine!Outcomes(I, Args)
    BY <1>8, <1>c, <1>d, <2>1 DEF Drop, Tabled
  <2>6. Computes(Pushes(<<>>, heap))
    BY <2>1, <2>2, <2>3, <2>4, <2>5 DEF Computes
  <2> QED
    BY <2>6
<1>9. CASE Dup
  <2>1. I.op \in Sequential /\ Popped(I) = 1 /\ Pushed(I) = 2
    BY <1>9, SequentialTable, PoppedTable, PushedTable DEF Dup
  <2>2. Operate(1, Pushes(<<Top(1), Top(1)>>, heap))
    BY <1>9 DEF Dup
  <2>s. Len(<<Top(1), Top(1)>>) = 2
    OBVIOUS
  <2>3. Suited(Pushes(<<Top(1), Top(1)>>, heap))
    BY <1>0, <2>1, <2>s, PushesSuited
  <2>4. Listed(Pushes(<<Top(1), Top(1)>>, heap))
    BY ListedOutcomes
  <2>5. Pushes(<<Top(1), Top(1)>>, heap) \in Machine!Outcomes(I, Args)
    BY <1>9, <1>c, <1>d, <2>1 DEF Dup, Tabled
  <2>6. Computes(Pushes(<<Top(1), Top(1)>>, heap))
    BY <2>1, <2>2, <2>3, <2>4, <2>5 DEF Computes
  <2> QED
    BY <2>6
<1>10. CASE Swap
  <2>1. I.op \in Sequential /\ Popped(I) = 2 /\ Pushed(I) = 2
    BY <1>10, SequentialTable, PoppedTable, PushedTable DEF Swap
  <2>2. Operate(2, Pushes(<<Top(1), Top(2)>>, heap))
    BY <1>10 DEF Swap
  <2>s. Len(<<Top(1), Top(2)>>) = 2
    OBVIOUS
  <2>3. Suited(Pushes(<<Top(1), Top(2)>>, heap))
    BY <1>0, <2>1, <2>s, PushesSuited
  <2>4. Listed(Pushes(<<Top(1), Top(2)>>, heap))
    BY ListedOutcomes
  <2>5. Pushes(<<Top(1), Top(2)>>, heap) \in Machine!Outcomes(I, Args)
    BY <1>10, <1>c, <1>d, <2>1 DEF Swap, Tabled
  <2>6. Computes(Pushes(<<Top(1), Top(2)>>, heap))
    BY <2>1, <2>2, <2>3, <2>4, <2>5 DEF Computes
  <2> QED
    BY <2>6
<1>11. CASE TestTag
  <2>1. I.op \in Sequential /\ Popped(I) = 1 /\ Pushed(I) = 1
    BY <1>11, SequentialTable, PoppedTable, PushedTable DEF TestTag
  <2>2. Operate(1, TagOutcome(P.strings[I.a], I.b, Top(1), heap))
    <3>1. ~ (sp < 1)
      BY <1>0, <2>1, RunningFacts
    <3> QED
      BY <1>11, <1>b, <3>1 DEF TestTag, WithString
  <2>3. Suited(TagOutcome(P.strings[I.a], I.b, Top(1), heap))
    BY <1>0, <2>1, TestsSuited
  <2>4. Listed(TagOutcome(P.strings[I.a], I.b, Top(1), heap))
    BY ListedOutcomes
  <2>5. TagOutcome(P.strings[I.a], I.b, Top(1), heap) \in Machine!Outcomes(I, Args)
    BY <1>11, <1>c, <1>d, <2>1 DEF TestTag, Tabled
  <2>6. Computes(TagOutcome(P.strings[I.a], I.b, Top(1), heap))
    BY <2>1, <2>2, <2>3, <2>4, <2>5 DEF Computes
  <2> QED
    BY <2>6
<1>12. CASE TestArray
  <2>1. I.op \in Sequential /\ Popped(I) = 1 /\ Pushed(I) = 1
    BY <1>12, SequentialTable, PoppedTable, PushedTable DEF TestArray
  <2>2. Operate(1, ArrayOutcome(I.a, Top(1), heap))
    BY <1>12 DEF TestArray
  <2>3. Suited(ArrayOutcome(I.a, Top(1), heap))
    BY <1>0, <2>1, TestsSuited
  <2>4. Listed(ArrayOutcome(I.a, Top(1), heap))
    BY ListedOutcomes
  <2>5. ArrayOutcome(I.a, Top(1), heap) \in Machine!Outcomes(I, Args)
    BY <1>12, <1>c, <1>d, <2>1 DEF TestArray, Tabled
  <2>6. Computes(ArrayOutcome(I.a, Top(1), heap))
    BY <2>1, <2>2, <2>3, <2>4, <2>5 DEF Computes
  <2> QED
    BY <2>6
<1>13. CASE PattEq
  <2>1. I.op \in Sequential /\ Popped(I) = 2 /\ Pushed(I) = 1
    BY <1>13, SequentialTable, PoppedTable, PushedTable DEF PattEq
  <2>2. Operate(2, PattEqOutcome(Top(2), Top(1), heap))
    BY <1>13 DEF PattEq
  <2>3. Suited(PattEqOutcome(Top(2), Top(1), heap))
    BY <1>0, <2>1, TestsSuited
  <2>4. Listed(PattEqOutcome(Top(2), Top(1), heap))
    BY ListedOutcomes
  <2>5. PattEqOutcome(Top(2), Top(1), heap) \in Machine!Outcomes(I, Args)
    BY <1>13, <1>c, <1>d, <2>1 DEF PattEq, Tabled
  <2>6. Computes(PattEqOutcome(Top(2), Top(1), heap))
    BY <2>1, <2>2, <2>3, <2>4, <2>5 DEF Computes
  <2> QED
    BY <2>6
<1>14. CASE Pattern
  <2>1. I.op \in Sequential /\ Popped(I) = 1 /\ Pushed(I) = 1
    BY <1>14, SequentialTable, PoppedTable, PushedTable DEF Pattern
  <2>2. Operate(1, PatternOutcome(I.op, Top(1), heap))
    BY <1>14 DEF Pattern
  <2>3. Suited(PatternOutcome(I.op, Top(1), heap))
    BY <1>0, <2>1, TestsSuited
  <2>4. Listed(PatternOutcome(I.op, Top(1), heap))
    BY ListedOutcomes
  <2>5. PatternOutcome(I.op, Top(1), heap) \in Machine!Outcomes(I, Args)
    BY <1>14, <1>c, <1>d, <2>1 DEF Pattern, Tabled
  <2>6. Computes(PatternOutcome(I.op, Top(1), heap))
    BY <2>1, <2>2, <2>3, <2>4, <2>5 DEF Computes
  <2> QED
    BY <2>6
<1>15. CASE Length
  <2>1. I.op \in Sequential /\ Popped(I) = 1 /\ Pushed(I) = 1
    BY <1>15, SequentialTable, PoppedTable, PushedTable DEF Length
  <2>2. Operate(1, LengthOutcome(Top(1), heap))
    BY <1>15 DEF Length
  <2>3. Suited(LengthOutcome(Top(1), heap))
    BY <1>0, <2>1, TestsSuited
  <2>4. Listed(LengthOutcome(Top(1), heap))
    BY ListedOutcomes
  <2>5. LengthOutcome(Top(1), heap) \in Machine!Outcomes(I, Args)
    BY <1>15, <1>c, <1>d, <2>1 DEF Length, Tabled
  <2>6. Computes(LengthOutcome(Top(1), heap))
    BY <2>1, <2>2, <2>3, <2>4, <2>5 DEF Computes
  <2> QED
    BY <2>6
<1>16. CASE Line
  <2>1. I.op \in Sequential /\ Popped(I) = 0 /\ Pushed(I) = 0
    BY <1>16, SequentialTable, PoppedTable, PushedTable DEF Line
  <2>2. Operate(0, Pushes(<<>>, heap))
    BY <1>16 DEF Line
  <2>3. Suited(Pushes(<<>>, heap))
    BY <1>0, <2>1, PushesSuited
  <2>4. Listed(Pushes(<<>>, heap))
    BY ListedOutcomes
  <2>5. Pushes(<<>>, heap) \in Machine!Outcomes(I, Args)
    BY <1>16, <1>c, <1>d, <2>1 DEF Line, Tabled
  <2>6. Computes(Pushes(<<>>, heap))
    BY <2>1, <2>2, <2>3, <2>4, <2>5 DEF Computes
  <2> QED
    BY <2>6
<1>17. CASE Read
  <2>1. I.op \in Sequential /\ Popped(I) = 0 /\ Pushed(I) = 1
    BY <1>17, SequentialTable, PoppedTable, PushedTable DEF Read
  <2>2. PICK n \in Inputs : Operate(0, Pushes(<<BOX(n)>>, heap))
    BY <1>17 DEF Read
  <2>3. Suited(Pushes(<<BOX(n)>>, heap))
    BY <1>0, <2>1, OneSuited
  <2>4. Listed(Pushes(<<BOX(n)>>, heap))
    BY ListedOutcomes
  <2>5. Pushes(<<BOX(n)>>, heap) \in Machine!Outcomes(I, Args)
    BY <1>17, <1>c, <1>d, <2>1 DEF Read, Tabled
  <2>6. Computes(Pushes(<<BOX(n)>>, heap))
    BY <2>1, <2>2, <2>3, <2>4, <2>5 DEF Computes
  <2> QED
    BY <2>6
<1>18. CASE Stringify
  <2>1. I.op \in Sequential /\ Popped(I) = 1 /\ Pushed(I) = 1
    BY <1>18, SequentialTable, PoppedTable, PushedTable DEF Stringify
  <2>2. PICK cs \in Printed : Operate(1, Allocates(StringOf(cs), heap))
    BY <1>18 DEF Stringify
  <2>3. Suited(Allocates(StringOf(cs), heap))
    BY <1>0, <2>1, ObjectsSuited
  <2>4. Listed(Allocates(StringOf(cs), heap))
    BY ListedOutcomes
  <2>5. Allocates(StringOf(cs), heap) \in Machine!Outcomes(I, Args)
    BY <1>18, <1>c, <1>d, <2>1 DEF Stringify, Tabled
  <2>6. Computes(Allocates(StringOf(cs), heap))
    BY <2>1, <2>2, <2>3, <2>4, <2>5 DEF Computes
  <2> QED
    BY <2>6
<1> QED
  BY <1>1, <1>2, <1>3, <1>4, <1>5, <1>6, <1>7, <1>8, <1>9, <1>10, <1>11, <1>12, <1>13, <1>14, <1>15, <1>16, <1>17, <1>18 DEF Data

LEMMA ComputedStep ==
  ASSUME RefInv, prog \in Sound, VERIFIED => prog \in Bounded, status = "running",
         UNCHANGED prog, I.op \in Sequential, NEW o, Computes(o),
         out' = IF status' = "running" /\ I.op = "CALL_Lwrite"
                  THEN Append(out, Top(1).val) ELSE out
  PROVE  Machine!Next
<1>1. /\ Listed(o) /\ o \in Machine!Outcomes(I, Args) /\ Operate(Popped(I), o)
      /\ o.ok => Len(o.push) = Pushed(I)
  BY DEF Computes, Suited
<1>2. \/ Stop("exhausted")
      \/ ~ o.ok /\ Stop("failed")
      \/ o.ok /\ Advances(o)
  BY <1>1, OperateCases
<1>3. /\ Machine!Current = Now /\ Machine!I = I /\ Machine!Popped(Machine!I) = Popped(I)
      /\ Machine!Over(Machine!Current, Machine!Popped(Machine!I)) = Args
  BY CurrentIs, SamePopped DEF Args
<1>4. I.op = "CALL_Lwrite" => Machine!Operand = Top(1)
  <2>1. SUFFICES ASSUME I.op = "CALL_Lwrite" PROVE Machine!Operand = Top(1)
    OBVIOUS
  <2>2. Popped(I) = 1 /\ I.op \notin Begins
    BY <2>1, PoppedTable DEF Begins
  <2>3. 1 \in Nat /\ 1 <= Popped(I) /\ 1 # 0
    BY <2>2
  <2> QED
    BY <2>2, <2>3, PoppedOperands
<1>5. CASE Stop("exhausted")
  BY <1>5, ExhaustIs DEF Stop
<1>6. CASE ~ o.ok /\ Stop("failed")
  <2>1. Machine!Stop("failed")
    BY <1>6, StopIsStop DEF Stop, memory
  <2>2. Machine!Data
    BY <1>1, <1>3, <1>6, <2>1 DEF Machine!Data
  <2> QED
    BY <2>2 DEF Machine!Next
<1>7. CASE o.ok /\ Advances(o)
  <2>1. out' = IF Machine!I.op = "CALL_Lwrite" THEN Append(out, Machine!Operand.val) ELSE out
    BY <1>3, <1>4, <1>7 DEF Advances
  <2>2. /\ Machine!Resume([Machine!Current EXCEPT
                !.opnds = Machine!Under(Machine!Current, Machine!Popped(Machine!I)) \o o.push,
                !.ip = @ + 1])
        /\ heap' = o.heap /\ Glob' = Glob /\ status' = status
    BY <1>3, <1>7 DEF Advances
  <2>3. Machine!Data
    BY <1>1, <1>3, <1>7, <2>1, <2>2 DEF Machine!Data, Glob
  <2> QED
    BY <2>3 DEF Machine!Next
<1> QED
  BY <1>2, <1>5, <1>6, <1>7

LEMMA DataRefines ==
  ASSUME RefInv, Disciplined, prog \in Sound, VERIFIED => prog \in Bounded,
         status = "running", UNCHANGED <<prog, out>>, Data
  PROVE  Machine!Next
<1>1. I.op \in Sequential /\ I.op # "CALL_Lwrite"
  <2>1. I.op # "CALL_Lwrite"
    BY DEF Data, BinaryOp, Const, LoadString, MakeSexp, MakeArray, StoreInto, Elem, Drop, Dup,
       Swap, TestTag, TestArray, PattEq, Pattern, Length, Line, Read, Stringify, At, Binary,
       Arithmetic, Relational, Patterns
  <2> QED
    BY <2>1, StepsRun
<1>2. PICK o : Computes(o)
  BY DataComputes
<1> QED
  BY <1>1, <1>2, ComputedStep

LEMMA WriteRefines ==
  ASSUME RefInv, prog \in Sound, VERIFIED => prog \in Bounded,
         status = "running", UNCHANGED prog, Write
  PROVE  Machine!Next
<1> DEFINE o == WriteOutcome(Top(1), heap)
<1>1. /\ I.op = "CALL_Lwrite" /\ Operate(1, o)
      /\ out' = IF status' = "running" THEN Append(out, Top(1).val) ELSE out
  BY DEF Write, At
<1>2. I.op \in Sequential /\ Popped(I) = 1 /\ Pushed(I) = 1 /\ I.op \notin Begins
  BY <1>1, SequentialTable, PoppedTable, PushedTable DEF Begins
<1>3. Suited(o)
  <2>1. Enters(heap)
    <3>1. StackInv
      BY RunningLayout
    <3> QED
      BY <3>1, RunningFacts
  <2> QED
    BY <1>2, <2>1, TestsSuited
<1>4. Listed(o)
  BY ListedOutcomes
<1>5. o \in Machine!Outcomes(I, Args)
  <2>1. Tabled(I, Args)
    BY OutcomeTable
  <2>2. Args[1] = Top(1)
    BY <1>2, PoppedArgs
  <2> QED
    BY <1>1, <2>1, <2>2 DEF Tabled
<1>6. Computes(o)
  BY <1>1, <1>2, <1>3, <1>4, <1>5 DEF Computes
<1> QED
  BY <1>1, <1>2, <1>6, ComputedStep

-----------------------------------------------------------------------------
(***************************************************************************)
(* Variables: loads.                                                       *)
(***************************************************************************)

LEMMA PushedOne ==
  ASSUME NEW S, NEW s \in Seq(S), NEW v
  PROVE  s \o <<v>> = Append(s, v)
OBVIOUS

Holds(seq, n, st, lo) ==
  \A a \in Int : /\ a + 1 \in DOMAIN seq <=> a \in 0 .. n - 1
                 /\ a \in 0 .. n - 1 => seq[a + 1] = st[lo + a]

LEMMA SegmentSlot ==
  ASSUME NEW st, NEW lo \in Int, NEW hi \in Int, NEW n \in Nat, hi - lo = n
  PROVE  Holds(Segment(st, lo, hi), n, st, lo)
<1>1. DOMAIN Segment(st, lo, hi) = 1 .. n
  BY DEF Segment
<1>2. ASSUME NEW a \in Int, a \in 0 .. n - 1
      PROVE  Segment(st, lo, hi)[a + 1] = st[lo + a]
  <2>1. a + 1 \in 1 .. hi - lo /\ lo + (a + 1) - 1 = lo + a
    BY <1>2
  <2> QED
    BY <2>1 DEF Segment
<1>3. \A a \in Int : a + 1 \in 1 .. n <=> a \in 0 .. n - 1
  OBVIOUS
<1> QED
  BY <1>1, <1>2, <1>3 DEF Holds

(* The values the running closure holds.                                     *)
LEMMA SelfIs ==
  ASSUME RefInv, prog \in Sound, status = "running"
  PROVE  /\ Now.self = Self
         /\ is_closure => /\ Self = stack[ClosureSlot] /\ Self # Zero
                          /\ ClosureSlot \in Slots
                          /\ Self.val \in 1 .. Len(heap)
                          /\ Machine!SelfValues = heap[Self.val].elems
                          /\ heap[Self.val].elems \in Seq(Value(Len(heap)))
                          /\ captured = Len(heap[Self.val].elems)
                          /\ captured \in Nat
         /\ ~ is_closure => Machine!SelfValues = <<>>
<1>1. /\ StackInv /\ TypeOK /\ Held /\ (is_closure => Floor = base - args - 1)
  BY RunningLayout
<1>2. Machine!Current = Now /\ Now.self = Self
  BY CurrentIs, FramedFields DEF Now
<1>3. ASSUME is_closure
      PROVE  /\ Self = stack[ClosureSlot] /\ Self # Zero
             /\ ClosureSlot \in Slots
             /\ Self.val \in 1 .. Len(heap)
             /\ Machine!SelfValues = heap[Self.val].elems
             /\ heap[Self.val].elems \in Seq(Value(Len(heap)))
             /\ captured = Len(heap[Self.val].elems)
             /\ captured \in Nat
  <2>1. Keeps(ClosureSlot, captured)
    BY <1>1, <1>3, RunningClosure
  <2>2. /\ ClosureSlot \in Slots /\ IsA(heap, stack[ClosureSlot], {"CLOSURE"})
        /\ captured = Len(heap[stack[ClosureSlot].val].elems)
    BY <2>1 DEF Keeps
  <2>3. Self = stack[ClosureSlot]
    BY <1>1, <1>3 DEF Self, ClosureSlot
  <2>4. Self # Zero
    BY <2>2, <2>3 DEF IsA, UNBOXED, Zero, IntValue
  <2>5. Machine!SelfValues = heap[Self.val].elems
    BY <1>2, <2>4, SameWords DEF Machine!SelfValues
  <2>6. Self.val \in 1 .. Len(heap)
    BY <1>1, <2>2, <2>3, SlotTypes, OperandTypes, ValueCases DEF IsA
  <2>7. heap[Self.val].elems \in Seq(Value(Len(heap)))
    BY <1>1, <2>6, OperandTypes, ElementsAreValues
  <2>8. captured = Len(heap[Self.val].elems) /\ captured \in Nat
    BY <2>2, <2>3, <2>7
  <2> QED
    BY <2>2, <2>3, <2>4, <2>5, <2>6, <2>7, <2>8
<1>4. ASSUME ~ is_closure PROVE Machine!SelfValues = <<>>
  BY <1>2, <1>4, SameWords DEF Self, Machine!SelfValues
<1> QED
  BY <1>2, <1>3, <1>4

(* The variables an instruction names.                                       *)
LEMMA ValuesAre ==
  ASSUME RefInv, prog \in Sound, status = "running", NEW op
  PROVE  /\ op \in {"LDG", "STG"} => Machine!Values(op) = Segment(stack, 0, P.globals)
         /\ op \in {"LDL", "STL"} => Machine!Values(op) = Segment(stack, base, base + L)
         /\ op \in {"LDA", "STA_"} => Machine!Values(op) = Segment(stack, base - args, base)
         /\ op \in {"LDC", "STC"} => Machine!Values(op) = Machine!SelfValues
<1>1. Machine!Current = Now /\ Glob = Segment(stack, 0, P.globals)
  BY CurrentIs
<1>2. Now.locals = Segment(stack, base, base + L) /\ Now.args = Segment(stack, base - args, base)
  BY FramedFields DEF Now
<1> QED
  BY <1>1, <1>2 DEF Machine!Values, Glob

(* The variable the instruction names is there, and its value is v.          *)
Reads(v) == /\ I.a + 1 \in DOMAIN Machine!Values(I.op)
            /\ v = Machine!Values(I.op)[I.a + 1]

LEMMA OperandAdded ==
  ASSUME RefInv, prog \in Sound, status = "running", I.op \in Sequential, Popped(I) = 0,
         NEW v
  PROVE  Machine!Under(Now, 0) \o <<v>> = Append(Now.opnds, v)
<1>1. /\ base + L \in Int /\ sp \in Int /\ base + L <= sp
  BY RunningLayout
<1>2. I.op \notin Begins
  BY DEF Sequential
<1>3. 0 \in Nat /\ 0 <= Popped(I)
  OBVIOUS
<1>4. sp - 0 = sp
  BY <1>1
<1>5. Machine!Under(Now, 0) = Segment(stack, base + L, sp)
  BY <1>2, <1>3, <1>4, PoppedOperands
<1>6. Segment(stack, base + L, sp) \in Seq(Cells(stack, base + L, sp))
  BY <1>1, SegmentIsSequence
<1>7. Now.opnds = Segment(stack, base + L, sp)
  BY FramedFields DEF Now
<1> QED
  BY <1>5, <1>6, <1>7, PushedOne

LEMMA LoadAdvances ==
  ASSUME RefInv, prog \in Sound, VERIFIED => prog \in Bounded, status = "running",
         UNCHANGED <<prog, out>>, I.op \in Loads, NEW v, Operate(0, Pushes(<<v>>, heap)), Reads(v)
  PROVE  Machine!Next
<1> DEFINE o == Pushes(<<v>>, heap)
<1>1. Popped(I) = 0 /\ Pushed(I) = 1 /\ I.op \in Sequential
  BY PoppedTable, PushedTable, SequentialTable
<1>2. Listed(o) /\ o.ok /\ o.push = <<v>> /\ o.heap = heap /\ Len(o.push) = Pushed(I)
  <2>1. Listed(o)
    BY ListedOutcomes
  <2> QED
    BY <1>1, <2>1 DEF Pushes
<1> HIDE DEF o
<1>3. Operate(Popped(I), o)
  BY <1>1 DEF o
<1>4. Stop("exhausted") \/ Advances(o)
  BY <1>1, <1>2, <1>3, OperateCases
<1>5. CASE Stop("exhausted")
  BY <1>5, ExhaustIs
<1>6. CASE Advances(o)
  <2>1. /\ Machine!Current = Now /\ Machine!I = I
    BY CurrentIs
  <2>3. Machine!Under(Now, 0) \o <<v>> = Append(Now.opnds, v)
    BY <1>1, OperandAdded
  <2>4. Machine!Resume([Now EXCEPT !.opnds = Append(@, v), !.ip = @ + 1])
    BY <1>1, <1>2, <1>6, <2>3 DEF Advances
  <2>5. heap' = heap /\ Glob' = Glob /\ status' = status
    BY <1>2, <1>6 DEF Advances
  <2>6. Machine!Running(Machine!Loads)
    BY <2>1 DEF Machine!Running, Machine!Loads, Loads
  <2>7. Machine!Load
    BY <2>1, <2>4, <2>5, <2>6 DEF Machine!Load, Glob, Reads
  <2> QED
    BY <2>7 DEF Machine!Next
<1> QED
  BY <1>4, <1>5, <1>6

LEMMA LoadRefused ==
  ASSUME RefInv, prog \in Sound, status = "running", UNCHANGED <<prog, out>>,
         I.op \in Loads, Stop("failed"), I.a + 1 \notin DOMAIN Machine!Values(I.op)
  PROVE  Machine!Next
<1>1. Machine!I = I
  BY CurrentIs
<1>2. Machine!Running(Machine!Loads)
  BY <1>1 DEF Machine!Running, Machine!Loads, Loads
<1>3. Machine!Stop("failed")
  BY StopIsStop DEF Stop, memory
<1>4. Machine!Load
  BY <1>1, <1>2, <1>3 DEF Machine!Load
<1> QED
  BY <1>4 DEF Machine!Next

(* The static bounds of a variable's index.                                  *)
LEMMA IndexBounds ==
  ASSUME RefInv, prog \in Sound, status = "running", I.op \in Loads \cup Stores
  PROVE  /\ I.a \in Int
         /\ I.op \notin Begins
         /\ I.op \in {"LDG", "STG"} => I.a \in 0 .. P.globals - 1
         /\ I.op \in {"LDL", "STL"} => I.a \in 0 .. L - 1
         /\ I.op \in {"LDA", "STA_"} => I.a >= 0
<1>1. /\ TypeOK /\ ip \in Reachable(P)
      /\ I.op \notin Begins => L = Locals(Header(ip))
  BY RunningLayout
<1>2. WellPlaced(P, ip) /\ IsInstruction(P.code[ip])
  BY <1>1, ReachableInstruction
<1>3. I.a \in Int /\ I.op \notin Begins
  BY <1>2 DEF IsInstruction, I, Loads, Stores, Begins
<1>4. /\ I.op \in {"LDG", "STG"} => I.a \in 0 .. P.globals - 1
      /\ I.op \in {"LDL", "STL"} => I.a \in 0 .. Locals(Header(ip)) - 1
      /\ I.op \in {"LDA", "STA_"} => I.a \in 0 .. Header(ip).a - 1
  BY <1>2 DEF WellPlaced, I, Header
<1>5. I.op \in {"LDA", "STA_"} => I.a >= 0
  BY <1>3, <1>4
<1> QED
  BY <1>1, <1>3, <1>4, <1>5

LEMMA LoadGlobalRefines ==
  ASSUME RefInv, prog \in Sound, VERIFIED => prog \in Bounded, status = "running",
         UNCHANGED <<prog, out>>, LoadGlobal
  PROVE  Machine!Next
<1>1. I.op = "LDG" /\ I.op \in Loads /\ LoadSlot(I.a, I.a \in 0 .. P.globals - 1)
  BY DEF LoadGlobal, At, Loads
<1>2. I.a \in Int /\ I.a \in 0 .. P.globals - 1
  BY <1>1, IndexBounds
<1>3. /\ P.globals \in Nat /\ Floor \in Nat /\ P.globals <= Floor /\ Floor <= base - args
      /\ base \in Nat /\ args \in Nat /\ L \in Nat /\ base + L <= sp /\ sp <= STACK_MAX_SIZE
      /\ STACK_MAX_SIZE \in Nat /\ sp \in Nat
  BY RunningLayout
<1>4. I.a \in Slots
  BY <1>2, <1>3 DEF Slots
<1>5. Operate(0, Pushes(<<stack[I.a]>>, heap))
  BY <1>1, <1>2, <1>4 DEF LoadSlot
<1>6. /\ I.a + 1 \in DOMAIN Segment(stack, 0, P.globals)
      /\ Segment(stack, 0, P.globals)[I.a + 1] = stack[I.a]
  <2>1. 0 \in Int /\ P.globals \in Int /\ P.globals - 0 = P.globals /\ 0 + I.a = I.a
    BY <1>2, <1>3
  <2>2. Holds(Segment(stack, 0, P.globals), P.globals, stack, 0)
    BY <1>3, <2>1, SegmentSlot
  <2> QED
    BY <1>2, <2>1, <2>2 DEF Holds
<1>7. Machine!Values(I.op) = Segment(stack, 0, P.globals)
  BY <1>1, ValuesAre
<1>8. PICK v : v = stack[I.a]
  OBVIOUS
<1>9. Reads(v)
  BY <1>6, <1>7, <1>8 DEF Reads
<1>10. Operate(0, Pushes(<<v>>, heap))
  BY <1>5, <1>8
<1>11. I.op \in Loads
  BY <1>1
<1> QED
  BY <1>9, <1>10, <1>11, LoadAdvances

LEMMA LoadLocalRefines ==
  ASSUME RefInv, prog \in Sound, VERIFIED => prog \in Bounded, status = "running",
         UNCHANGED <<prog, out>>, LoadLocal
  PROVE  Machine!Next
<1>1. I.op = "LDL" /\ I.op \in Loads /\ LoadSlot(base + I.a, I.a \in 0 .. locals - 1)
  BY DEF LoadLocal, At, Loads
<1>2. I.a \in Int /\ I.a \in 0 .. L - 1 /\ I.op \notin Begins
  BY <1>1, IndexBounds
<1>3. /\ base \in Nat /\ L \in Nat /\ L = locals /\ base + L <= sp /\ sp <= STACK_MAX_SIZE
      /\ STACK_MAX_SIZE \in Nat /\ sp \in Nat
  BY <1>2, RunningLayout
<1>4. base + I.a \in Slots
  BY <1>2, <1>3 DEF Slots
<1>5. Operate(0, Pushes(<<stack[base + I.a]>>, heap))
  BY <1>1, <1>2, <1>3, <1>4 DEF LoadSlot
<1>6. /\ I.a + 1 \in DOMAIN Segment(stack, base, base + L)
      /\ Segment(stack, base, base + L)[I.a + 1] = stack[base + I.a]
  <2>1. base \in Int /\ base + L \in Int /\ base + L - base = L
    BY <1>3
  <2>2. Holds(Segment(stack, base, base + L), L, stack, base)
    <3> DEFINE hi == base + L
    <3>1. hi \in Int /\ base \in Int /\ L \in Nat /\ hi - base = L
      BY <1>3, <2>1
    <3> HIDE DEF hi
    <3>2. Holds(Segment(stack, base, hi), L, stack, base)
      BY <3>1, SegmentSlot
    <3> QED
      BY <3>2 DEF hi
  <2> QED
    BY <1>2, <2>2 DEF Holds
<1>7. Machine!Values(I.op) = Segment(stack, base, base + L)
  BY <1>1, ValuesAre
<1>8. PICK v : v = stack[base + I.a]
  OBVIOUS
<1>9. Reads(v)
  BY <1>6, <1>7, <1>8 DEF Reads
<1>10. Operate(0, Pushes(<<v>>, heap))
  BY <1>5, <1>8
<1>11. I.op \in Loads
  BY <1>1
<1> QED
  BY <1>9, <1>10, <1>11, LoadAdvances

LEMMA LoadArgRefines ==
  ASSUME RefInv, Disciplined, prog \in Sound, VERIFIED => prog \in Bounded,
         status = "running", UNCHANGED <<prog, out>>, LoadArg
  PROVE  Machine!Next
<1>1. I.op = "LDA" /\ I.op \in Loads
  BY DEF LoadArg, At, Loads
<1>2. I.a \in Int /\ I.a >= 0 /\ I.op \notin Begins /\ (VERIFIED => I.a < args)
  BY <1>1, IndexBounds DEF Disciplined
<1>3. /\ base \in Nat /\ args \in Nat /\ Floor \in Nat /\ Floor <= base - args
      /\ L \in Nat /\ base + L <= sp /\ sp <= STACK_MAX_SIZE /\ STACK_MAX_SIZE \in Nat
      /\ sp \in Nat
  BY RunningLayout
<1>a. LoadSlot(ArgSlot(I.a), I.a \in 0 .. args - 1)
  BY <1>2, <1>3, PassedIs DEF LoadArg, LoadSlot
<1>4. Machine!Values(I.op) = Segment(stack, base - args, base)
  BY <1>1, ValuesAre
<1>5. /\ I.a + 1 \in DOMAIN Machine!Values(I.op) <=> I.a \in 0 .. args - 1
      /\ I.a \in 0 .. args - 1 => Machine!Values(I.op)[I.a + 1] = stack[base - args + I.a]
  <2>1. base - args \in Int /\ base \in Int /\ base - (base - args) = args
    BY <1>3
  <2>2. Holds(Segment(stack, base - args, base), args, stack, base - args)
    BY <1>3, <2>1, SegmentSlot
  <2> QED
    BY <1>2, <1>4, <2>2 DEF Holds
<1>6. CASE I.a \in 0 .. args - 1
  <2>1. ArgSlot(I.a) \in Slots /\ ArgSlot(I.a) = base - args + I.a
    BY <1>3, <1>6 DEF Slots, ArgSlot
  <2>2. Operate(0, Pushes(<<stack[ArgSlot(I.a)]>>, heap))
    BY <1>a, <1>6, <2>1 DEF LoadSlot
  <2>3. PICK v : v = stack[ArgSlot(I.a)]
    OBVIOUS
  <2>4. Reads(v)
    BY <1>5, <1>6, <2>1, <2>3 DEF Reads
  <2>5. Operate(0, Pushes(<<v>>, heap))
    BY <2>2, <2>3
  <2>6. I.op \in Loads
    BY <1>1
  <2> QED
    BY <2>4, <2>5, <2>6, LoadAdvances
<1>7. CASE I.a \notin 0 .. args - 1
  <2>1. ~ VERIFIED
    BY <1>2, <1>3, <1>7
  <2>2. Stop("failed")
    BY <1>a, <1>7, <2>1 DEF LoadSlot
  <2>3. I.a + 1 \notin DOMAIN Machine!Values(I.op)
    BY <1>5, <1>7
  <2> QED
    BY <1>1, <2>2, <2>3, LoadRefused
<1> QED
  BY <1>6, <1>7

(* What the check of a captured variable comes to.                           *)
LEMMA CaptureCases ==
  ASSUME RefInv, Disciplined, prog \in Sound, status = "running", I.op \in {"LDC", "STC"},
         NEW action, WithCapture(I.a, action)
  PROVE  \/ Stop("failed") /\ I.a + 1 \notin DOMAIN Machine!Values(I.op)
         \/ /\ action /\ is_closure /\ I.a + 1 \in DOMAIN Machine!Values(I.op)
            /\ Machine!Values(I.op) = heap[Self.val].elems
            /\ HoldsCapture(I.a)
            /\ Machine!Values(I.op)[I.a + 1] = Capture(I.a)
            /\ Self = stack[ClosureSlot]
<1>1. I.a \in Int
  BY IndexBounds DEF Loads, Stores
<1>2. Machine!Values(I.op) = Machine!SelfValues
  BY ValuesAre
<1>3. CASE ~ is_closure
  <2>1. ~ VERIFIED
    BY <1>3 DEF Disciplined
  <2>2. Stop("failed")
    BY <1>3, <2>1 DEF WithCapture
  <2>3. Machine!Values(I.op) = <<>>
    BY <1>2, <1>3, SelfIs
  <2>4. DOMAIN <<>> = {}
    OBVIOUS
  <2> QED
    BY <2>2, <2>3, <2>4
<1>4. CASE is_closure
  <2>1. /\ Self = stack[ClosureSlot] /\ ClosureSlot \in Slots
        /\ Machine!SelfValues = heap[Self.val].elems
        /\ heap[Self.val].elems \in Seq(Value(Len(heap)))
        /\ captured = Len(heap[Self.val].elems) /\ captured \in Nat
    BY <1>4, SelfIs
  <2>2. DOMAIN Machine!Values(I.op) = 1 .. captured
    BY <1>2, <2>1
  <2>3. I.a + 1 \in 1 .. captured <=> I.a \in 0 .. captured - 1
    BY <1>1, <2>1
  <2>4. CASE I.a \notin 0 .. captured - 1
    <3>1. Stop("failed")
      BY <1>4, <2>1, <2>4 DEF WithCapture
    <3> QED
      BY <2>2, <2>3, <2>4, <3>1
  <2>5. CASE I.a \in 0 .. captured - 1
    <3>1. StackInv /\ Held
      BY RunningLayout
    <3>2. HoldsCapture(I.a)
      BY <1>1, <1>4, <2>5, <3>1, CapturesThere
    <3>3. action
      BY <1>4, <2>1, <2>5, <3>2 DEF WithCapture
    <3>4. Machine!Values(I.op)[I.a + 1] = Capture(I.a)
      BY <1>2, <2>1 DEF Capture
    <3> QED
      BY <1>2, <1>4, <2>1, <2>2, <2>3, <2>5, <3>2, <3>3, <3>4
  <2> QED
    BY <2>4, <2>5
<1> QED
  BY <1>3, <1>4

LEMMA LoadCapturedRefines ==
  ASSUME RefInv, Disciplined, prog \in Sound, VERIFIED => prog \in Bounded,
         status = "running", UNCHANGED <<prog, out>>, LoadCaptured
  PROVE  Machine!Next
<1>1. I.op = "LDC" /\ I.op \in Loads
      /\ WithCapture(I.a, Operate(0, Pushes(<<Capture(I.a)>>, heap)))
  BY DEF LoadCaptured, At, Loads
<1>2. \/ Stop("failed") /\ I.a + 1 \notin DOMAIN Machine!Values(I.op)
      \/ /\ Operate(0, Pushes(<<Capture(I.a)>>, heap))
         /\ Reads(Capture(I.a))
  BY <1>1, CaptureCases DEF Reads
<1> QED
  BY <1>1, <1>2, LoadAdvances, LoadRefused

-----------------------------------------------------------------------------
(***************************************************************************)
(* Variables: stores.                                                      *)
(***************************************************************************)

(* A store to slot x, seen in the slots lo .. hi-1.                          *)
StoredIn(st, tt, lo, hi, x, v) ==
  \A j \in Int : lo <= j /\ j < hi => tt[j] = IF j = x THEN v ELSE st[j]

LEMMA SegmentMissed ==
  ASSUME NEW st, NEW tt, NEW lo \in Int, NEW hi \in Int, NEW x \in Int, NEW v,
         StoredIn(st, tt, lo, hi, x, v), x < lo \/ hi <= x
  PROVE  Segment(tt, lo, hi) = Segment(st, lo, hi)
<1>1. \A j \in Int : lo <= j /\ j < hi => tt[j] = st[j]
  BY DEF StoredIn
<1> QED
  BY <1>1, SegmentsEqual

Changed(s, k, v) == [s EXCEPT ![k] = v]

LEMMA SegmentStored ==
  ASSUME NEW st, NEW tt, NEW lo \in Int, NEW hi \in Int, NEW x \in Int, NEW v, NEW k \in Int,
         StoredIn(st, tt, lo, hi, x, v), x = lo + k - 1, lo <= x, x < hi
  PROVE  Segment(tt, lo, hi) = Changed(Segment(st, lo, hi), k, v)
<1>1. \A j \in 1 .. hi - lo : tt[lo + j - 1] = IF j = k THEN v ELSE st[lo + j - 1]
  <2> TAKE j \in 1 .. hi - lo
  <2> DEFINE y == lo + j - 1
  <2>1. y \in Int /\ lo <= y /\ y < hi /\ (y = x <=> j = k)
    OBVIOUS
  <2> HIDE DEF y
  <2>2. tt[y] = IF y = x THEN v ELSE st[y]
    BY <2>1 DEF StoredIn
  <2>3. tt[y] = IF j = k THEN v ELSE st[y]
    BY <2>1, <2>2
  <2> QED
    BY <2>3 DEF y
<1> DEFINE s == Segment(st, lo, hi)
<1>2. /\ s = [j \in 1 .. hi - lo |-> st[lo + j - 1]]
      /\ Segment(tt, lo, hi) = [j \in 1 .. hi - lo |-> tt[lo + j - 1]]
  BY DEF Segment
<1>3. [s EXCEPT ![k] = v] = [j \in 1 .. hi - lo |-> IF j = k THEN v ELSE st[lo + j - 1]]
  <2> HIDE DEF s
  <2>1. DOMAIN s = 1 .. hi - lo /\ \A j \in 1 .. hi - lo : s[j] = st[lo + j - 1]
    BY <1>2
  <2>2. [s EXCEPT ![k] = v] = [j \in DOMAIN s |-> IF j = k THEN v ELSE s[j]]
    BY <2>1
  <2> QED
    BY <2>1, <2>2
<1> QED
  BY <1>1, <1>2, <1>3 DEF Changed

Assigning(r, l, a) == [r EXCEPT !.ip = @ + 1, !.locals = l, !.args = a]

LEMMA AssignedRecord ==
  ASSUME NEW i, NEW x, NEW y, NEW z, NEW s, NEW l, NEW a, NEW r,
         r = [ip |-> i, args |-> x, locals |-> y, opnds |-> z, self |-> s]
  PROVE  Assigning(r, l, a) = [ip |-> i + 1, args |-> a, locals |-> l, opnds |-> z, self |-> s]
<1>1. r.ip = i
  OBVIOUS
<1>2. [r EXCEPT !["ip"] = i + 1, !["locals"] = l, !["args"] = a]
        = [ip |-> i + 1, args |-> a, locals |-> l, opnds |-> z, self |-> s]
  OBVIOUS
<1>3. [r EXCEPT !.ip = @ + 1, !.locals = l, !.args = a]
        = [r EXCEPT !["ip"] = i + 1, !["locals"] = l, !["args"] = a]
  BY <1>1
<1> QED
  BY <1>2, <1>3 DEF Assigning

LEMMA FramedAssigned ==
  ASSUME NEW i, NEW st, NEW n, NEW b, NEW l, NEW e, NEW self, NEW r, NEW tt, NEW ls, NEW as,
         r = Framed(i, st, n, b, l, e, self),
         Segment(tt, b + l, e) = Segment(st, b + l, e),
         ls = Segment(tt, b, b + l), as = Segment(tt, b - n, b)
  PROVE  Assigning(r, ls, as) = Framed(i + 1, tt, n, b, l, e, self)
<1> DEFINE x == Segment(st, b - n, b)
           y == Segment(st, b, b + l)
           z == Segment(st, b + l, e)
<1>1. r = [ip |-> i, args |-> x, locals |-> y, opnds |-> z, self |-> self]
  BY DEF Framed
<1>2. Framed(i + 1, tt, n, b, l, e, self) = [ip |-> i + 1, args |-> as, locals |-> ls,
                                             opnds |-> z, self |-> self]
  BY DEF Framed
<1> HIDE DEF x, y, z
<1> QED
  BY <1>1, <1>2, AssignedRecord

WithElems(h, r, new) == [h EXCEPT ![r].elems = new]
WithObject(h, r, x) == [h EXCEPT ![r] = x]
WithField(x, m) == [x EXCEPT !.elems = m]

LEMMA ElemsReplaced ==
  ASSUME NEW h, NEW r, NEW m
  PROVE  WithElems(h, r, m) = WithObject(h, r, WithField(h[r], m))
BY DEF WithElems, WithObject, WithField

LEMMA ElementAssigned ==
  ASSUME NEW h, NEW r, NEW k, NEW v
  PROVE  Assigned(h, r, k, v) = WithObject(h, r, WithField(h[r], Changed(h[r].elems, k, v)))
BY DEF Assigned, WithObject, WithField, Changed

LEMMA AssignedElements ==
  ASSUME NEW h, NEW r, NEW k, NEW v
  PROVE  Assigned(h, r, k, v) = WithElems(h, r, Changed(h[r].elems, k, v))
BY ElemsReplaced, ElementAssigned

(* The variables and the globals after a store to slot.                      *)
LEMMA SlotStored ==
  ASSUME RefInv, prog \in Sound, status = "running", UNCHANGED <<prog, out>>,
         I.op \in Stores, NEW slot \in Slots, NEW v, v = Top(1),
         stack' = [stack EXCEPT ![slot] = v], ip' = ip + 1,
         UNCHANGED <<sp, heap, registers, status>>,
         slot < P.globals \/ slot >= base - args,
         NEW ls, NEW as, NEW gs,
         slot < base + L,
         Segment(stack', base, base + L) = ls, Segment(stack', base - args, base) = as,
         Segment(stack', 0, P.globals) = gs
  PROVE  /\ Machine!Resume(Assigning(Now, ls, as))
         /\ Glob' = gs
<1>1. /\ TypeOK /\ L \in Nat /\ base \in Nat /\ args \in Nat /\ sp \in Nat /\ Floor \in Nat
      /\ Floor <= base - args /\ P.globals \in Nat /\ P.globals <= Floor
      /\ STACK_MAX_SIZE \in Nat /\ sp <= STACK_MAX_SIZE /\ base + L <= sp
      /\ ip \in Reachable(P)
  BY RunningLayout
<1>2. I.op \in Sequential /\ I.op \notin Begins /\ ip + 1 \in Successors(P, ip)
  <2>1. I.op \in Sequential
    BY SequentialTable
  <2> QED
    BY <2>1, SequentialSuccessor DEF Sequential, I
<1>3. stack \in [Slots -> Value(Len(heap))]
  BY <1>1 DEF TypeOK
<1>4. \A j \in Slots : stack'[j] = IF j = slot THEN v ELSE stack[j]
  BY <1>3
<1>5. BelowArgsKept
  BY <1>1, <1>4 DEF BelowArgsKept, Slots
<1>6. LocalsAt(Depth)' = L
  BY <1>2, NextLocals DEF registers
<1>7. Segment(stack', base + L, sp) = Segment(stack, base + L, sp)
  <2> DEFINE lo == base + L
  <2>1. lo \in Int /\ sp \in Int /\ slot \in Int /\ slot < lo
    BY <1>1 DEF Slots
  <2>2. StoredIn(stack, stack', lo, sp, slot, v)
    BY <1>1, <1>4 DEF StoredIn, Slots
  <2> HIDE DEF lo
  <2>3. Segment(stack', lo, sp) = Segment(stack, lo, sp)
    BY <2>1, <2>2, SegmentMissed
  <2> QED
    BY <2>3 DEF lo
<1>8. Machine!Resume(Framed(ip', stack', args, base, L, sp, Self))
  <2>1. sp' = sp /\ base + L <= sp /\ status' = "running"
        /\ UNCHANGED <<prog, base, args, is_closure, frames>>
    BY <1>1 DEF registers
  <2> QED
    BY <1>1, <1>5, <1>6, <2>1, Resumes
<1>9. Assigning(Now, ls, as) = Framed(ip', stack', args, base, L, sp, Self)
  <2>1. PICK r : r = Now
    OBVIOUS
  <2>2. r = Framed(ip, stack, args, base, L, sp, Self)
    BY <2>1 DEF Now
  <2>a. ls = Segment(stack', base, base + L) /\ as = Segment(stack', base - args, base)
    OBVIOUS
  <2>3. Assigning(r, ls, as) = Framed(ip + 1, stack', args, base, L, sp, Self)
    BY <1>7, <2>2, <2>a, FramedAssigned
  <2> QED
    BY <2>1, <2>3
<1>10. Glob' = gs
  <2>1. Glob' = <<>> \o Segment(stack', 0, P.globals)
    BY DEF Glob, Slice, Segment, P
  <2>2. 0 \in Int /\ P.globals \in Int /\ 0 <= P.globals
    BY <1>1
  <2>3. <<>> \o Segment(stack', 0, P.globals) = Segment(stack', 0, P.globals)
    BY <2>2, SegmentIsSequence
  <2> QED
    BY <2>1, <2>3
<1> QED
  BY <1>8, <1>9, <1>10

(* What the abstract machine's Store asks for.                               *)
Stored(new) ==
  /\ Machine!Resume(Assigning(Now, IF I.op = "STL" THEN new ELSE Now.locals,
                                   IF I.op = "STA_" THEN new ELSE Now.args))
  /\ Glob' = IF I.op = "STG" THEN new ELSE Glob
  /\ heap' = IF I.op = "STC" THEN WithElems(heap, Self.val, new) ELSE heap
  /\ UNCHANGED <<out, status>>

LEMMA StoredRefines ==
  ASSUME RefInv, prog \in Sound, status = "running", UNCHANGED prog, I.op \in Stores,
         NEW vals, vals = Machine!Values(I.op),
         \/ UNCHANGED out /\ Stop("failed") /\ I.a + 1 \notin DOMAIN vals
         \/ I.a + 1 \in DOMAIN vals /\ Stored(Changed(vals, I.a + 1, Top(1)))
  PROVE  Machine!Next
<1>1. /\ Machine!Current = Now /\ Machine!I = I
  BY CurrentIs
<1>2. Machine!Running(Machine!Stores)
  BY <1>1 DEF Machine!Running, Machine!Stores, Stores
<1>3. CASE UNCHANGED out /\ Stop("failed") /\ I.a + 1 \notin DOMAIN vals
  <2>1. Machine!Stop("failed")
    BY <1>3, StopIsStop DEF Stop, memory
  <2>2. Machine!Store
    BY <1>1, <1>2, <1>3, <2>1 DEF Machine!Store
  <2> QED
    BY <2>2 DEF Machine!Next
<1>4. CASE I.a + 1 \in DOMAIN vals /\ Stored(Changed(vals, I.a + 1, Top(1)))
  <2>1. Machine!Operand = Top(1)
    <3>1. Popped(I) = 1 /\ I.op \notin Begins
      BY PoppedTable DEF Stores, Begins
    <3>2. 1 \in Nat /\ 1 <= Popped(I) /\ 1 # 0
      BY <3>1
    <3> QED
      BY <3>1, <3>2, PoppedOperands
  <2> DEFINE new == Changed(vals, I.a + 1, Top(1))
  <2>2. Stored(new)
    BY <1>4
  <2>3. Now.self = Self
    BY SelfIs
  <2>4. new = [Machine!Values(Machine!I.op) EXCEPT ![Machine!I.a + 1] = Machine!Operand]
    BY <1>1, <2>1 DEF Changed
  <2> HIDE DEF new
  <2>5. Machine!Resume([Machine!Current EXCEPT !.ip = @ + 1,
                           !.locals = IF Machine!I.op = "STL" THEN new ELSE @,
                           !.args   = IF Machine!I.op = "STA_" THEN new ELSE @])
    BY <1>1, <2>2 DEF Stored, Assigning
  <2>6. Machine!Store
    BY <1>1, <1>2, <1>4, <2>2, <2>3, <2>4, <2>5 DEF Stored, WithElems, Machine!Store, Glob
  <2> QED
    BY <2>6 DEF Machine!Next
<1> QED
  BY <1>3, <1>4

LEMMA StoredSlots ==
  ASSUME TypeOK, NEW slot \in Slots, NEW v, stack' = [stack EXCEPT ![slot] = v],
         NEW lo \in Nat, NEW hi \in Nat, hi <= STACK_MAX_SIZE
  PROVE  StoredIn(stack, stack', lo, hi, slot, v)
<1>1. stack \in [Slots -> Value(Len(heap))] /\ STACK_MAX_SIZE \in Nat
  BY BoundsAssumption DEF TypeOK
<1>2. \A j \in Slots : stack'[j] = IF j = slot THEN v ELSE stack[j]
  BY <1>1
<1> QED
  BY <1>1, <1>2 DEF StoredIn, Slots

(* How a store to a slot goes.                                               *)
StoresAt(slot) == /\ slot \in Slots
                  /\ stack' = [stack EXCEPT ![slot] = Top(1)]
                  /\ ip' = ip + 1
                  /\ UNCHANGED <<sp, heap, registers, status>>

LEMMA StoreSlotCases ==
  ASSUME RefInv, prog \in Sound, status = "running", I.op \in Stores,
         NEW slot, NEW legal, StoreSlot(slot, legal), legal => slot \in Slots,
         VERIFIED => legal
  PROVE  \/ ~ legal /\ Stop("failed")
         \/ legal /\ StoresAt(slot)
<1>1. I.op \notin Begins /\ Popped(I) = 1
  BY PoppedTable DEF Stores, Begins
<1>2. sp \in Nat /\ base \in Nat /\ L \in Nat /\ sp - Popped(I) >= base + L
  BY <1>1, RunningLayout
<1>3. ~ (sp < 1)
  BY <1>1, <1>2
<1>4. \/ ~ VERIFIED /\ ~ legal /\ Stop("failed")
      \/ (VERIFIED \/ legal) /\ slot \notin Slots
      \/ (VERIFIED \/ legal) /\ StoresAt(slot)
  BY <1>3 DEF StoreSlot, StoresAt
<1> QED
  BY <1>4

(* The three kinds of variables that live on the stack, after the store.     *)
LEMMA StoreGlobalRefines ==
  ASSUME RefInv, prog \in Sound, status = "running",
         UNCHANGED <<prog, out>>, StoreGlobal
  PROVE  Machine!Next
<1>1. I.op = "STG" /\ I.op \in Stores /\ StoreSlot(I.a, I.a \in 0 .. P.globals - 1)
  BY DEF StoreGlobal, At, Stores
<1>2. I.a \in Int /\ I.a \in 0 .. P.globals - 1 /\ I.op \notin Begins
  BY <1>1, IndexBounds
<1>3. /\ base \in Nat /\ args \in Nat /\ L \in Nat /\ base + L <= sp /\ sp <= STACK_MAX_SIZE
      /\ STACK_MAX_SIZE \in Nat /\ sp \in Nat /\ P.globals \in Nat /\ P.globals <= Floor
      /\ Floor \in Nat /\ Floor <= base - args /\ TypeOK
  BY RunningLayout
<1>4. I.a \in Slots
  BY <1>2, <1>3 DEF Slots
<1>5. StoresAt(I.a)
  <2>1. \/ ~ (I.a \in 0 .. P.globals - 1) /\ Stop("failed")
        \/ I.a \in 0 .. P.globals - 1 /\ StoresAt(I.a)
    BY <1>1, <1>2, <1>4, StoreSlotCases
  <2> QED
    BY <1>2, <2>1
<1> DEFINE v == Top(1)
           lo == base - args
           hi == base + L
           ls == Segment(stack, base, hi)
           as == Segment(stack, lo, base)
           g  == Segment(stack, 0, P.globals)
           gs == Changed(g, I.a + 1, v)
<1>6. /\ lo \in Nat /\ hi \in Nat /\ base \in Nat /\ lo <= base /\ base <= hi
      /\ hi <= STACK_MAX_SIZE /\ base <= STACK_MAX_SIZE /\ P.globals <= STACK_MAX_SIZE
      /\ I.a < lo /\ I.a < base /\ I.a < hi /\ 0 \in Nat
  BY <1>2, <1>3
<1>7. stack' = [stack EXCEPT ![I.a] = v] /\ ip' = ip + 1
      /\ UNCHANGED <<sp, heap, registers, status>>
  BY <1>5 DEF StoresAt
<1> HIDE DEF v, lo, hi
<1>8. StoredIn(stack, stack', base, hi, I.a, v) /\ StoredIn(stack, stack', lo, base, I.a, v)
      /\ StoredIn(stack, stack', 0, P.globals, I.a, v)
  BY <1>3, <1>4, <1>6, <1>7, StoredSlots
<1>9. Segment(stack', base, hi) = ls
  BY <1>2, <1>6, <1>8, SegmentMissed
<1>10. Segment(stack', lo, base) = as
  BY <1>2, <1>6, <1>8, SegmentMissed
<1>11. Segment(stack', 0, P.globals) = gs
  <2> DEFINE n == P.globals
             a == I.a
             k == I.a + 1
             z == 0
  <2>1. z \in Int /\ n \in Int /\ a \in Int /\ a = z + k - 1 /\ k \in Int /\ z <= a /\ a < n
    BY <1>2, <1>3
  <2>2. StoredIn(stack, stack', z, n, a, v)
    BY <1>8
  <2> HIDE DEF n, a, k, z
  <2>3. Segment(stack', z, n) = Changed(Segment(stack, z, n), k, v)
    BY <2>1, <2>2, SegmentStored
  <2> QED
    BY <2>3 DEF n, a, k, z
<1> HIDE DEF ls, as, gs
<1>12. Machine!Resume(Assigning(Now, ls, as)) /\ Glob' = gs
  <2>1. v = Top(1)
    BY DEF v
  <2>2. Segment(stack', base, base + L) = ls
    BY <1>9 DEF hi
  <2>3. Segment(stack', base - args, base) = as
    BY <1>10 DEF lo
  <2>4. I.a < base + L /\ (I.a < P.globals \/ I.a >= base - args)
    BY <1>2, <1>3
  <2> QED
    BY <1>1, <1>4, <1>7, <1>11, <2>1, <2>2, <2>3, <2>4, SlotStored
<1>13. Now.locals = ls /\ Now.args = as
  BY FramedFields DEF Now, ls, as, lo, hi
<1>14. Machine!Values(I.op) = g
  BY <1>1, ValuesAre
<1>15. gs = Changed(Machine!Values(I.op), I.a + 1, Top(1))
  BY <1>14 DEF gs, v
<1>16. Stored(gs)
  BY <1>1, <1>7, <1>12, <1>13 DEF Stored
<1>17. I.a + 1 \in DOMAIN Machine!Values(I.op)
  BY <1>2, <1>3, <1>14 DEF Segment
<1> QED
  BY <1>1, <1>15, <1>16, <1>17, StoredRefines

LEMMA StoreLocalRefines ==
  ASSUME RefInv, prog \in Sound, status = "running",
         UNCHANGED <<prog, out>>, StoreLocal
  PROVE  Machine!Next
<1>1. I.op = "STL" /\ I.op \in Stores /\ StoreSlot(base + I.a, I.a \in 0 .. locals - 1)
  BY DEF StoreLocal, At, Stores
<1>2. I.a \in Int /\ I.a \in 0 .. L - 1 /\ I.op \notin Begins
  BY <1>1, IndexBounds
<1>3. /\ base \in Nat /\ args \in Nat /\ L \in Nat /\ base + L <= sp /\ sp <= STACK_MAX_SIZE
      /\ STACK_MAX_SIZE \in Nat /\ sp \in Nat /\ P.globals \in Nat /\ P.globals <= Floor
      /\ Floor \in Nat /\ Floor <= base - args /\ TypeOK /\ L = locals
  BY <1>2, RunningLayout
<1> DEFINE v == Top(1)
           x == base + I.a
           lo == base - args
           hi == base + L
           k == I.a + 1
           ls == Changed(Segment(stack, base, hi), k, v)
           as == Segment(stack, lo, base)
           g  == Segment(stack, 0, P.globals)
<1>4. x \in Slots
  BY <1>2, <1>3 DEF Slots
<1>5. StoresAt(x)
  <2>1. \/ ~ (I.a \in 0 .. locals - 1) /\ Stop("failed")
        \/ I.a \in 0 .. locals - 1 /\ StoresAt(x)
    BY <1>1, <1>2, <1>3, <1>4, StoreSlotCases
  <2> QED
    BY <1>2, <1>3, <2>1
<1>6. /\ lo \in Nat /\ hi \in Nat /\ base \in Nat /\ lo <= base /\ base <= hi
      /\ hi <= STACK_MAX_SIZE /\ base <= STACK_MAX_SIZE /\ P.globals <= STACK_MAX_SIZE
      /\ x \in Int /\ base <= x /\ P.globals <= x /\ x < hi /\ 0 \in Nat /\ k \in Int
      /\ x = base + k - 1 /\ x >= base - args /\ x < base + L
  BY <1>2, <1>3
<1>7. stack' = [stack EXCEPT ![x] = v] /\ ip' = ip + 1
      /\ UNCHANGED <<sp, heap, registers, status>>
  BY <1>5 DEF StoresAt
<1> HIDE DEF v, x, lo, hi, k
<1>8. StoredIn(stack, stack', base, hi, x, v) /\ StoredIn(stack, stack', lo, base, x, v)
      /\ StoredIn(stack, stack', 0, P.globals, x, v)
  BY <1>3, <1>4, <1>6, <1>7, StoredSlots
<1>9. Segment(stack', base, hi) = ls
  BY <1>6, <1>8, SegmentStored
<1>10. Segment(stack', lo, base) = as
  BY <1>6, <1>8, SegmentMissed
<1>11. Segment(stack', 0, P.globals) = g
  BY <1>3, <1>6, <1>8, SegmentMissed
<1> HIDE DEF ls, as, g
<1>12. Machine!Resume(Assigning(Now, ls, as)) /\ Glob' = g
  <2>1. v = Top(1)
    BY DEF v
  <2>2. Segment(stack', base, base + L) = ls
    BY <1>9 DEF hi
  <2>3. Segment(stack', base - args, base) = as
    BY <1>10 DEF lo
  <2> QED
    BY <1>1, <1>4, <1>6, <1>7, <1>11, <2>1, <2>2, <2>3, SlotStored
<1>13. Now.args = as
  BY FramedFields DEF Now, as, lo
<1>14. Machine!Values(I.op) = Segment(stack, base, hi)
  BY <1>1, ValuesAre DEF hi
<1>15. ls = Changed(Machine!Values(I.op), I.a + 1, Top(1))
  BY <1>14 DEF ls, v, k
<1>16. Stored(ls)
  <2>1. Glob = g
    BY CurrentIs DEF g
  <2> QED
    BY <1>1, <1>7, <1>12, <1>13, <2>1 DEF Stored
<1>17. I.a + 1 \in DOMAIN Machine!Values(I.op)
  BY <1>2, <1>3, <1>14 DEF Segment, hi
<1> QED
  BY <1>1, <1>15, <1>16, <1>17, StoredRefines

LEMMA StoreArgRefines ==
  ASSUME RefInv, Disciplined, prog \in Sound, status = "running",
         UNCHANGED <<prog, out>>, StoreArg
  PROVE  Machine!Next
<1>1. I.op = "STA_" /\ I.op \in Stores
  BY DEF StoreArg, At, Stores
<1>2. I.a \in Int /\ I.a >= 0 /\ I.op \notin Begins /\ (VERIFIED => I.a < args)
  BY <1>1, IndexBounds DEF Disciplined
<1>3. /\ base \in Nat /\ args \in Nat /\ L \in Nat /\ base + L <= sp /\ sp <= STACK_MAX_SIZE
      /\ STACK_MAX_SIZE \in Nat /\ sp \in Nat /\ P.globals \in Nat /\ P.globals <= Floor
      /\ Floor \in Nat /\ Floor <= base - args /\ TypeOK
  BY RunningLayout
<1> DEFINE v == Top(1)
           x == ArgSlot(I.a)
           lo == base - args
           hi == base + L
           k == I.a + 1
           ls == Segment(stack, base, hi)
           as == Changed(Segment(stack, lo, base), k, v)
           g  == Segment(stack, 0, P.globals)
<1>14. Machine!Values(I.op) = Segment(stack, lo, base)
  BY <1>1, ValuesAre
<1>4. I.a \in 0 .. args - 1 => x \in Slots
  BY <1>2, <1>3 DEF Slots, ArgSlot
<1>a. StoreSlot(ArgSlot(I.a), I.a \in 0 .. args - 1)
  BY <1>2, <1>3, PassedIs DEF StoreArg, StoreSlot
<1>5. \/ ~ (I.a \in 0 .. args - 1) /\ Stop("failed")
      \/ I.a \in 0 .. args - 1 /\ StoresAt(x)
  <2>1. VERIFIED => I.a \in 0 .. args - 1
    BY <1>2, <1>3
  <2> QED
    BY <1>1, <1>a, <1>4, <2>1, StoreSlotCases
<1>6. I.a + 1 \in DOMAIN Machine!Values(I.op) <=> I.a \in 0 .. args - 1
  BY <1>2, <1>3, <1>14 DEF Segment
<1>7. CASE ~ (I.a \in 0 .. args - 1) /\ Stop("failed")
  <2>1. PICK vals : vals = Machine!Values(I.op)
    OBVIOUS
  <2> QED
    BY <1>1, <1>6, <1>7, <2>1, StoredRefines
<1>8. CASE I.a \in 0 .. args - 1 /\ StoresAt(x)
  <2>1. /\ lo \in Nat /\ hi \in Nat /\ base \in Nat /\ lo <= base /\ base <= hi
        /\ hi <= STACK_MAX_SIZE /\ base <= STACK_MAX_SIZE /\ P.globals <= STACK_MAX_SIZE
        /\ x \in Int /\ lo <= x /\ P.globals <= x /\ x < base /\ 0 \in Nat /\ k \in Int
        /\ x = lo + k - 1 /\ x >= base - args /\ x < base + L
    BY <1>2, <1>3, <1>8 DEF ArgSlot
  <2>2. stack' = [stack EXCEPT ![x] = v] /\ ip' = ip + 1
        /\ UNCHANGED <<sp, heap, registers, status>>
    BY <1>8 DEF StoresAt
  <2>3. x \in Slots
    BY <1>4, <1>8
  <2> HIDE DEF v, x, lo, hi, k
  <2>4. StoredIn(stack, stack', base, hi, x, v) /\ StoredIn(stack, stack', lo, base, x, v)
        /\ StoredIn(stack, stack', 0, P.globals, x, v)
    BY <1>3, <2>1, <2>2, <2>3, StoredSlots
  <2>5. Segment(stack', base, hi) = ls
    BY <2>1, <2>4, SegmentMissed
  <2>6. Segment(stack', lo, base) = as
    BY <2>1, <2>4, SegmentStored
  <2>7. Segment(stack', 0, P.globals) = g
    BY <1>3, <2>1, <2>4, SegmentMissed
  <2> HIDE DEF ls, as, g
  <2>8. Machine!Resume(Assigning(Now, ls, as)) /\ Glob' = g
    <3>1. v = Top(1)
      BY DEF v
    <3>2. Segment(stack', base, base + L) = ls
      BY <2>5 DEF hi
    <3>3. Segment(stack', base - args, base) = as
      BY <2>6 DEF lo
    <3> QED
      BY <1>1, <2>1, <2>2, <2>3, <2>7, <3>1, <3>2, <3>3, SlotStored
  <2>9. Now.locals = ls
    BY FramedFields DEF Now, ls, hi
  <2>10. as = Changed(Machine!Values(I.op), I.a + 1, Top(1))
    BY <1>14 DEF as, v, k, lo
  <2>11. Stored(as)
    <3>1. Glob = g
      BY CurrentIs DEF g
    <3> QED
      BY <1>1, <2>2, <2>8, <2>9, <3>1 DEF Stored
  <2>12. I.a + 1 \in DOMAIN Machine!Values(I.op)
    BY <1>6, <1>8
  <2> QED
    BY <1>1, <2>10, <2>11, <2>12, StoredRefines
<1> QED
  BY <1>5, <1>7, <1>8

(* A value popped and pushed again.                                          *)
LEMMA TopBack ==
  ASSUME RefInv, prog \in Sound, status = "running", I.op \notin Begins, Popped(I) >= 1
  PROVE  /\ Machine!Under(Now, 1) \o <<Top(1)>> = Now.opnds
         /\ Append(Machine!Under(Now, 1), Top(1)) = Now.opnds
<1> DEFINE lo == base + L
           hi == sp - 1
<1>1. lo \in Int /\ hi \in Int /\ sp \in Int /\ lo <= hi /\ hi + 1 = sp /\ Popped(I) \in Nat
  <2>1. Popped(I) \in Nat
    BY RunningFacts DEF RefInv, ClosureInv
  <2> QED
    BY <2>1, RunningLayout
<1>2. Machine!Under(Now, 1) = Segment(stack, lo, hi)
  <2>1. 1 \in Nat /\ 1 <= Popped(I)
    BY <1>1
  <2> QED
    BY <2>1, PoppedOperands
<1>3. Now.opnds = Segment(stack, lo, sp)
  BY FramedFields DEF Now
<1>4. Top(1) = stack[hi]
  BY DEF Top
<1> HIDE DEF lo, hi
<1>5. Append(Segment(stack, lo, hi), stack[hi]) = Segment(stack, lo, sp)
  BY <1>1, SegmentAppend
<1>6. Segment(stack, lo, hi) \in Seq(Cells(stack, lo, hi))
  BY <1>1, SegmentIsSequence
<1>7. Segment(stack, lo, hi) \o <<Top(1)>> = Append(Segment(stack, lo, hi), Top(1))
  BY <1>6, PushedOne
<1> QED
  BY <1>2, <1>3, <1>4, <1>5, <1>7

(* An activation that keeps what it holds and steps on.                      *)
LEMMA SteppedOn ==
  ASSUME NEW i, NEW x, NEW y, NEW z, NEW s, NEW r,
         r = [ip |-> i, args |-> x, locals |-> y, opnds |-> z, self |-> s]
  PROVE  Advanced(r, r.opnds) = Assigning(r, r.locals, r.args)
<1>1. r.args = x /\ r.locals = y /\ r.opnds = z
  OBVIOUS
<1>2. Advanced(r, z) = [ip |-> i + 1, args |-> x, locals |-> y, opnds |-> z, self |-> s]
  BY MovedRecord
<1>3. Assigning(r, y, x) = [ip |-> i + 1, args |-> x, locals |-> y, opnds |-> z, self |-> s]
  BY AssignedRecord
<1> QED
  BY <1>1, <1>2, <1>3

LEMMA StoreCapturedRefines ==
  ASSUME RefInv, Disciplined, prog \in Sound, VERIFIED => prog \in Bounded,
         status = "running", UNCHANGED <<prog, out>>, StoreCaptured
  PROVE  Machine!Next
<1> DEFINE h == Assigned(heap, stack[ClosureSlot].val, I.a + 1, Top(1))
           o == Pushes(<<Top(1)>>, h)
<1>1. I.op = "STC" /\ I.op \in Stores /\ WithCapture(I.a, Operate(1, o))
  BY DEF StoreCaptured, At, Stores
<1>2. Popped(I) = 1 /\ Pushed(I) = 1 /\ I.op \in Sequential /\ I.op \notin Begins
  <2>1. I.op \in Sequential
    BY <1>1, SequentialTable
  <2> QED
    BY <1>1, <2>1, PoppedTable, PushedTable DEF Sequential
<1>3. Listed(o) /\ o.ok /\ o.push = <<Top(1)>> /\ o.heap = h /\ Len(o.push) = Pushed(I)
  <2>1. Listed(o)
    BY ListedOutcomes
  <2> QED
    BY <1>2, <2>1 DEF Pushes
<1> HIDE DEF h, o
<1>4. \/ Stop("failed") /\ I.a + 1 \notin DOMAIN Machine!Values(I.op)
      \/ /\ Operate(1, o) /\ I.a + 1 \in DOMAIN Machine!Values(I.op)
         /\ Machine!Values(I.op) = heap[Self.val].elems
         /\ Self = stack[ClosureSlot]
  <2> DEFINE action == Operate(1, o)
  <2>1. WithCapture(I.a, action)
    BY <1>1
  <2> HIDE DEF action
  <2>2. \/ Stop("failed") /\ I.a + 1 \notin DOMAIN Machine!Values(I.op)
        \/ /\ action /\ I.a + 1 \in DOMAIN Machine!Values(I.op)
           /\ Machine!Values(I.op) = heap[Self.val].elems
           /\ Self = stack[ClosureSlot]
    BY <1>1, <2>1, CaptureCases
  <2> QED
    BY <2>2 DEF action
<1>5. PICK vals : vals = Machine!Values(I.op)
  OBVIOUS
<1>6. CASE Stop("failed") /\ I.a + 1 \notin DOMAIN Machine!Values(I.op)
  BY <1>1, <1>5, <1>6, StoredRefines
<1>7. CASE /\ Operate(1, o) /\ I.a + 1 \in DOMAIN Machine!Values(I.op)
           /\ Machine!Values(I.op) = heap[Self.val].elems
           /\ Self = stack[ClosureSlot]
  <2>1. Operate(Popped(I), o)
    BY <1>2, <1>7
  <2>2. Stop("exhausted") \/ Advances(o)
    BY <1>2, <1>3, <2>1, OperateCases
  <2>3. CASE Stop("exhausted")
    BY <2>3, ExhaustIs
  <2>4. CASE Advances(o)
    <3> DEFINE new == Changed(vals, I.a + 1, Top(1))
    <3>1. PICK r : r = Now
      OBVIOUS
    <3>2. Machine!Under(Now, 1) \o <<Top(1)>> = r.opnds
      <4>1. Popped(I) >= 1
        BY <1>2
      <4> QED
        BY <1>2, <3>1, <4>1, TopBack
    <3>3. Machine!Resume(Advanced(r, r.opnds))
      BY <1>2, <1>3, <2>4, <3>1, <3>2 DEF Advances, Advanced
    <3>4. Advanced(r, r.opnds) = Assigning(r, r.locals, r.args)
      <4>1. PICK x, y, z : x = Segment(stack, base - args, base)
                           /\ y = Segment(stack, base, base + L) /\ z = Segment(stack, base + L, sp)
        OBVIOUS
      <4>2. r = [ip |-> ip, args |-> x, locals |-> y, opnds |-> z, self |-> Self]
        BY <3>1, <4>1 DEF Now, Framed
      <4> QED
        BY <4>2, SteppedOn
    <3>5. heap' = h /\ Glob' = Glob /\ status' = "running"
      BY <1>3, <2>4 DEF Advances
    <3>6. h = WithElems(heap, Self.val, new)
      BY <1>5, <1>7, AssignedElements DEF h
    <3>7. Stored(new)
      BY <1>1, <3>1, <3>3, <3>4, <3>5, <3>6 DEF Stored
    <3> QED
      BY <1>1, <1>5, <1>7, <3>7, StoredRefines
  <2> QED
    BY <2>2, <2>3, <2>4
<1> QED
  BY <1>4, <1>6, <1>7

LEMMA VariableRefines ==
  ASSUME RefInv, Disciplined, prog \in Sound, VERIFIED => prog \in Bounded,
         status = "running", UNCHANGED <<prog, out>>, Variable
  PROVE  Machine!Next
BY LoadGlobalRefines, LoadLocalRefines, LoadArgRefines, LoadCapturedRefines,
   StoreGlobalRefines, StoreLocalRefines, StoreArgRefines, StoreCapturedRefines DEF Variable

-----------------------------------------------------------------------------
(***************************************************************************)
(* Jumps and branches.                                                     *)
(***************************************************************************)

Pointed(r, t)     == [r EXCEPT !.ip = t]
Branched(r, u, t) == [r EXCEPT !.opnds = u, !.ip = t]

LEMMA PointedRecord ==
  ASSUME NEW i, NEW x, NEW y, NEW z, NEW s, NEW t, NEW u, NEW r,
         r = [ip |-> i, args |-> x, locals |-> y, opnds |-> z, self |-> s]
  PROVE  /\ Pointed(r, t) = [ip |-> t, args |-> x, locals |-> y, opnds |-> z, self |-> s]
         /\ Branched(r, u, t) = [ip |-> t, args |-> x, locals |-> y, opnds |-> u, self |-> s]
<1>1. [r EXCEPT !["ip"] = t] = [ip |-> t, args |-> x, locals |-> y, opnds |-> z, self |-> s]
  OBVIOUS
<1>2. [r EXCEPT !["opnds"] = u, !["ip"] = t]
        = [ip |-> t, args |-> x, locals |-> y, opnds |-> u, self |-> s]
  OBVIOUS
<1>3. Pointed(r, t) = [r EXCEPT !["ip"] = t]
  BY DEF Pointed
<1>4. Branched(r, u, t) = [r EXCEPT !["opnds"] = u, !["ip"] = t]
  BY DEF Branched
<1> QED
  BY <1>1, <1>2, <1>3, <1>4

LEMMA FramedPointed ==
  ASSUME NEW i, NEW st, NEW n, NEW b, NEW l, NEW e, NEW self, NEW r, NEW t,
         r = Framed(i, st, n, b, l, e, self)
  PROVE  Pointed(r, t) = Framed(t, st, n, b, l, e, self)
<1> DEFINE x == Segment(st, b - n, b)
           y == Segment(st, b, b + l)
           z == Segment(st, b + l, e)
<1>1. r = [ip |-> i, args |-> x, locals |-> y, opnds |-> z, self |-> self]
  BY DEF Framed
<1>2. Framed(t, st, n, b, l, e, self) = [ip |-> t, args |-> x, locals |-> y, opnds |-> z,
                                         self |-> self]
  BY DEF Framed
<1> HIDE DEF x, y, z
<1> QED
  BY <1>1, <1>2, PointedRecord

LEMMA FramedBranched ==
  ASSUME NEW i, NEW st, NEW n, NEW b, NEW l, NEW e, NEW f, NEW self, NEW r, NEW t, NEW u,
         r = Framed(i, st, n, b, l, e, self), u = Segment(st, b + l, f)
  PROVE  Branched(r, u, t) = Framed(t, st, n, b, l, f, self)
<1> DEFINE x == Segment(st, b - n, b)
           y == Segment(st, b, b + l)
           z == Segment(st, b + l, e)
<1>1. r = [ip |-> i, args |-> x, locals |-> y, opnds |-> z, self |-> self]
  BY DEF Framed
<1>2. Framed(t, st, n, b, l, f, self) = [ip |-> t, args |-> x, locals |-> y, opnds |-> u,
                                         self |-> self]
  BY DEF Framed
<1> HIDE DEF x, y, z
<1> QED
  BY <1>1, <1>2, PointedRecord

(* A step that writes no slot leaves what lies below the arguments, and the  *)
(* globals.                                                                 *)
LEMMA NothingMoved ==
  ASSUME RefInv, prog \in Sound, status = "running", status' = "running",
         UNCHANGED <<prog, stack>>
  PROVE  BelowArgsKept /\ Glob' = Glob
<1>1. /\ P.globals \in Nat /\ P.globals <= STACK_MAX_SIZE /\ STACK_MAX_SIZE \in Nat
  <2>1. /\ P.globals \in Nat /\ P.globals <= Floor /\ Floor \in Nat /\ args \in Nat
        /\ base \in Nat /\ Floor <= base - args /\ L \in Nat /\ sp \in Nat
        /\ base + L <= sp /\ sp <= STACK_MAX_SIZE /\ STACK_MAX_SIZE \in Nat
    BY RunningLayout
  <2> QED
    BY <2>1
<1>2. \A j \in Slots : stack'[j] = stack[j]
  OBVIOUS
<1> QED
  BY <1>1, <1>2, GlobalsKept DEF BelowArgsKept

LEMMA JumpRefines ==
  ASSUME RefInv, prog \in Sound, status = "running", UNCHANGED <<prog, out>>, Jump
  PROVE  Machine!Next
<1>1. I.op = "JMP" /\ ip \in DOMAIN P.code
  BY DEF Jump, At
<1>2. /\ ip \in Reachable(P) /\ TypeOK /\ base \in Nat /\ L \in Nat /\ sp \in Nat
      /\ base + L <= sp
  BY RunningLayout
<1>3. I.a \in Successors(P, ip) /\ I.op \notin Begins
  BY <1>1 DEF Successors, I, Begins, Branches, Returns, NotImplemented, AddressOf
<1>4. I.a \in DOMAIN P.code
  <2>1. ReturnPoint(I.a)
    BY <1>2, <1>3, SuccessorHeight
  <2> QED
    BY <2>1 DEF ReturnPoint, Reachable
<1>5. GoTo(I.a)
  BY <1>4 DEF Jump
<1>6. ip' = I.a /\ UNCHANGED <<stack, sp, heap, base, args, is_closure, frames, locals, status>>
  BY <1>5 DEF GoTo, memory, registers
<1>7. LocalsAt(Depth)' = L
  <2>1. UNCHANGED <<prog, frames, locals>>
    BY <1>6
  <2> QED
    BY <1>3, <1>6, <2>1, NextLocals
<1>8. BelowArgsKept /\ Glob' = Glob
  <2>1. status' = "running" /\ UNCHANGED <<prog, stack>>
    BY <1>6
  <2> QED
    BY <2>1, NothingMoved
<1>9. Machine!Resume(Framed(ip', stack', args, base, L, sp, Self))
  <2>1. status' = "running" /\ sp' = sp /\ UNCHANGED <<prog, base, args, is_closure, frames>>
    BY <1>6
  <2> QED
    BY <1>2, <1>7, <1>8, <2>1, Resumes
<1>10. Pointed(Now, I.a) = Framed(ip', stack', args, base, L, sp, Self)
  <2>1. PICK r, a : r = Now /\ a = I.a
    OBVIOUS
  <2>2. r = Framed(ip, stack, args, base, L, sp, Self)
    BY <2>1 DEF Now
  <2>3. Pointed(r, a) = Framed(a, stack, args, base, L, sp, Self)
    BY <2>1, <2>2, FramedPointed
  <2> QED
    BY <1>6, <2>1, <2>3
<1>11. /\ Machine!Current = Now /\ Machine!I = I
  BY CurrentIs
<1>12. Machine!Jump
  BY <1>1, <1>6, <1>8, <1>9, <1>10, <1>11 DEF Machine!Jump, Machine!Running, Pointed, Glob
<1> QED
  BY <1>12 DEF Machine!Next

LEMMA BranchRefines ==
  ASSUME RefInv, prog \in Sound, status = "running", UNCHANGED <<prog, out>>, Branch
  PROVE  Machine!Next
<1>1. I.op \in Branches /\ ip \in DOMAIN P.code
  BY DEF Branch, At
<1>2. /\ ip \in Reachable(P) /\ TypeOK /\ base \in Nat /\ L \in Nat /\ sp \in Nat
      /\ base + L <= sp
  BY RunningLayout
<1>3. I.a \in Successors(P, ip) /\ ip + 1 \in Successors(P, ip) /\ I.op \notin Begins
  BY <1>1 DEF Successors, I, Begins, Branches, Returns, NotImplemented, AddressOf
<1>4. Popped(I) = 1
  BY <1>1, PoppedTable
<1>5. I.a \in DOMAIN P.code
  <2>1. ReturnPoint(I.a)
    BY <1>2, <1>3, SuccessorHeight
  <2> QED
    BY <2>1 DEF ReturnPoint, Reachable
<1>6. sp - 1 \in Nat /\ base + L <= sp - 1 /\ Machine!Operand = Top(1)
      /\ Machine!Under(Now, 1) = Segment(stack, base + L, sp - 1)
  <2>1. 1 \in Nat /\ 1 <= Popped(I) /\ 1 # 0
    BY <1>4
  <2> QED
    BY <1>3, <2>1, PoppedOperands
<1>7. /\ Machine!Current = Now /\ Machine!I = I /\ Machine!Running(Machine!Branches)
  <2>1. Machine!Current = Now /\ Machine!I = I
    BY CurrentIs
  <2> QED
    BY <1>1, <2>1 DEF Machine!Running, Machine!Branches, Branches
<1>8. CASE ~ UNBOXED(Top(1))
  <2>1. Stop("failed")
    BY <1>2, <1>6, <1>8 DEF Branch
  <2>2. Machine!Stop("failed")
    BY <2>1, StopIsStop DEF Stop, memory
  <2>3. Machine!Branch
    BY <1>6, <1>7, <1>8, <2>2 DEF Machine!Branch, Machine!UNBOXED, UNBOXED
  <2> QED
    BY <2>3 DEF Machine!Next
<1>9. CASE UNBOXED(Top(1))
  <2> DEFINE t == IF (Top(1).val = 0) = (I.op = "CJMPZ") THEN I.a ELSE ip + 1
  <2>1. ip' = t /\ sp' = sp - 1 /\ UNCHANGED <<stack, heap, registers, status>>
    BY <1>2, <1>5, <1>6, <1>9 DEF Branch
  <2>2. t \in Successors(P, ip)
    BY <1>3
  <2>3. UNCHANGED <<prog, stack, heap, base, args, is_closure, frames, locals, status>>
    BY <2>1 DEF registers
  <2>4. Now.ip = ip
    BY FramedFields DEF Now
  <2>5. Machine!Resume([Machine!Current EXCEPT !.opnds = Machine!Under(Machine!Current, 1),
               !.ip = IF (Machine!Operand.val = 0) = (Machine!I.op = "CJMPZ")
                        THEN Machine!I.a ELSE @ + 1])
    <3>1. LocalsAt(Depth)' = L
      <4>1. UNCHANGED <<prog, frames, locals>>
        BY <2>3
      <4> HIDE DEF t
      <4> QED
        BY <1>3, <2>1, <2>2, <4>1, NextLocals
    <3>2. BelowArgsKept
      <4>1. status' = "running" /\ UNCHANGED <<prog, stack>>
        BY <2>3
      <4> QED
        BY <4>1, NothingMoved
    <3>3. Machine!Resume(Framed(ip', stack', args, base, L, sp - 1, Self))
      <4> DEFINE e == sp - 1
      <4>1. status' = "running" /\ sp' = e /\ UNCHANGED <<prog, base, args, is_closure, frames>>
            /\ e \in Nat /\ base + L <= e
        BY <1>6, <2>1, <2>3
      <4> HIDE DEF e
      <4>2. Machine!Resume(Framed(ip', stack', args, base, L, e, Self))
        BY <1>2, <3>1, <3>2, <4>1, Resumes
      <4> QED
        BY <4>2 DEF e
    <3>4. Branched(Now, Machine!Under(Now, 1), t) = Framed(ip', stack', args, base, L, sp - 1, Self)
      <4> HIDE DEF t
      <4>1. PICK r, u, e : r = Now /\ u = Machine!Under(Now, 1) /\ e = sp - 1
        OBVIOUS
      <4>2. r = Framed(ip, stack, args, base, L, sp, Self) /\ u = Segment(stack, base + L, e)
        BY <1>6, <4>1 DEF Now
      <4>3. Branched(r, u, t) = Framed(t, stack, args, base, L, e, Self)
        BY <4>2, FramedBranched
      <4> QED
        BY <2>1, <2>3, <4>1, <4>3
    <3>5. Machine!Resume(Branched(Now, Machine!Under(Now, 1), t))
      BY <3>3, <3>4
    <3> QED
      BY <1>6, <1>7, <2>4, <3>5 DEF Branched
  <2>6. Glob' = Glob
    <3>1. status' = "running" /\ UNCHANGED <<prog, stack>>
      BY <2>3
    <3> QED
      BY <3>1, NothingMoved
  <2>7. Machine!Branch
    BY <1>6, <1>7, <1>9, <2>3, <2>5, <2>6 DEF Machine!Branch, Machine!UNBOXED, UNBOXED, Glob
  <2> QED
    BY <2>7 DEF Machine!Next
<1> QED
  BY <1>8, <1>9

-----------------------------------------------------------------------------
(***************************************************************************)
(* Refusals, and the opening of a frame.                                   *)
(***************************************************************************)

LEMMA RefusalRefines ==
  ASSUME RefInv, prog \in Sound, status = "running", UNCHANGED <<prog, out>>,
         FetchOutside \/ Unsupported \/ Fail
  PROVE  Machine!Next
<1>1. /\ ip \in Reachable(P) /\ TypeOK /\ sp \in Nat /\ base \in Nat /\ L \in Nat
      /\ (I.op \notin Begins => sp - Popped(I) >= base + L)
  BY RunningLayout
<1>2. ip \in DOMAIN P.code /\ I.op \in Opcodes
  <2>1. WellPlaced(P, ip)
    BY <1>1, ReachableInstruction
  <2>2. I.op \in Opcodes
    BY <2>1 DEF WellPlaced, I
  <2> QED
    BY <1>1, <2>2 DEF Reachable
<1>3. I.op \in NotImplemented \cup {"FAIL"} /\ Stop("failed")
  <2>1. CASE Fail
    <3>1. I.op = "FAIL" /\ Popped(I) = 1 /\ I.op \notin Begins
      BY <2>1, PoppedTable DEF Fail, At, Begins
    <3>2. ~ (sp < 1)
      BY <1>1, <3>1
    <3> QED
      BY <2>1, <3>1, <3>2 DEF Fail
  <2>2. CASE Unsupported
    BY <1>2, <2>2 DEF Unsupported
  <2> QED
    BY <1>2, <2>1, <2>2 DEF FetchOutside
<1>4. Machine!Stop("failed")
  BY <1>3, StopIsStop DEF Stop, memory
<1>5. Machine!I = I
  BY CurrentIs
<1>6. Machine!Refuse
  BY <1>3, <1>4, <1>5 DEF Machine!Refuse, Machine!Running, Machine!NotImplemented,
     Machine!AddressOf, NotImplemented, AddressOf
<1> QED
  BY <1>6 DEF Machine!Next

Opened(r, l) == [r EXCEPT !.locals = l, !.ip = @ + 1]

LEMMA OpenedRecord ==
  ASSUME NEW i, NEW x, NEW y, NEW z, NEW s, NEW l, NEW r,
         r = [ip |-> i, args |-> x, locals |-> y, opnds |-> z, self |-> s]
  PROVE  Opened(r, l) = [ip |-> i + 1, args |-> x, locals |-> l, opnds |-> z, self |-> s]
<1>1. r.ip = i
  OBVIOUS
<1>2. [r EXCEPT !["locals"] = l, !["ip"] = i + 1]
        = [ip |-> i + 1, args |-> x, locals |-> l, opnds |-> z, self |-> s]
  OBVIOUS
<1>3. [r EXCEPT !.locals = l, !.ip = @ + 1] = [r EXCEPT !["locals"] = l, !["ip"] = i + 1]
  BY <1>1
<1> QED
  BY <1>2, <1>3 DEF Opened

LEMMA BeginCases ==
  ASSUME RefInv, prog \in Sound, status = "running", Begin
  PROVE  \/ Stop("exhausted")
         \/ /\ locals' = Locals(I)
            /\ stack' = [j \in Slots |->
                         IF j \in sp .. sp + Locals(I) - 1 THEN Zero ELSE stack[j]]
            /\ sp' = sp + Locals(I) /\ sp + Locals(I) <= STACK_MAX_SIZE
            /\ ip' = ip + 1
            /\ UNCHANGED <<heap, base, args, captured, is_closure, frames, status>>
<1>1. I.op \in Begins
  BY DEF Begin, At
<1>2. /\ ip \in Reachable(P) /\ TypeOK /\ base \in Nat /\ sp = base /\ STACK_MAX_SIZE \in Nat
  BY <1>1, RunningLayout
<1>3. Locals(I) \in Nat /\ MaxDepth(I) \in Nat
  <2>1. I.b \in Nat
    BY <1>1, <1>2, ReachableInstruction DEF I, WellPlaced
  <2> QED
    BY <2>1 DEF Locals, MaxDepth, LOCALS_RANGE
<1>4. HasRoom => Fits(sp + Locals(I))
  BY <1>2, <1>3 DEF HasRoom, Fits
<1>5. CASE ~ Fits(sp + Locals(I))
  <2>1. Stop("exhausted")
    BY <1>4, <1>5 DEF Begin, PushFault
  <2> QED
    BY <2>1
<1>6. CASE Fits(sp + Locals(I))
  <2>1. sp + Locals(I) <= STACK_MAX_SIZE
    BY <1>6 DEF Fits
  <2> QED
    BY <1>6, <2>1 DEF Begin
<1> QED
  BY <1>5, <1>6

Filled(st, lo, hi, v) == \A j \in Int : lo <= j /\ j < hi => st[j] = v
Repeated(n, v) == [j \in 1 .. n |-> v]
Spans(lo, hi, n) == hi - lo = n

LEMMA SegmentAlike ==
  ASSUME NEW st, NEW lo \in Int, NEW hi \in Int, NEW n \in Nat, Spans(lo, hi, n), NEW v,
         Filled(st, lo, hi, v)
  PROVE  Segment(st, lo, hi) = Repeated(n, v)
<1>1. \A j \in 1 .. n : st[lo + j - 1] = v
  <2> TAKE j \in 1 .. n
  <2>1. lo + j - 1 \in Int /\ lo <= lo + j - 1 /\ lo + j - 1 < hi
    BY DEF Spans
  <2> QED
    BY <2>1 DEF Filled
<1> QED
  BY <1>1 DEF Segment, Repeated, Spans

LEMMA BeginRefines ==
  ASSUME RefInv, prog \in Sound, status = "running", UNCHANGED <<prog, out>>, Begin
  PROVE  Machine!Next
<1> DEFINE l == Locals(I)
           e == sp + l
<1>1. I.op \in Begins /\ ip \in DOMAIN P.code
  BY DEF Begin, At
<1>2. /\ ip \in Reachable(P) /\ TypeOK /\ base \in Nat /\ sp = base /\ STACK_MAX_SIZE \in Nat
      /\ L = 0 /\ args \in Nat /\ P.globals \in Nat /\ Floor \in Nat /\ P.globals <= Floor
      /\ Floor <= base - args /\ sp <= STACK_MAX_SIZE
  BY <1>1, RunningLayout
<1>3. l \in Nat
  <2>1. I.b \in Nat
    BY <1>1, <1>2, ReachableInstruction DEF I, WellPlaced
  <2> QED
    BY <2>1 DEF Locals, LOCALS_RANGE
<1>4. CASE Stop("exhausted")
  BY <1>4, ExhaustIs
<1>5. CASE /\ locals' = l
           /\ stack' = [j \in Slots |-> IF j \in sp .. sp + l - 1 THEN Zero ELSE stack[j]]
           /\ sp' = e /\ e <= STACK_MAX_SIZE
           /\ ip' = ip + 1
           /\ UNCHANGED <<heap, base, args, captured, is_closure, frames, status>>
  <2>1. /\ e \in Nat /\ base + l = e /\ base + L = sp /\ base - args \in Nat
        /\ base - args <= base
    BY <1>2, <1>3
  <2>2. /\ \A j \in Int : 0 <= j /\ j < base => stack'[j] = stack[j]
        /\ \A j \in Int : base <= j /\ j < e => stack'[j] = Zero
    BY <1>2, <1>3, <1>5 DEF Slots
  <2>3. BelowArgsKept /\ Glob' = Glob
    <3>1. \A j \in Slots : j < base => stack'[j] = stack[j]
      BY <2>2 DEF Slots
    <3>2. BelowArgsKept
      BY <1>2, <3>1 DEF BelowArgsKept, Slots
    <3>3. /\ \A j \in Slots : j < P.globals => stack'[j] = stack[j]
          /\ status' = "running" /\ P.globals <= STACK_MAX_SIZE
      BY <1>2, <1>5, <3>1 DEF Slots
    <3>4. Glob' = Glob
      BY <1>2, <3>3, GlobalsKept
    <3> QED
      BY <3>2, <3>4
  <2>4. LocalsAt(Depth)' = l
    <3>1. ip + 1 \in Successors(P, ip)
      BY <1>1, SequentialSuccessor DEF I
    <3>2. P.code[ip + 1].op \notin Begins
      <4>1. ReturnPoint(ip + 1)
        BY <1>2, <3>1, SuccessorHeight
      <4> QED
        BY <4>1 DEF ReturnPoint
    <3> QED
      BY <1>5, <3>2 DEF LocalsAt, IpAt, P, Depth
  <2>5. Machine!Resume(Framed(ip', stack', args, base, l, e, Self))
    <3>1. sp' = e /\ status' = "running" /\ base + l <= e
          /\ UNCHANGED <<prog, base, args, is_closure, frames>>
      BY <1>5, <2>1
    <3> HIDE DEF l, e
    <3> QED
      BY <1>3, <2>1, <2>3, <2>4, <3>1, Resumes
  <2>6. Opened(Now, [j \in 1 .. l |-> Zero]) = Framed(ip', stack', args, base, l, e, Self)
    <3> DEFINE lo == base - args
               x == Segment(stack, lo, base)
               zs == [j \in 1 .. l |-> Zero]
    <3>1. Segment(stack', lo, base) = x
      <4>1. lo \in Int /\ base \in Int /\ \A j \in Int : lo <= j /\ j < base => stack[j] = stack'[j]
        BY <1>2, <2>1, <2>2
      <4> HIDE DEF lo
      <4> QED
        BY <4>1, SegmentsEqual
    <3>2. Segment(stack', base, base + l) = zs
      <4>1. e \in Int /\ base \in Int /\ Spans(base, e, l)
        BY <1>2, <1>3, <2>1 DEF Spans
      <4> HIDE DEF l, e
      <4>2. Filled(stack', base, e, Zero)
        BY <2>2 DEF Filled
      <4>3. Segment(stack', base, e) = Repeated(l, Zero)
        BY <1>3, <4>1, <4>2, SegmentAlike
      <4>4. Segment(stack', base, base + l) = Repeated(l, Zero)
        BY <2>1, <4>3
      <4>5. Repeated(l, Zero) = zs
        BY DEF Repeated
      <4> QED
        BY <4>4, <4>5
    <3>3. Segment(stack', base + l, e) = <<>> /\ Segment(stack, base + L, sp) = <<>>
      <4>1. e \in Int /\ sp \in Int
        BY <1>2, <2>1
      <4> HIDE DEF e
      <4> QED
        BY <2>1, <4>1, SegmentEmpty
    <3>4. Now = [ip |-> ip, args |-> x, locals |-> Segment(stack, base, base + L),
                 opnds |-> <<>>, self |-> Self]
      BY <3>3 DEF Now, Framed
    <3>5. Framed(ip', stack', args, base, l, e, Self)
            = [ip |-> ip + 1, args |-> x, locals |-> zs, opnds |-> <<>>, self |-> Self]
      BY <1>5, <3>1, <3>2, <3>3 DEF Framed
    <3> HIDE DEF x, zs
    <3>6. Opened(Now, zs)
            = [ip |-> ip + 1, args |-> x, locals |-> zs, opnds |-> <<>>, self |-> Self]
      <4>1. PICK r, y, z : r = Now /\ y = Segment(stack, base, base + L) /\ z = <<>>
        OBVIOUS
      <4>2. r = [ip |-> ip, args |-> x, locals |-> y, opnds |-> z, self |-> Self]
        BY <3>4, <4>1
      <4>3. Opened(r, zs) = [ip |-> ip + 1, args |-> x, locals |-> zs, opnds |-> z, self |-> Self]
        BY <4>2, OpenedRecord
      <4> QED
        BY <4>1, <4>3
    <3> QED
      BY <3>5, <3>6 DEF zs
  <2>7. /\ Machine!Current = Now /\ Machine!I = I
    BY CurrentIs
  <2>8. Machine!Locals(I) = l
    BY DEF Machine!Locals, Locals, Machine!LOCALS_RANGE, LOCALS_RANGE
  <2>9. Machine!Running(Machine!Begins)
    BY <1>1, <2>7 DEF Machine!Running, Machine!Begins, Begins
  <2>10. Machine!Begin
    <3>1. Machine!Resume(Opened(Now, [j \in 1 .. l |-> Zero]))
      BY <2>5, <2>6
    <3>2. heap' = heap /\ status' = status
      BY <1>5
    <3> HIDE DEF l
    <3> QED
      BY <2>3, <2>7, <2>8, <2>9, <3>1, <3>2
      DEF Machine!Begin, Opened, Glob, Machine!Zero, Machine!IntValue, Zero, IntValue
  <2> QED
    BY <2>10 DEF Machine!Next
<1> QED
  BY <1>4, <1>5, BeginCases

-----------------------------------------------------------------------------
(***************************************************************************)
(* Closures are made of what the activation holds.                         *)
(***************************************************************************)

(* What a closure captures lies where the activation says it does.           *)
CapturesRight(c) == /\ c.kind \in 0 .. 3
                    /\ Capturable(c)
                    /\ \A r : Captured(r, c) = Machine!Sources(c)[c.m + 1]

LEMMA CaptureIsRight ==
  ASSUME RefInv, Disciplined, prog \in Sound, status = "running", I.op = "CLOSURE",
         NEW k \in 1 .. Len(I.caps)
  PROVE  CapturesRight(I.caps[k])
<1> DEFINE c == I.caps[k]
<1>1. /\ ip \in Reachable(P) /\ StackInv /\ TypeOK /\ Held /\ sp \in Nat /\ base \in Nat /\ args \in Nat
      /\ L \in Nat /\ base + L <= sp /\ sp <= STACK_MAX_SIZE /\ STACK_MAX_SIZE \in Nat
      /\ P.globals \in Nat /\ Floor \in Nat /\ P.globals <= Floor /\ Floor <= base - args
  BY RunningLayout
<1>2. I.op \notin Begins
  BY DEF Begins
<1>3. L = Locals(Header(ip))
  BY <1>2, RunningLayout
<1>4. I.caps \in Seq([kind : Int, m : Int])
  BY <1>1, ReachableInstruction DEF I, IsInstruction
<1>5. c.kind \in Int /\ c.m \in Int
  <2>1. c \in [kind : Int, m : Int]
    BY <1>4, SequenceElement
  <2> QED
    BY <2>1
<1>6. CaptureInRange(P, Header(ip), c)
  <2>1. WellPlaced(P, ip)
    BY <1>1, ReachableInstruction
  <2> QED
    BY <2>1 DEF WellPlaced, I, Header
<1>7. /\ c.kind = 2 => c.m < args
      /\ c.kind = 3 => is_closure /\ c.m < captured
  BY DEF Disciplined
<1> SUFFICES CapturesRight(c)
  OBVIOUS
<1> HIDE DEF c
<1>8. CASE c.kind = 0
  <2>1. c.m \in 0 .. P.globals - 1
    BY <1>6, <1>8 DEF CaptureInRange
  <2>2. CaptureSource(c) = c.m
    BY <1>8 DEF CaptureSource
  <2>3. c.m \in Slots /\ c.m # sp
    BY <1>1, <2>1 DEF Slots
  <2>4. Machine!Sources(c) = Segment(stack, 0, P.globals)
    BY <1>8, CurrentIs DEF Machine!Sources, Glob
  <2>5. Segment(stack, 0, P.globals)[c.m + 1] = stack[c.m]
    BY <1>1, <2>1 DEF Segment
  <2>6. Capturable(c)
    BY <1>8, <2>2, <2>3 DEF Capturable
  <2>7. \A r : Captured(r, c) = stack[CaptureSource(c)]
    BY <1>8, <2>2, <2>3 DEF Captured
  <2>8. stack[CaptureSource(c)] = Machine!Sources(c)[c.m + 1]
    BY <2>2, <2>4, <2>5
  <2>9. c.kind \in 0 .. 3
    BY <1>8
  <2> QED
    BY <2>6, <2>7, <2>8, <2>9 DEF CapturesRight
<1>9. CASE c.kind = 1
  <2>1. c.m \in 0 .. L - 1
    BY <1>3, <1>6, <1>9 DEF CaptureInRange
  <2>2. CaptureSource(c) = base + c.m
    BY <1>9 DEF CaptureSource
  <2>3. base + c.m \in Slots /\ base + c.m # sp
    BY <1>1, <2>1 DEF Slots
  <2>4. Machine!Sources(c) = Segment(stack, base, base + L)
    <3>1. Now.locals = Segment(stack, base, base + L)
      BY FramedFields DEF Now
    <3> QED
      BY <1>9, <3>1, CurrentIs DEF Machine!Sources
  <2>5. Segment(stack, base, base + L)[c.m + 1] = stack[base + c.m]
    BY <1>1, <2>1 DEF Segment
  <2>6. Capturable(c)
    BY <1>9, <2>2, <2>3 DEF Capturable
  <2>7. \A r : Captured(r, c) = stack[CaptureSource(c)]
    BY <1>9, <2>2, <2>3 DEF Captured
  <2>8. stack[CaptureSource(c)] = Machine!Sources(c)[c.m + 1]
    BY <2>2, <2>4, <2>5
  <2>9. c.kind \in 0 .. 3
    BY <1>9
  <2> QED
    BY <2>6, <2>7, <2>8, <2>9 DEF CapturesRight
<1>10. CASE c.kind = 2
  <2>1. c.m \in 0 .. args - 1
    <3>1. c.m \in 0 .. Header(ip).a - 1
      BY <1>6, <1>10 DEF CaptureInRange
    <3>2. c.m >= 0
      BY <1>5, <3>1
    <3> QED
      BY <1>1, <1>5, <1>7, <1>10, <3>2
  <2>2. CaptureSource(c) = base - args + c.m
    BY <1>10 DEF CaptureSource, ArgSlot
  <2>3. base - args + c.m \in Slots /\ base - args + c.m # sp
    BY <1>1, <2>1 DEF Slots
  <2>4. Machine!Sources(c) = Segment(stack, base - args, base)
    <3>1. Now.args = Segment(stack, base - args, base)
      BY FramedFields DEF Now
    <3> QED
      BY <1>10, <3>1, CurrentIs DEF Machine!Sources
  <2>5. Segment(stack, base - args, base)[c.m + 1] = stack[base - args + c.m]
    <3>1. /\ c.m + 1 \in 1 .. base - (base - args)
          /\ base - args + (c.m + 1) - 1 = base - args + c.m
      BY <1>1, <2>1
    <3> QED
      BY <3>1 DEF Segment
  <2>6. Capturable(c)
    BY <1>10, <2>2, <2>3 DEF Capturable
  <2>7. \A r : Captured(r, c) = stack[CaptureSource(c)]
    BY <1>10, <2>2, <2>3 DEF Captured
  <2>8. stack[CaptureSource(c)] = Machine!Sources(c)[c.m + 1]
    BY <2>2, <2>4, <2>5
  <2>9. c.kind \in 0 .. 3
    BY <1>10
  <2> QED
    BY <2>6, <2>7, <2>8, <2>9 DEF CapturesRight
<1>11. CASE c.kind = 3
  <2>1. is_closure /\ c.m \in 0 .. captured - 1
    <3>1. c.m >= 0
      BY <1>6, <1>11 DEF CaptureInRange
    <3>2. captured \in Int
      BY <1>1 DEF TypeOK
    <3> QED
      BY <1>5, <1>7, <1>11, <3>1, <3>2
  <2>2. HoldsCapture(c.m)
    BY <1>1, <1>5, <2>1, CapturesThere
  <2>3. Machine!Sources(c) = heap[Self.val].elems /\ Self = stack[ClosureSlot]
    BY <1>11, <2>1, SelfIs DEF Machine!Sources
  <2>4. Capture(c.m) = Machine!Sources(c)[c.m + 1]
    BY <2>3 DEF Capture
  <2>5. Capturable(c)
    BY <1>11, <2>2 DEF Capturable
  <2>6. \A r : Captured(r, c) = Capture(c.m)
    BY <1>11 DEF Captured
  <2>7. c.kind \in 0 .. 3
    BY <1>11
  <2> QED
    BY <2>4, <2>5, <2>6, <2>7 DEF CapturesRight
<1>12. c.kind \in {0, 1, 2, 3}
  BY <1>5, <1>6 DEF CaptureInRange
<1> QED
  BY <1>8, <1>9, <1>10, <1>11, <1>12

(* The values captured, by each of the two.                                  *)
CapturedHere  == [k \in 1 .. Len(I.caps) |-> Captured(Ref(Len(heap) + 1), I.caps[k])]
CapturedThere == [k \in DOMAIN I.caps |-> Machine!Sources(I.caps[k])[I.caps[k].m + 1]]

LEMMA SameCaptures ==
  ASSUME RefInv, Disciplined, prog \in Sound, status = "running", I.op = "CLOSURE"
  PROVE  CapturedHere = CapturedThere
<1>1. DOMAIN I.caps = 1 .. Len(I.caps)
  <2>1. ip \in Reachable(P) /\ TypeOK
    BY RunningLayout
  <2>2. I.caps \in Seq([kind : Int, m : Int])
    BY <2>1, ReachableInstruction DEF I, IsInstruction
  <2> QED
    BY <2>2
<1>2. \A k \in 1 .. Len(I.caps) :
        Captured(Ref(Len(heap) + 1), I.caps[k]) = Machine!Sources(I.caps[k])[I.caps[k].m + 1]
  <2> TAKE k \in 1 .. Len(I.caps)
  <2>1. CapturesRight(I.caps[k])
    BY CaptureIsRight
  <2> QED
    BY <2>1 DEF CapturesRight
<1> QED
  BY <1>1, <1>2 DEF CapturedHere, CapturedThere

LEMMA MakeClosureCases ==
  ASSUME RefInv, Disciplined, prog \in Sound, VERIFIED => prog \in Bounded,
         status = "running", MakeClosure
  PROVE  \/ Stop("exhausted")
         \/ Operate(0, Allocates(Closure(I.a, CapturedHere), heap))
<1>1. I.op = "CLOSURE" /\ ip \in DOMAIN P.code
  BY DEF MakeClosure, At
<1>2. I.op \notin Begins /\ Popped(I) = 0 /\ Pushed(I) = 1 /\ I.op \in Sequential
  BY <1>1, PoppedTable, PushedTable, SequentialTable DEF Begins
<1>3. /\ ip \in Reachable(P) /\ StackInv /\ TypeOK /\ sp \in Nat /\ STACK_MAX_SIZE \in Nat
  BY RunningLayout
<1>4. I.a \in DOMAIN P.code
  <2>1. WellPlaced(P, ip)
    BY <1>3, ReachableInstruction
  <2>2. IsEntry(P, I.a)
    BY <1>1, <2>1 DEF WellPlaced, I
  <2> QED
    BY <2>2 DEF IsEntry, Reachable
<1>a. ~ (I.b < 0)
  BY <1>1, <1>3, ReachableInstruction DEF WellPlaced, I
<1>5. \A k \in 1 .. Len(I.caps) : I.caps[k].kind \in 0 .. 3 /\ Capturable(I.caps[k])
  BY <1>1, CaptureIsRight DEF CapturesRight
<1>6. CASE sp >= STACK_MAX_SIZE
  <2>1. ~ VERIFIED
    <3> SUFFICES ASSUME VERIFIED PROVE FALSE
      OBVIOUS
    <3>1. ip + 1 \in Successors(P, ip)
      BY <1>2, SequentialSuccessor DEF I
    <3>2. sp + Pushed(I) - Popped(I) <= STACK_MAX_SIZE
      BY <1>2, <1>3, <3>1, NextHeightFits
    <3> QED
      BY <1>2, <1>3, <1>6, <3>2
  <2> QED
    BY <1>6, <1>a, <2>1 DEF MakeClosure, PushFault
<1>7. CASE ~ (sp >= STACK_MAX_SIZE)
  <2>1. Operate(0, Allocates(Closure(I.a,
            [k \in 1 .. Len(I.caps) |-> Captured(Ref(Len(heap) + 1), I.caps[k])]), heap))
    BY <1>4, <1>5, <1>7, <1>a DEF MakeClosure
  <2> QED
    BY <2>1 DEF CapturedHere
<1> QED
  BY <1>6, <1>7

LEMMA MakeClosureRefines ==
  ASSUME RefInv, Disciplined, prog \in Sound, VERIFIED => prog \in Bounded,
         status = "running", UNCHANGED <<prog, out>>, MakeClosure
  PROVE  Machine!Next
<1> DEFINE f == Closure(I.a, CapturedHere)
           r == Ref(Len(heap) + 1)
           o == Allocates(f, heap)
<1>1. I.op = "CLOSURE"
  BY DEF MakeClosure, At
<1>2. Popped(I) = 0 /\ Pushed(I) = 1 /\ I.op \in Sequential
  BY <1>1, PoppedTable, PushedTable, SequentialTable
<1>3. Stop("exhausted") \/ Operate(0, o)
  BY MakeClosureCases
<1>4. Listed(o) /\ o.ok /\ o.push = <<r>> /\ o.heap = Append(heap, f) /\ Len(o.push) = Pushed(I)
  <2>1. Listed(o)
    BY ListedOutcomes
  <2> QED
    BY <1>2, <2>1 DEF Allocates, Pushes
<1> HIDE DEF o
<1>5. CASE Stop("exhausted")
  BY <1>5, ExhaustIs
<1>6. CASE Operate(0, o)
  <2>1. Operate(Popped(I), o)
    BY <1>2, <1>6
  <2>2. Stop("exhausted") \/ Advances(o)
    BY <1>2, <1>4, <2>1, OperateCases
  <2>3. CASE Stop("exhausted")
    BY <2>3, ExhaustIs
  <2>4. CASE Advances(o)
    <3>1. /\ Machine!Current = Now /\ Machine!I = I
      BY CurrentIs
    <3> HIDE DEF r, f
    <3>2. Machine!Under(Now, 0) \o <<r>> = Append(Now.opnds, r)
      BY <1>2, OperandAdded
    <3>3. Machine!Resume([Now EXCEPT !.opnds = Append(@, r), !.ip = @ + 1])
      BY <1>2, <1>4, <2>4, <3>2 DEF Advances
    <3>4. heap' = Append(heap, f) /\ Glob' = Glob /\ status' = status
      BY <1>4, <2>4 DEF Advances
    <3>5. Machine!Running({"CLOSURE"})
      BY <1>1, <3>1 DEF Machine!Running
    <3>6. f = Machine!Closure(I.a, CapturedThere)
      BY <1>1, SameCaptures DEF f, Closure, Machine!Closure
    <3>7. r = Machine!Ref(Len(heap) + 1)
      BY DEF r, Ref, Machine!Ref
    <3>8. Machine!MakeClosure
      BY <3>1, <3>3, <3>4, <3>5, <3>6, <3>7 DEF Machine!MakeClosure, CapturedThere, Glob
    <3> QED
      BY <3>8 DEF Machine!Next
  <2> QED
    BY <2>2, <2>3, <2>4
<1> QED
  BY <1>3, <1>5, <1>6

-----------------------------------------------------------------------------
(***************************************************************************)
(* Calls.                                                                  *)
(***************************************************************************)

(* The callers' activations after a call: the last one has given its operands *)
(* away and waits behind the call.                                           *)
Suspended(a, n, u) == [a EXCEPT ![n].opnds = u, ![n].ip = @ + 1]
Tuple(a, n) == a = [k \in 1 .. n |-> a[k]]

LEMMA SuspendedIs ==
  ASSUME NEW a, NEW n \in DOMAIN a, NEW u
  PROVE  Suspended(a, n, u) = WithObject(a, n, Advanced(a[n], u))
BY DEF Suspended, WithObject, Advanced

LEMMA AppendIs ==
  ASSUME NEW a, NEW b, NEW n \in Nat, Tuple(a, n), Tuple(b, n + 1),
         \A k \in 1 .. n : b[k] = a[k]
  PROVE  b = Append(a, b[n + 1])
<1> DEFINE S == {b[k] : k \in 1 .. n + 1}
<1>0. \A k \in 1 .. n + 1 : b[k] \in S
  OBVIOUS
<1>2. b[n + 1] \in S
  OBVIOUS
<1>3. \A k \in 1 .. n + 1 : b[k] = IF k = n + 1 THEN b[n + 1] ELSE a[k]
  OBVIOUS
<1> HIDE DEF S
<1>1. a \in [1 .. n -> S] /\ b \in [1 .. n + 1 -> S]
  <2>1. \A k \in 1 .. n : a[k] \in S
    BY <1>0
  <2> QED
    BY <1>0, <2>1 DEF Tuple
<1>4. a \in Seq(S) /\ Len(a) = n /\ b \in Seq(S) /\ Len(b) = n + 1
  <2>1. n + 1 \in Nat
    OBVIOUS
  <2> QED
    BY <1>1, <2>1, FunctionIsSequence
<1>5. Append(a, b[n + 1]) \in Seq(S) /\ Len(Append(a, b[n + 1])) = n + 1
  BY <1>2, <1>4
<1>6. \A k \in 1 .. n + 1 : b[k] = Append(a, b[n + 1])[k]
  BY <1>2, <1>3, <1>4
<1> QED
  BY <1>4, <1>5, <1>6, SameElements

(* Activations b are a with the last one suspended and e entered above it.  *)
EntersFrom(a, b, n, u, e) ==
  /\ Tuple(a, n) /\ Tuple(b, n + 1)
  /\ \A k \in 1 .. n : k # n => b[k] = a[k]
  /\ b[n] = Advanced(a[n], u)
  /\ b[n + 1] = e

LEMMA EnteredActs ==
  ASSUME NEW a, NEW b, NEW n \in Nat, n # 0, NEW u, NEW e, EntersFrom(a, b, n, u, e)
  PROVE  b = Append(Suspended(a, n, u), e)
<1>0. /\ Tuple(a, n) /\ Tuple(b, n + 1)
      /\ \A k \in 1 .. n : k # n => b[k] = a[k]
      /\ b[n] = Advanced(a[n], u)
  BY DEF EntersFrom
<1>e. b[n + 1] = e
  BY DEF EntersFrom
<1> DEFINE c == Suspended(a, n, u)
<1>1. n \in DOMAIN a
  BY <1>0 DEF Tuple
<1>2. c = WithObject(a, n, Advanced(a[n], u))
  BY <1>1, SuspendedIs
<1> HIDE DEF c
<1>3. PICK x : x = Advanced(a[n], u)
  OBVIOUS
<1>4. Tuple(c, n) /\ \A k \in 1 .. n : c[k] = IF k = n THEN x ELSE a[k]
  BY <1>0, <1>2, <1>3 DEF WithObject, Tuple
<1>5. \A k \in 1 .. n : b[k] = c[k]
  BY <1>0, <1>3, <1>4
<1>6. b = Append(c, b[n + 1])
  BY <1>0, <1>4, <1>5, AppendIs
<1> QED
  BY <1>6, <1>e DEF c

LEMMA EnterRefines ==
  ASSUME RefInv, prog \in Sound, status = "running", status' = "running",
         UNCHANGED prog, I.op \notin Begins, ip + 1 \in Successors(P, ip),
         NEW l, IsEntry(P, l), NEW n \in Nat, NEW closure \in BOOLEAN, NEW nc,
         NEW p, p = Popped(I), p = n + (IF closure THEN 1 ELSE 0),
         EnterFunction(l, n, closure, nc),
         NEW self, self = IF closure THEN stack[sp - p] ELSE Zero
  PROVE  /\ Acts' = Append(Suspended(Acts, Len(Acts), Machine!Under(Now, p)),
                           Machine!Activation(l, Machine!Over(Now, n), self))
         /\ Glob' = Glob /\ heap' = heap
<1>0. PICK D \in Nat : D = Depth
  BY RunningLayout
<1>1. /\ frames' = Append(frames, SavedFrame)
      /\ ip' = l /\ is_closure' = closure /\ base' = sp /\ args' = n
      /\ locals' = 0 /\ UNCHANGED <<stack, sp, heap>>
  BY DEF EnterFunction, memory, Stop
<1>2. frames \in Seq(Frame) /\ Len(frames) = D /\ D # 0
  BY <1>0, RunningLayout DEF TypeOK, Depth
<1>3. /\ Len(frames') = D + 1
      /\ \A k \in 1 .. D : frames'[k] = frames[k]
      /\ frames'[D + 1] = SavedFrame
  BY <1>1, <1>2
<1>4. /\ SavedFrame.prev_ip = ip + 1 /\ SavedFrame.prev_base = base
      /\ SavedFrame.prev_args = args /\ SavedFrame.prev_locals = locals
      /\ SavedFrame.is_closure = is_closure
  BY DEF SavedFrame, Saved
<1>5. P' = P /\ Depth' = D + 1
  BY <1>3 DEF P, Depth
<1>6. /\ ip \in Reachable(P) /\ TypeOK /\ sp \in Nat /\ base \in Nat /\ args \in Nat /\ L \in Nat
      /\ base + L <= sp /\ sp <= STACK_MAX_SIZE /\ STACK_MAX_SIZE \in Nat
      /\ sp - p >= base + L /\ p \in Nat /\ n <= p /\ Floor \in Nat /\ Floor <= base - args
      /\ P.globals \in Nat /\ P.globals <= Floor /\ L = locals
  <2>1. p \in Nat /\ n <= p
    OBVIOUS
  <2> QED
    BY <2>1, RunningLayout
<1>7. Floor' = sp - p
  BY <1>1, <1>6 DEF Floor
<1>8. BelowArgsKept /\ CallersKept /\ Glob' = Glob
  <2>1. BelowArgsKept /\ Glob' = Glob
    BY <1>1, NothingMoved
  <2> QED
    BY <1>1, <2>1 DEF CallersKept
<1>9. ASSUME NEW k \in 1 .. D, k # D
      PROVE  ActivationAt(k)' = ActivationAt(k)
  <2>0. k + 1 \in 1 .. D /\ k # D + 1 /\ k \in 1 .. Depth /\ k # Depth
    BY <1>0, <1>9
  <2>1. IpAt(k)' = IpAt(k) /\ ArgsAt(k)' = ArgsAt(k) /\ Base(k)' = Base(k)
        /\ Runs(k)' = Runs(k) /\ FloorAt(k)' = FloorAt(k)
    BY <1>0, <1>3, <1>5, <2>0 DEF IpAt, ArgsAt, Base, Runs, FloorAt
  <2>2. LocalsAt(k)' = LocalsAt(k)
    BY <1>0, <1>3, <1>5, <2>0, <2>1 DEF LocalsAt
  <2>3. EndOf(k)' = EndOf(k)
    <3>1. FloorAt(k + 1)' = FloorAt(k + 1)
      <4>1. CASE k + 1 = D
        BY <1>0, <1>3, <1>4, <1>5, <1>6, <4>1 DEF FloorAt, Floor
      <4>2. CASE k + 1 # D
        <5>1. k + 2 \in 1 .. D /\ k + 1 # D + 1 /\ k + 2 = k + 1 + 1
          BY <2>0, <4>2
        <5> QED
          BY <1>0, <1>3, <1>5, <4>2, <5>1 DEF FloorAt
      <4> QED
        BY <4>1, <4>2
    <3> QED
      BY <1>0, <1>5, <2>0, <3>1 DEF EndOf
  <2> QED
    BY <1>8, <2>0, <2>1, <2>2, <2>3, OthersKept
<1>10. ActivationAt(D)' = Advanced(Now, Machine!Under(Now, p))
  <2> DEFINE e == sp - p
             i == ip + 1
             r == is_closure
             x == L
             f == Floor
  <2>0. D # D + 1 /\ D \in 1 .. D
    BY <1>2
  <2>1. /\ IpAt(D)' = i /\ ArgsAt(D)' = args /\ Base(D)' = base /\ Runs(D)' = r
        /\ FloorAt(D)' = Floor
    BY <1>3, <1>4, <1>5, <1>6, <2>0 DEF IpAt, ArgsAt, Base, Runs, FloorAt, Floor
  <2>2. LocalsAt(D)' = L
    <3>1. P.code[ip + 1].op \notin Begins
      <4>1. ReturnPoint(ip + 1)
        BY <1>6, SuccessorHeight
      <4> QED
        BY <4>1 DEF ReturnPoint
    <3> QED
      BY <1>3, <1>4, <1>5, <1>6, <2>0, <2>1, <3>1 DEF LocalsAt
  <2>3. EndOf(D)' = e
    BY <1>5, <1>7, <2>0 DEF EndOf, FloorAt
  <2>4. Becomes(D, i, args, base, x, e, r, f)
    BY <1>6, <2>1, <2>2, <2>3 DEF Becomes
  <2> HIDE DEF e, i, r, x, f
  <2>5. ActivationAt(D)' = Framed(i, stack', args, base, x, e, IF r THEN stack'[f] ELSE Zero)
    BY <2>4, ActivationNext
  <2>6. ActivationAt(D)' = Framed(ip + 1, stack, args, base, L, e, Self)
    BY <1>1, <2>5 DEF Self, r, i, x, f
  <2>7. Machine!Under(Now, p) = Segment(stack, base + L, e)
    <3>1. p \in Nat /\ p <= Popped(I)
      BY <1>6
    <3> QED
      BY <3>1, PoppedOperands DEF e
  <2>8. PICK q, u : q = Now /\ u = Machine!Under(Now, p)
    OBVIOUS
  <2>9. q = Framed(ip, stack, args, base, L, sp, Self) /\ u = Segment(stack, base + L, e)
    BY <2>7, <2>8 DEF Now
  <2>10. Advanced(q, u) = Framed(ip + 1, stack, args, base, L, e, Self)
    BY <2>9, FramedMoved
  <2> QED
    BY <2>6, <2>8, <2>10
<1>11. ActivationAt(D + 1)' = Machine!Activation(l, Machine!Over(Now, n), self)
  <2> DEFINE j == D + 1
             f == sp - p
  <2>1. /\ IpAt(j)' = l /\ ArgsAt(j)' = n /\ Base(j)' = sp /\ Runs(j)' = closure
        /\ FloorAt(j)' = f /\ EndOf(j)' = sp
    BY <1>1, <1>5, <1>7 DEF IpAt, ArgsAt, Base, Runs, FloorAt, EndOf
  <2>2. LocalsAt(j)' = 0
    BY <1>5, <2>1 DEF LocalsAt, IsEntry
  <2> DEFINE z == 0
  <2>3. sp + 0 = sp /\ sp + z <= sp /\ z \in Nat /\ sp \in Nat /\ LocalsAt(j)' = z
    BY <1>6, <2>2
  <2> HIDE DEF j, f, z
  <2>a. Becomes(j, l, n, sp, z, sp, closure, f)
    BY <2>1, <2>3 DEF Becomes
  <2>b. ActivationAt(j)' = Framed(l, stack', n, sp, z, sp, IF closure THEN stack'[f] ELSE Zero)
    BY <2>a, ActivationNext
  <2>4. ActivationAt(j)' = Framed(l, stack', n, sp, 0, sp, IF closure THEN stack'[f] ELSE Zero)
    BY <2>b DEF z
  <2>5. Segment(stack, sp, sp) = <<>>
    BY <1>6, SegmentEmpty
  <2>6. Machine!Over(Now, n) = Segment(stack, sp - n, sp)
    <3>1. n \in Nat /\ n <= Popped(I)
      BY <1>6
    <3> QED
      BY <3>1, PoppedOperands
  <2> QED
    BY <1>1, <2>3, <2>4, <2>5, <2>6 DEF Framed, Machine!Activation, j, f
<1>12. Acts' = [k \in 1 .. D + 1 |-> ActivationAt(k)'] /\ Len(Acts') = D + 1
  <2>1. D + 1 \in Nat
    OBVIOUS
  <2> QED
    BY <1>5, <2>1, ActsNext
<1>13. Acts = [k \in 1 .. D |-> ActivationAt(k)] /\ Len(Acts) = D
  BY <1>0, ActsAre
<1>14. PICK a, b, e, u : /\ a = Acts /\ b = Acts' /\ u = Machine!Under(Now, p)
                         /\ e = Machine!Activation(l, Machine!Over(Now, n), self)
  OBVIOUS
<1>15. Tuple(a, D) /\ Tuple(b, D + 1)
  BY <1>12, <1>13, <1>14 DEF Tuple
<1>16. \A k \in 1 .. D : k # D => b[k] = a[k]
  BY <1>9, <1>12, <1>13, <1>14
<1>17. b[D] = Advanced(a[D], u) /\ b[D + 1] = e
  <2>1. a[D] = Now
    BY <1>0, <1>14, CurrentIs
  <2>2. D \in 1 .. D + 1 /\ D + 1 \in 1 .. D + 1
    BY <1>2
  <2>3. b[D] = ActivationAt(D)' /\ b[D + 1] = ActivationAt(D + 1)'
    BY <1>12, <1>14, <2>2
  <2>4. b[D] = Advanced(a[D], u)
    BY <1>10, <1>14, <2>1, <2>3
  <2>5. b[D + 1] = e
    BY <1>11, <1>14, <2>3
  <2> QED
    BY <2>4, <2>5
<1>18. b = Append(Suspended(a, D, u), e)
  <2>1. EntersFrom(a, b, D, u, e)
    BY <1>15, <1>16, <1>17 DEF EntersFrom
  <2> QED
    BY <1>2, <2>1, EnteredActs
<1> QED
  BY <1>1, <1>8, <1>13, <1>14, <1>18

(* A call, seen from the callers' activations and the new one.               *)
EntersAbove(l, n, p, self) ==
  /\ Acts' = Append(Suspended(Acts, Len(Acts), Machine!Under(Now, p)),
                    Machine!Activation(l, Machine!Over(Now, n), self))
  /\ Glob' = Glob /\ heap' = heap

LEMMA EnterIs ==
  ASSUME RefInv, prog \in Sound, status = "running", UNCHANGED <<out, status>>,
         NEW l, NEW n, NEW p, NEW self, EntersAbove(l, n, p, self)
  PROVE  Machine!Enter(l, n, p, self)
<1>1. Machine!Current = Now
  BY CurrentIs
<1> QED
  BY <1>1 DEF EntersAbove, Machine!Enter, Suspended, Acts, Glob

LEMMA EnterCases ==
  ASSUME status = "running", NEW l, NEW n, NEW closure \in BOOLEAN, NEW nc,
         EnterFunction(l, n, closure, nc)
  PROVE  \/ Stop("exhausted")
         \/ status' = "running" /\ UNCHANGED status
<1>1. CASE Len(frames) >= CALL_STACK_MAX_SIZE
  BY <1>1 DEF EnterFunction
<1>2. CASE ~ (Len(frames) >= CALL_STACK_MAX_SIZE)
  <2>1. UNCHANGED <<memory, status>>
    BY <1>2 DEF EnterFunction
  <2> QED
    BY <2>1
<1> QED
  BY <1>1, <1>2

LEMMA CallRefines ==
  ASSUME RefInv, prog \in Sound, status = "running", UNCHANGED <<prog, out>>, Call
  PROVE  Machine!Next
<1>1. /\ I.op = "CALL" /\ ip \in DOMAIN P.code /\ EnterFunction(I.a, I.b, FALSE, 0)
  BY DEF Call, At
<1>2. CASE Stop("exhausted")
  BY <1>2, ExhaustIs
<1>3. CASE ~ Stop("exhausted")
  <2>1. status' = "running" /\ UNCHANGED status
    BY <1>1, <1>3, EnterCases
  <2>2. I.op \notin Begins /\ ip + 1 \in Successors(P, ip)
    <3>1. I.op \in Sequential /\ I.op \notin Begins
      BY <1>1, SequentialTable DEF Begins
    <3> QED
      BY <3>1, SequentialSuccessor DEF I
  <2>3. Popped(I) = I.b /\ I.b \in Nat
    <3>1. StackInv
      BY RunningLayout
    <3> QED
      BY <1>1, <3>1, RunningFacts, PoppedTable
  <2>4. IsEntry(P, I.a)
    <3>1. ip \in Reachable(P) /\ TypeOK
      BY RunningLayout
    <3> QED
      BY <1>1, <3>1, ReachableInstruction DEF WellPlaced, I
  <2> DEFINE l == I.a
             n == I.b
             p == I.b
             closure == FALSE
             self == Zero
  <2>5. /\ IsEntry(P, l) /\ n \in Nat /\ p = Popped(I) /\ p = n + (IF closure THEN 1 ELSE 0)
        /\ EnterFunction(l, n, closure, 0) /\ closure \in BOOLEAN
        /\ self = IF closure THEN stack[sp - p] ELSE Zero
    <3>1. p = n + 0
      BY <2>3
    <3>2. IsEntry(P, l) /\ n \in Nat /\ p = Popped(I) /\ EnterFunction(l, n, closure, 0)
      BY <1>1, <2>3, <2>4
    <3> QED
      BY <3>1, <3>2
  <2>6. UNCHANGED prog
    OBVIOUS
  <2> HIDE DEF l, n, p, closure, self
  <2>7. EntersAbove(l, n, p, self)
    BY <2>1, <2>2, <2>5, <2>6, EnterRefines DEF EntersAbove
  <2>8. Machine!Enter(l, n, p, self)
    BY <2>1, <2>7, EnterIs
  <2>9. Machine!I = I
    BY CurrentIs
  <2>10. Machine!Call
    BY <1>1, <2>8, <2>9, SameWords DEF Machine!Call, Machine!Running, l, n, p, self
  <2> QED
    BY <2>6, <2>10 DEF Machine!Next
<1> QED
  BY <1>2, <1>3

LEMMA CallClosureRefines ==
  ASSUME RefInv, prog \in Sound, status = "running", UNCHANGED <<prog, out>>, CallClosure
  PROVE  Machine!Next
<1> DEFINE slot == sp - I.a - 1
           c == heap[stack[slot].val]
<1>1. /\ I.op = "CALLC" /\ ip \in DOMAIN P.code
  BY DEF CallClosure, At
<1>2. I.op \notin Begins /\ ip + 1 \in Successors(P, ip)
  <2>1. I.op \in Sequential /\ I.op \notin Begins
    BY <1>1, SequentialTable DEF Begins
  <2> QED
    BY <2>1, SequentialSuccessor DEF I
<1>3. /\ sp \in Nat /\ base \in Nat /\ L \in Nat /\ sp - Popped(I) >= base + L
      /\ sp <= STACK_MAX_SIZE /\ STACK_MAX_SIZE \in Nat /\ TypeOK /\ StackInv
  BY <1>2, RunningLayout
<1>4. Popped(I) = I.a + 1 /\ I.a \in Nat
  BY <1>1, <1>3, CalledCount, PoppedTable
<1>5. slot \in Slots /\ slot = sp - Popped(I)
  BY <1>3, <1>4 DEF Slots
<1>6. Machine!Current = Now /\ Machine!I = I
  BY CurrentIs
<1>7. Machine!Over(Now, I.a + 1)[1] = stack[slot]
  <2> DEFINE k == I.a + 1
  <2>1. k \in Nat /\ k <= Popped(I) /\ 1 \in 1 .. k
    BY <1>4
  <2>2. Top(k - 1 + 1) = stack[slot]
    BY <1>3, <1>4 DEF Top
  <2> HIDE DEF k
  <2>3. \A j \in 1 .. k : Machine!Over(Now, k)[j] = Top(k - j + 1)
    BY <1>2, <2>1, PoppedOperands
  <2> QED
    BY <2>1, <2>2, <2>3 DEF k
<1>8. \A h, v, ts : Machine!IsA(h, v, ts) = IsA(h, v, ts)
  BY SameWords
<1>9. UNCHANGED prog
  OBVIOUS
<1>10. CASE ~ IsA(heap, stack[slot], {"CLOSURE"})
  <2>1. Stop("failed")
    BY <1>5, <1>10 DEF CallClosure
  <2>2. Machine!Stop("failed")
    BY <2>1, StopIsStop DEF Stop, memory
  <2>3. Machine!CallClosure
    BY <1>1, <1>6, <1>7, <1>8, <1>10, <2>2 DEF Machine!CallClosure, Machine!Running
  <2> QED
    BY <1>9, <2>3 DEF Machine!Next
<1>11. CASE IsA(heap, stack[slot], {"CLOSURE"})
  <2>1. EnterFunction(c.entry, I.a, TRUE, CapturedBy(c))
    BY <1>5, <1>11 DEF CallClosure
  <2>2. CASE Stop("exhausted")
    BY <2>2, ExhaustIs
  <2>3. CASE ~ Stop("exhausted")
    <3>1. status' = "running" /\ UNCHANGED status
      BY <2>1, <2>3, EnterCases
    <3>2. stack[slot].val \in 1 .. Len(heap) /\ c.type = "CLOSURE"
      BY <1>3, <1>5, <1>11, SlotTypes, OperandTypes, ValueCases DEF IsA
    <3>3. IsEntry(P, c.entry)
      <4>1. Enters(heap)
        BY <1>3, RunningFacts
      <4> QED
        BY <3>2, <4>1 DEF Enters
    <3> DEFINE l == c.entry
               n == I.a
               p == I.a + 1
               closure == TRUE
               self == stack[slot]
               nc == CapturedBy(c)
    <3>4. /\ IsEntry(P, l) /\ n \in Nat /\ p = Popped(I) /\ p = n + (IF closure THEN 1 ELSE 0)
          /\ EnterFunction(l, n, closure, nc) /\ closure \in BOOLEAN
          /\ self = IF closure THEN stack[sp - p] ELSE Zero
      BY <1>4, <1>5, <2>1, <3>3
    <3> HIDE DEF l, n, p, closure, self, nc
    <3>5. EntersAbove(l, n, p, self)
      BY <1>2, <1>9, <3>1, <3>4, EnterRefines DEF EntersAbove
    <3>6. Machine!Enter(l, n, p, self)
      BY <3>1, <3>5, EnterIs
    <3>7. Machine!Enter(heap[stack[slot].val].entry, I.a, I.a + 1, stack[slot])
      BY <3>6 DEF l, n, p, self
    <3>8. Machine!CallClosure
      BY <1>1, <1>6, <1>7, <1>8, <1>11, <3>7 DEF Machine!CallClosure, Machine!Running
    <3> QED
      BY <1>9, <3>8 DEF Machine!Next
  <2> QED
    BY <2>2, <2>3
<1> QED
  BY <1>10, <1>11

-----------------------------------------------------------------------------
(***************************************************************************)
(* Returns.                                                                *)
(***************************************************************************)

(* A result joins the operands of the activation it returns to.              *)
Joined(s, v)      == Append(s, v)
Given(r, v)       == [r EXCEPT !.opnds = Append(@, v)]
Returned(a, n, v) == [a EXCEPT ![n].opnds = Append(@, v)]

LEMMA GivenRecord ==
  ASSUME NEW i, NEW x, NEW y, NEW z, NEW s, NEW v, NEW r,
         r = [ip |-> i, args |-> x, locals |-> y, opnds |-> z, self |-> s]
  PROVE  Given(r, v)
           = [ip |-> i, args |-> x, locals |-> y, opnds |-> Joined(z, v), self |-> s]
<1>1. PICK w : w = Joined(z, v)
  OBVIOUS
<1>2. r.opnds = z
  OBVIOUS
<1>3. [r EXCEPT !["opnds"] = w]
        = [ip |-> i, args |-> x, locals |-> y, opnds |-> w, self |-> s]
  OBVIOUS
<1>4. [r EXCEPT !.opnds = Append(@, v)] = [r EXCEPT !["opnds"] = w]
  BY <1>1, <1>2 DEF Joined
<1> QED
  BY <1>1, <1>3, <1>4 DEF Given

LEMMA FramedGiven ==
  ASSUME NEW i, NEW st, NEW n, NEW b, NEW l, NEW e, NEW self, NEW r, NEW tt, NEW f, NEW v,
         r = Framed(i, st, n, b, l, e, self),
         Segment(tt, b + l, f) = Joined(Segment(st, b + l, e), v),
         Segment(tt, b - n, b) = Segment(st, b - n, b),
         Segment(tt, b, b + l) = Segment(st, b, b + l)
  PROVE  Given(r, v) = Framed(i, tt, n, b, l, f, self)
<1> DEFINE x == Segment(st, b - n, b)
           y == Segment(st, b, b + l)
           z == Segment(st, b + l, e)
<1>1. r = [ip |-> i, args |-> x, locals |-> y, opnds |-> z, self |-> self]
  BY DEF Framed
<1> DEFINE u == Segment(tt, b + l, f)
<1>2. Framed(i, tt, n, b, l, f, self) = [ip |-> i, args |-> x, locals |-> y,
                                         opnds |-> u, self |-> self]
  BY DEF Framed
<1>3. u = Joined(z, v)
  OBVIOUS
<1> HIDE DEF x, y, z, u
<1>4. Given(r, v) = [ip |-> i, args |-> x, locals |-> y, opnds |-> Joined(z, v),
                     self |-> self]
  BY <1>1, GivenRecord
<1> QED
  BY <1>2, <1>3, <1>4

LEMMA ReturnedIs ==
  ASSUME NEW a, NEW n \in DOMAIN a, NEW v
  PROVE  Returned(a, n, v) = WithObject(a, n, Given(a[n], v))
BY DEF Returned, WithObject, Given

(* Activations b are a without the last one, v added to the one below.       *)
LeavesTo(a, b, n, v) ==
  /\ Tuple(a, n + 1) /\ Tuple(b, n)
  /\ \A k \in 1 .. n : k # n => b[k] = a[k]
  /\ b[n] = Given(a[n], v)

Below(a) == SubSeq(a, 1, Len(a) - 1)

LEMMA BelowIs ==
  ASSUME NEW a, NEW n \in Nat, Tuple(a, n + 1)
  PROVE  /\ Tuple(Below(a), n) /\ Len(Below(a)) = n
         /\ \A k \in 1 .. n : Below(a)[k] = a[k]
<1> DEFINE S == {a[k] : k \in 1 .. n + 1}
<1>1. \A k \in 1 .. n + 1 : a[k] \in S
  OBVIOUS
<1> HIDE DEF S
<1>2. a \in [1 .. n + 1 -> S] /\ n + 1 \in Nat
  BY <1>1 DEF Tuple
<1>3. a \in Seq(S) /\ Len(a) = n + 1
  BY <1>2, FunctionIsSequence
<1>4. Below(a) \in Seq(S) /\ Len(Below(a)) = n
      /\ \A k \in 1 .. n : Below(a)[k] = a[k]
  <2>1. Len(a) # 0 /\ Len(a) - 1 = n
    BY <1>3
  <2>2. /\ Below(a) \in Seq(S)
        /\ Len(Below(a)) = Len(a) - 1
        /\ \A k \in 1 .. Len(Below(a)) : Below(a)[k] = a[k]
    BY <1>3, <2>1, FrontOfSequence DEF Below
  <2> QED
    BY <2>1, <2>2
<1> HIDE DEF S
<1>5. Tuple(Below(a), n)
  <2>1. PICK c : c = Below(a)
    OBVIOUS
  <2>2. c \in Seq(S) /\ Len(c) = n
    BY <1>4, <2>1
  <2>3. c = [k \in 1 .. n |-> c[k]]
    BY <2>2
  <2> QED
    BY <2>1, <2>3 DEF Tuple
<1> QED
  BY <1>4, <1>5

LEMMA ReturnedActs ==
  ASSUME NEW a, NEW b, NEW n \in Nat, n # 0, NEW v, LeavesTo(a, b, n, v)
  PROVE  b = Returned(Below(a), Len(Below(a)), v)
<1> DEFINE c == Below(a)
<1>0. /\ Tuple(a, n + 1) /\ Tuple(b, n)
      /\ \A k \in 1 .. n : k # n => b[k] = a[k]
      /\ b[n] = Given(a[n], v)
  BY DEF LeavesTo
<1>1. Tuple(c, n) /\ Len(c) = n /\ \A k \in 1 .. n : c[k] = a[k]
  BY <1>0, BelowIs
<1> HIDE DEF c
<1>2. n \in DOMAIN c
  BY <1>1 DEF Tuple
<1>3. Returned(c, n, v) = WithObject(c, n, Given(c[n], v))
  BY <1>2, ReturnedIs
<1>4. PICK x : x = Given(a[n], v)
  OBVIOUS
<1>5. c[n] = a[n]
  BY <1>1
<1>6. Returned(c, n, v) = WithObject(c, n, x)
  BY <1>3, <1>4, <1>5
<1>7. b = WithObject(c, n, x)
  BY <1>0, <1>1, <1>4 DEF WithObject, Tuple
<1> QED
  BY <1>1, <1>6, <1>7 DEF c

(* The result of an activation fits: the caller's frame holds it.            *)
LEMMA FloorFits ==
  ASSUME RefInv, prog \in Sound, status = "running", VERIFIED, prog \in Bounded
  PROVE  ~ (Floor >= STACK_MAX_SIZE)
<1>0. PICK D \in Nat : D = Depth
  BY RunningLayout
<1>1. /\ StackInv /\ TypeOK /\ D # 0 /\ STACK_MAX_SIZE \in Nat /\ Floor \in Nat
      /\ Floor = FloorAt(D)
  BY <1>0, RunningLayout
<1>2. CASE D = 1
  <2>1. Floor = P.globals
    BY <1>1, <1>2 DEF StackInv, Balanced
  <2>2. P.globals + 2 <= STACK_MAX_SIZE /\ P.globals \in Nat
    BY <1>1, LoadedProgram, SoundProgramFits
  <2> QED
    BY <1>1, <2>1, <2>2
<1>3. CASE D # 1
  <2> DEFINE i == frames[D].prev_ip
             b == Base(D - 1)
  <2>0. D \in 2 .. Depth /\ D \in 2 .. D
    BY <1>0, <1>1, <1>3
  <2>1. /\ i \in Reachable(P) /\ P.code[i].op \notin Begins
        /\ b + Height(i) = Floor + 1
    BY <1>1, <2>0 DEF StackInv, Balanced, ReturnPoint
  <2>2. RoomAt(b, i)
    BY <1>1, <2>0 DEF StackInv, Room
  <2>3. b \in Nat
    BY <1>0, <1>1, <1>3 DEF Base, StackInv, Counts
  <2> HIDE DEF i, b
  <2>4. /\ Height(i) \in Nat /\ Locals(Header(i)) \in Nat /\ MaxDepth(Header(i)) \in Nat
        /\ Height(i) <= Locals(Header(i)) + MaxDepth(Header(i))
    BY <1>1, <2>1, HeightBounded, HeightCoversOperands, ReachableInstruction
  <2> QED
    BY <1>1, <2>1, <2>2, <2>3, <2>4 DEF RoomAt
<1> QED
  BY <1>2, <1>3

(* The registers the caller gets back.                                       *)
Restores(f) ==
  /\ ip' = f.prev_ip /\ base' = f.prev_base /\ args' = f.prev_args
  /\ locals' = f.prev_locals /\ is_closure' = f.is_closure
  /\ frames' = SubSeq(frames, 1, Len(frames) - 1)
  /\ UNCHANGED status

LEMMA ReturnCases ==
  ASSUME RefInv, prog \in Sound, VERIFIED => prog \in Bounded, status = "running", Return
  PROVE  \/ Stop("exhausted")
         \/ Depth = 1 /\ status' = "halted" /\ UNCHANGED heap
         \/ /\ Depth # 1
            /\ stack' = [stack EXCEPT ![Floor] = Top(1)] /\ Floor \in Slots
            /\ sp' = Floor + 1 /\ UNCHANGED heap
            /\ Restores(frames[Len(frames)])
<1>1. I.op \in Returns
  BY DEF Return, At
<1>2. /\ TypeOK /\ Floor \in Nat /\ sp \in Nat /\ base \in Nat /\ L \in Nat
      /\ STACK_MAX_SIZE \in Nat /\ sp - Popped(I) >= base + L
  <2>1. I.op \notin Begins
    BY <1>1 DEF Returns, Begins
  <2> QED
    BY <2>1, RunningLayout
<1>3. Popped(I) = 1
  BY <1>1, PoppedTable
<1>4. ~ (sp < 1) /\ ~ (Floor < 0)
  BY <1>2, <1>3
<1>5. CASE Floor >= STACK_MAX_SIZE
  <2>1. ~ VERIFIED
    BY <1>5, FloorFits
  <2>2. Stop(PushFault)
    BY <1>4, <1>5 DEF Return
  <2> QED
    BY <2>1, <2>2 DEF PushFault
<1>6. CASE ~ (Floor >= STACK_MAX_SIZE)
  <2> DEFINE f == frames[Len(frames)]
  <2>1. Floor \in Slots
    BY <1>2, <1>6 DEF Slots
  <2>2. Len(frames) \in 1 .. Len(frames) /\ Len(frames) = Depth
    BY <1>2 DEF TypeOK, Depth
  <2>3. Outermost(f) <=> Depth = 1
    BY <1>2, <2>2 DEF TypeOK, Outermost
  <2>4. /\ stack' = [stack EXCEPT ![Floor] = Top(1)]
        /\ sp' = Floor + 1
        /\ UNCHANGED heap
    BY <1>4, <1>6 DEF Return
  <2>5. CASE Depth = 1
    <3>1. status' = "halted"
      BY <1>4, <1>6, <2>3, <2>5 DEF Return
    <3> QED
      BY <2>4, <2>5, <3>1
  <2>6. CASE Depth # 1
    <3>1. Restores(f)
      BY <1>4, <1>6, <2>3, <2>6 DEF Return, Restores
    <3> QED
      BY <2>1, <2>4, <2>6, <3>1
  <2> QED
    BY <2>5, <2>6
<1> QED
  BY <1>5, <1>6

ReturnsBelow == /\ Depth # 1
            /\ stack' = [stack EXCEPT ![Floor] = Top(1)] /\ Floor \in Slots
            /\ sp' = Floor + 1 /\ UNCHANGED heap
            /\ Restores(frames[Len(frames)])

(* Every activation but the running one is registered as it was.             *)
LEMMA CallerRegisters ==
  ASSUME RefInv, prog \in Sound, status = "running", UNCHANGED prog,
         NEW D \in Nat, D = Depth, D # 1, Restores(frames[Len(frames)]),
         NEW k \in 1 .. D - 1
  PROVE  /\ Depth' = D - 1
         /\ IpAt(k)' = IpAt(k) /\ ArgsAt(k)' = ArgsAt(k) /\ Base(k)' = Base(k)
         /\ LocalsAt(k)' = LocalsAt(k) /\ Runs(k)' = Runs(k) /\ FloorAt(k)' = FloorAt(k)
         /\ k # D - 1 => EndOf(k)' = EndOf(k)
         /\ EndOf(D - 1)' = sp' /\ EndOf(D - 1) = Floor
<1>1. frames \in Seq(Frame) /\ Len(frames) = D /\ D # 0
  BY RunningLayout DEF TypeOK, Depth
<1>2. /\ ip' = frames[D].prev_ip /\ base' = frames[D].prev_base
      /\ args' = frames[D].prev_args /\ locals' = frames[D].prev_locals
      /\ is_closure' = frames[D].is_closure
      /\ frames' = SubSeq(frames, 1, D - 1)
  BY <1>1 DEF Restores
<1>3. Len(frames') = D - 1 /\ \A j \in 1 .. D - 1 : frames'[j] = frames[j]
  BY <1>1, <1>2, FrontOfSequence
<1>4. P' = P /\ Depth' = D - 1
  BY <1>3 DEF P, Depth
<1>5. ASSUME NEW j \in 1 .. D - 1
      PROVE  /\ IpAt(j)' = IpAt(j) /\ ArgsAt(j)' = ArgsAt(j) /\ Base(j)' = Base(j)
             /\ Runs(j)' = Runs(j) /\ FloorAt(j)' = FloorAt(j)
             /\ LocalsAt(j)' = LocalsAt(j)
  <2>1. CASE j = D - 1
    <3>1. IpAt(j)' = IpAt(j) /\ ArgsAt(j)' = ArgsAt(j) /\ Base(j)' = Base(j)
          /\ Runs(j)' = Runs(j) /\ FloorAt(j)' = FloorAt(j)
      BY <1>1, <1>2, <1>4, <2>1 DEF Base, FloorAt, Floor, Runs, ArgsAt, IpAt
    <3> QED
      BY <1>1, <1>2, <1>4, <2>1, <3>1 DEF LocalsAt
  <2>2. CASE j # D - 1
    <3>1. j + 1 \in 1 .. D - 1 /\ j # D
      BY <2>2
    <3>2. IpAt(j)' = IpAt(j) /\ ArgsAt(j)' = ArgsAt(j) /\ Base(j)' = Base(j)
          /\ Runs(j)' = Runs(j) /\ FloorAt(j)' = FloorAt(j)
      BY <1>3, <1>4, <2>2, <3>1 DEF Base, FloorAt, Runs, ArgsAt, IpAt
    <3> QED
      BY <1>3, <1>4, <2>2, <3>1, <3>2 DEF LocalsAt
  <2> QED
    BY <2>1, <2>2
<1>6. k # D - 1 => EndOf(k)' = EndOf(k)
  <2> SUFFICES ASSUME k # D - 1 PROVE EndOf(k)' = EndOf(k)
    OBVIOUS
  <2>1. k + 1 \in 1 .. D - 1 /\ k # D
    OBVIOUS
  <2>2. FloorAt(k + 1)' = FloorAt(k + 1)
    BY <1>5, <2>1
  <2> QED
    BY <1>4, <2>1, <2>2 DEF EndOf
<1>7. EndOf(D - 1)' = sp'
  BY <1>4 DEF EndOf
<1>8. EndOf(D - 1) = Floor
  <2>1. D - 1 # D /\ D - 1 + 1 = D
    OBVIOUS
  <2> QED
    BY <2>1 DEF EndOf, FloorAt
<1> QED
  BY <1>4, <1>5, <1>6, <1>7, <1>8

LEMMA WrittenFloor ==
  ASSUME TypeOK, NEW f, f \in Slots, NEW v, stack' = [stack EXCEPT ![f] = v]
  PROVE  /\ stack'[f] = v
         /\ \A j \in Slots : j # f => stack'[j] = stack[j]
         /\ f \in Int /\ STACK_MAX_SIZE \in Nat /\ f < STACK_MAX_SIZE
<1>1. DOMAIN stack = Slots
  BY DEF TypeOK
<1>2. STACK_MAX_SIZE \in Nat
  BY BoundsAssumption
<1> QED
  BY <1>1, <1>2 DEF Slots

(* The caller goes on where it waited, with the result on top.               *)
LEMMA CallerResumes ==
  ASSUME RefInv, prog \in Sound, status = "running", UNCHANGED prog,
         NEW C \in Nat, C # 0, C + 1 = Depth, ReturnsBelow
  PROVE  ActivationAt(C)' = Given(ActivationAt(C), Top(1))
<1> DEFINE i == IpAt(C)
           b == Base(C)
           n == ArgsAt(C)
           l == LocalsAt(C)
           e == Floor
           f == FloorAt(C)
           r == Runs(C)
           v == Top(1)
<1>0. C \in 1 .. Depth /\ C # Depth
  OBVIOUS
<1>1. /\ b \in Nat /\ n \in Nat /\ l \in Nat /\ f \in Nat
      /\ P.globals \in Nat /\ P.globals <= f /\ f <= b - n
      /\ r => f < b - n
      /\ b + l <= EndOf(C)
  BY <1>0, Layout
<1>2. /\ TypeOK /\ Floor \in Nat
  BY RunningLayout
<1>3. /\ IpAt(C)' = i /\ ArgsAt(C)' = n /\ Base(C)' = b /\ LocalsAt(C)' = l
      /\ Runs(C)' = r /\ FloorAt(C)' = f /\ EndOf(C)' = e + 1 /\ EndOf(C) = e
  <2> DEFINE D == C + 1
  <2>1. D \in Nat /\ D = Depth /\ D # 1 /\ C \in 1 .. D - 1 /\ D - 1 = C
    OBVIOUS
  <2>2. sp' = Floor + 1 /\ Restores(frames[Len(frames)])
    BY DEF ReturnsBelow
  <2> HIDE DEF D
  <2>3. /\ IpAt(C)' = IpAt(C) /\ ArgsAt(C)' = ArgsAt(C) /\ Base(C)' = Base(C)
        /\ LocalsAt(C)' = LocalsAt(C) /\ Runs(C)' = Runs(C) /\ FloorAt(C)' = FloorAt(C)
        /\ EndOf(C)' = sp' /\ EndOf(C) = Floor
    BY <2>1, <2>2, CallerRegisters
  <2> QED
    BY <2>2, <2>3
<1>4. ActivationAt(C) = Framed(i, stack, n, b, l, e, IF r THEN stack[f] ELSE Zero)
  <2>1. ActivationAt(C) = Framed(i, stack, n, b, l, EndOf(C), IF r THEN stack[f] ELSE Zero)
    BY <1>0, ActivationIs
  <2> QED
    BY <1>3, <2>1
<1>5. e \in Nat /\ b + l <= e
  BY <1>1, <1>2, <1>3
<1>6. /\ stack'[e] = v
      /\ \A j \in Slots : j # e => stack'[j] = stack[j]
      /\ e < STACK_MAX_SIZE /\ STACK_MAX_SIZE \in Nat
  <2>1. e \in Slots /\ stack' = [stack EXCEPT ![e] = v]
    BY DEF ReturnsBelow
  <2> HIDE DEF e, v
  <2> QED
    BY <1>2, <2>1, WrittenFloor
<1> HIDE DEF i, b, n, l, e, f, r, v
<1>7. \A j \in Int : 0 <= j /\ j < e => stack'[j] = stack[j]
  BY <1>5, <1>6 DEF Slots
<1>8. ActivationAt(C)' = Framed(i, stack', n, b, l, e + 1, IF r THEN stack'[f] ELSE Zero)
  <2> DEFINE g == e + 1
  <2>1. g \in Nat /\ b + l <= g
    BY <1>1, <1>5
  <2>2. EndOf(C)' = g
    BY <1>3
  <2> HIDE DEF g
  <2>3. Becomes(C, i, n, b, l, g, r, f)
    BY <1>1, <1>3, <2>1, <2>2 DEF Becomes
  <2>4. ActivationAt(C)' = Framed(i, stack', n, b, l, g, IF r THEN stack'[f] ELSE Zero)
    BY <2>3, ActivationNext
  <2> QED
    BY <2>4 DEF g
<1>9. (IF r THEN stack'[f] ELSE Zero) = (IF r THEN stack[f] ELSE Zero)
  <2>1. r => 0 <= f /\ f < e
    BY <1>1, <1>5
  <2> QED
    BY <1>1, <1>7, <2>1
<1>10. PICK self : self = IF r THEN stack[f] ELSE Zero
  OBVIOUS
<1>11. Segment(stack', b - n, b) = Segment(stack, b - n, b)
       /\ Segment(stack', b, b + l) = Segment(stack, b, b + l)
  <2> DEFINE lo == b - n
             hi == b + l
  <2>1. lo \in Int /\ hi \in Int /\ b \in Int /\ 0 <= lo /\ b <= e /\ hi <= e /\ 0 <= b
    BY <1>1, <1>5
  <2>2. \A j \in Int : lo <= j /\ j < b => stack'[j] = stack[j]
    BY <1>1, <1>5, <1>7
  <2>3. \A j \in Int : b <= j /\ j < hi => stack'[j] = stack[j]
    BY <1>1, <1>5, <1>7
  <2> HIDE DEF lo, hi
  <2>4. Segment(stack', lo, b) = Segment(stack, lo, b)
    BY <2>1, <2>2, SegmentsEqual
  <2>5. Segment(stack', b, hi) = Segment(stack, b, hi)
    BY <2>1, <2>3, SegmentsEqual
  <2> QED
    BY <2>4, <2>5 DEF lo, hi
<1>12. Segment(stack', b + l, e + 1) = Joined(Segment(stack, b + l, e), v)
  <2> DEFINE lo == b + l
  <2>1. lo \in Int /\ e \in Int /\ lo <= e
    BY <1>1, <1>5
  <2>2. \A j \in Int : lo <= j /\ j < e => stack'[j] = stack[j]
    BY <1>1, <1>5, <1>7
  <2> HIDE DEF lo
  <2>3. Segment(stack', lo, e) = Segment(stack, lo, e)
    BY <2>1, <2>2, SegmentsEqual
  <2>4. Append(Segment(stack', lo, e), stack'[e]) = Segment(stack', lo, e + 1)
    BY <2>1, SegmentAppend
  <2> QED
    BY <1>6, <2>3, <2>4 DEF lo, Joined
<1>13. PICK q, g : q = ActivationAt(C) /\ g = e + 1
  OBVIOUS
<1>14. q = Framed(i, stack, n, b, l, e, self)
  BY <1>4, <1>10, <1>13
<1>15. Given(q, v) = Framed(i, stack', n, b, l, g, self)
  <2>1. Segment(stack', b + l, g) = Joined(Segment(stack, b + l, e), v)
    BY <1>12, <1>13
  <2> QED
    BY <1>11, <1>14, <2>1, FramedGiven
<1>16. ActivationAt(C)' = Framed(i, stack', n, b, l, g, self)
  BY <1>8, <1>9, <1>10, <1>13
<1> QED
  BY <1>13, <1>15, <1>16 DEF v

LEMMA CallersStay ==
  ASSUME RefInv, prog \in Sound, status = "running", UNCHANGED prog,
         NEW C \in Nat, C # 0, C + 1 = Depth, ReturnsBelow
  PROVE  /\ CallersKept /\ Glob' = Glob
         /\ status' = "running" /\ Depth' = C
         /\ \A k \in 1 .. C : k # C => ActivationAt(k)' = ActivationAt(k)
<1>1. status' = "running" /\ Restores(frames[Len(frames)])
  BY DEF ReturnsBelow, Restores
<1>2. /\ TypeOK /\ Floor \in Nat /\ P.globals \in Nat /\ P.globals <= Floor
      /\ STACK_MAX_SIZE \in Nat
  BY RunningLayout
<1>3. /\ Floor < STACK_MAX_SIZE
      /\ \A j \in Slots : j # Floor => stack'[j] = stack[j]
  <2> DEFINE e == Floor
             v == Top(1)
  <2>1. e \in Slots /\ stack' = [stack EXCEPT ![e] = v]
    BY DEF ReturnsBelow
  <2> HIDE DEF e, v
  <2>2. e < STACK_MAX_SIZE /\ \A j \in Slots : j # e => stack'[j] = stack[j]
    BY <1>2, <2>1, WrittenFloor
  <2> QED
    BY <2>2 DEF e
<1>4. CallersKept
  <2>1. \A j \in Slots : j < Floor => j # Floor
    BY <1>2 DEF Slots
  <2> QED
    BY <1>3, <2>1 DEF CallersKept
<1>5. Glob' = Glob
  <2>1. \A j \in Slots : j < P.globals => stack'[j] = stack[j]
    <3>1. \A j \in Slots : j < P.globals => j # Floor
      BY <1>2 DEF Slots
    <3> QED
      BY <1>3, <3>1
  <2>2. P.globals <= STACK_MAX_SIZE
    BY <1>2, <1>3
  <2> QED
    BY <1>1, <1>2, <2>1, <2>2, GlobalsKept
<1> DEFINE D == C + 1
<1>6. D \in Nat /\ D = Depth /\ D # 1 /\ D - 1 = C
  OBVIOUS
<1> HIDE DEF D
<1>7. ASSUME NEW k \in 1 .. C
      PROVE  /\ Depth' = D - 1
             /\ IpAt(k)' = IpAt(k) /\ ArgsAt(k)' = ArgsAt(k) /\ Base(k)' = Base(k)
             /\ LocalsAt(k)' = LocalsAt(k) /\ Runs(k)' = Runs(k) /\ FloorAt(k)' = FloorAt(k)
             /\ k # D - 1 => EndOf(k)' = EndOf(k)
  <2>1. k \in 1 .. D - 1
    BY <1>6
  <2> QED
    BY <1>1, <1>6, <2>1, CallerRegisters
<1>8. Depth' = C
  BY <1>6, <1>7
<1>9. ASSUME NEW k \in 1 .. C, k # C
      PROVE  ActivationAt(k)' = ActivationAt(k)
  <2>1. k \in 1 .. Depth /\ k # Depth
    BY <1>6
  <2>2. EndOf(k)' = EndOf(k)
    BY <1>6, <1>7, <1>9
  <2>3. /\ IpAt(k)' = IpAt(k) /\ ArgsAt(k)' = ArgsAt(k) /\ Base(k)' = Base(k)
        /\ LocalsAt(k)' = LocalsAt(k) /\ Runs(k)' = Runs(k) /\ FloorAt(k)' = FloorAt(k)
    BY <1>7
  <2> QED
    BY <1>4, <2>1, <2>2, <2>3, OthersKept
<1> QED
  BY <1>1, <1>4, <1>5, <1>8, <1>9

LEMMA ReturnRefines ==
  ASSUME RefInv, prog \in Sound, VERIFIED => prog \in Bounded, status = "running",
         UNCHANGED <<prog, out>>, Return
  PROVE  Machine!Next
<1>0. PICK D \in Nat : D = Depth
  BY RunningLayout
<1>1. D # 0 /\ I.op \in Returns /\ I.op \notin Begins /\ Popped(I) = 1
  <2>1. I.op \in Returns
    BY DEF Return, At
  <2>2. I.op \notin Begins
    BY <2>1 DEF Returns, Begins
  <2> QED
    BY <1>0, <2>1, <2>2, PoppedTable, RunningLayout
<1>2. Acts = [k \in 1 .. D |-> ActivationAt(k)] /\ Len(Acts) = D
  BY <1>0, ActsAre
<1>3. Machine!I = I /\ Machine!Running(Machine!Returns)
  <2>1. Machine!I = I
    BY CurrentIs
  <2> QED
    BY <1>1, <2>1 DEF Machine!Running, Machine!Returns, Returns
<1>4. Machine!Operand = Top(1)
  <2>1. 1 \in Nat /\ 1 <= Popped(I) /\ 1 # 0
    BY <1>1
  <2> QED
    BY <1>1, <2>1, PoppedOperands
<1>5. CASE Stop("exhausted")
  BY <1>5, ExhaustIs
<1>6. CASE Depth = 1 /\ status' = "halted" /\ UNCHANGED heap
  <2>1. Machine!Stop("halted")
    BY <1>6, StopIsStop
  <2>2. Len(Acts) = 1
    BY <1>0, <1>2, <1>6
  <2>3. Machine!Return
    BY <1>3, <2>1, <2>2 DEF Machine!Return, Acts
  <2> QED
    BY <2>3 DEF Machine!Next
<1>7. CASE ReturnsBelow
  <2> DEFINE C == D - 1
  <2>1. C \in Nat /\ C # 0 /\ C + 1 = Depth /\ C + 1 = D
    BY <1>0, <1>1, <1>7 DEF ReturnsBelow
  <2> HIDE DEF C
  <2>2. /\ Glob' = Glob /\ status' = "running" /\ Depth' = C
        /\ \A k \in 1 .. C : k # C => ActivationAt(k)' = ActivationAt(k)
    BY <1>7, <2>1, CallersStay
  <2>3. ActivationAt(C)' = Given(ActivationAt(C), Top(1))
    BY <1>7, <2>1, CallerResumes
  <2>4. Acts' = [k \in 1 .. C |-> ActivationAt(k)'] /\ Len(Acts') = C
    BY <2>1, <2>2, ActsNext
  <2>5. PICK a, b, v : a = Acts /\ b = Acts' /\ v = Top(1)
    OBVIOUS
  <2>6. LeavesTo(a, b, C, v)
    <3>1. Tuple(a, C + 1) /\ Tuple(b, C)
      BY <1>2, <2>1, <2>4, <2>5 DEF Tuple
    <3>2. \A k \in 1 .. C : k # C => b[k] = a[k]
      BY <1>2, <2>1, <2>2, <2>4, <2>5
    <3>3. b[C] = Given(a[C], v)
      <4>1. C \in 1 .. C /\ C \in 1 .. D
        BY <2>1
      <4>2. b[C] = ActivationAt(C)' /\ a[C] = ActivationAt(C)
        BY <1>2, <2>4, <2>5, <4>1
      <4> QED
        BY <2>3, <2>5, <4>2
    <3> QED
      BY <3>1, <3>2, <3>3 DEF LeavesTo
  <2>7. b = Returned(Below(a), Len(Below(a)), v)
    BY <2>1, <2>6, ReturnedActs
  <2>8. Len(Acts) # 1
    BY <1>2, <2>1
  <2>9. heap' = heap /\ UNCHANGED <<out, status>>
    BY <1>7, <2>2 DEF ReturnsBelow
  <2>10. Acts' = Returned(Below(Acts), Len(Below(Acts)), Machine!Operand)
    BY <1>4, <2>5, <2>7
  <2>11. Machine!Return
    BY <1>3, <2>2, <2>8, <2>9, <2>10 DEF Machine!Return, Acts, Glob, Returned, Below
  <2> QED
    BY <2>11 DEF Machine!Next
<1> QED
  BY <1>5, <1>6, <1>7, ReturnCases DEF ReturnsBelow

-----------------------------------------------------------------------------
(***************************************************************************)
(* Every step, and the refinement.                                         *)
(***************************************************************************)

LEMMA ControlRefines ==
  ASSUME RefInv, Disciplined, prog \in Sound, VERIFIED => prog \in Bounded,
         status = "running", UNCHANGED <<prog, out>>, Control
  PROVE  Machine!Next
<1>1. CASE FetchOutside \/ Unsupported \/ Fail
  BY <1>1, RefusalRefines
<1>2. CASE Jump
  BY <1>2, JumpRefines
<1>3. CASE Branch
  BY <1>3, BranchRefines
<1>4. CASE Begin
  BY <1>4, BeginRefines
<1>5. CASE MakeClosure
  BY <1>5, MakeClosureRefines
<1>6. CASE Call
  BY <1>6, CallRefines
<1>7. CASE CallClosure
  BY <1>7, CallClosureRefines
<1>8. CASE Return
  BY <1>8, ReturnRefines
<1> QED
  BY <1>1, <1>2, <1>3, <1>4, <1>5, <1>6, <1>7, <1>8, ControlCases

(* An exited process, or one that stands still, is so on both sides.         *)
LEMMA StutterRefines ==
  ASSUME RefInv, UNCHANGED vars
  PROVE  UNCHANGED Machine!vars
<1>1. UNCHANGED <<prog, ip, stack, sp, base, args, locals, is_closure, frames, heap, out, status>>
  BY DEF vars, memory, registers
<1>2. P' = P /\ Depth' = Depth /\ Floor' = Floor
  BY <1>1 DEF P, Depth, Floor
<1>3. \A lo, hi : Slice(lo, hi)' = Slice(lo, hi)
  BY <1>1 DEF Slice
<1>4. Glob' = Glob
  BY <1>1, <1>2, <1>3 DEF Glob
<1>5. Acts' = Acts
  <2>1. CASE status # "running"
    BY <1>1, <2>1 DEF Acts
  <2>2. CASE status = "running"
    <3>1. PICK D \in Nat : D = Depth
      <4>1. Depth \in Nat
        BY DEF RefInv, ClosureInv, StackInv, TypeOK, Depth
      <4> QED
        BY <4>1
    <3>2. ASSUME NEW k \in 1 .. D
          PROVE  ActivationAt(k)' = ActivationAt(k)
      <4>1. /\ IpAt(k)' = IpAt(k) /\ ArgsAt(k)' = ArgsAt(k) /\ Base(k)' = Base(k)
            /\ Runs(k)' = Runs(k)
        BY <1>1, <1>2 DEF IpAt, ArgsAt, Base, Runs
      <4>2. \A j : FloorAt(j)' = FloorAt(j)
        BY <1>1, <1>2 DEF FloorAt
      <4>3. LocalsAt(k)' = LocalsAt(k) /\ EndOf(k)' = EndOf(k)
        BY <1>1, <1>2, <4>1, <4>2 DEF LocalsAt, EndOf
      <4> QED
        BY <1>1, <1>3, <4>1, <4>2, <4>3 DEF ActivationAt
    <3>3. Acts = [k \in 1 .. D |-> ActivationAt(k)]
      BY <2>2, <3>1, ActsAre
    <3>4. Acts' = [k \in 1 .. D |-> ActivationAt(k)']
      <4>1. status' = "running" /\ Depth' = D
        BY <1>1, <1>2, <2>2, <3>1
      <4> QED
        BY <4>1, ActsNext
    <3> QED
      BY <3>2, <3>3, <3>4
  <2> QED
    BY <2>1, <2>2
<1> QED
  BY <1>1, <1>4, <1>5 DEF Machine!vars, Acts, Glob

(* What is loaded: sound code, and for the second interpreter bounded code.  *)
Accepted == /\ prog \in Sound
            /\ VERIFIED => prog \in Bounded

LEMMA StepRefines ==
  ASSUME RefInv, Disciplined, Accepted, [Next]_vars
  PROVE  [Machine!Next]_(Machine!vars)
<1>1. prog \in Sound /\ (VERIFIED => prog \in Bounded)
  BY DEF Accepted
<1>2. CASE UNCHANGED vars
  BY <1>2, StutterRefines
<1>3. CASE Exited
  BY <1>3, StutterRefines DEF Exited
<1>4. CASE UNCHANGED prog /\ (Data \/ Variable \/ Control) /\ UNCHANGED out
  <2>1. status = "running" /\ UNCHANGED <<prog, out>>
    BY <1>4, StepsRun
  <2> QED
    BY <1>1, <1>4, <2>1, DataRefines, VariableRefines, ControlRefines
<1>5. CASE UNCHANGED prog /\ Write
  <2>1. status = "running"
    BY <1>5, StepsRun
  <2> QED
    BY <1>1, <1>5, <2>1, WriteRefines
<1> QED
  BY <1>2, <1>3, <1>4, <1>5 DEF Next

LEMMA InitRefines ==
  ASSUME Init, RefInv, Accepted
  PROVE  Machine!Init
<1> DEFINE g == P.globals
           t == g + 2
<1>1. prog \in Sound /\ prog \in DOMAIN Programs
  BY DEF Accepted, Init
<1>2. /\ ip = 0 /\ stack = [j \in Slots |-> Zero] /\ sp = t /\ base = t /\ args = 2
      /\ is_closure = FALSE /\ frames = <<OuterFrame>> /\ heap = <<>> /\ out = <<>>
      /\ status = "running"
  BY <1>1, SoundProgramFits DEF Init, Fits
<1>3. /\ TypeOK /\ g \in Nat /\ STACK_MAX_SIZE \in Nat /\ t <= STACK_MAX_SIZE
  <2>1. TypeOK
    BY DEF RefInv, ClosureInv, StackInv
  <2> QED
    BY <1>1, <2>1, LoadedProgram, SoundProgramFits, BoundsAssumption
<1>4. I.op \in Begins
  BY <1>1, <1>2 DEF Sound, WellFormed, IsEntry, I, P
<1>5. L = 0
  BY <1>1, <1>2, <1>4, RunningLayout
<1>6. Self = Zero
  BY <1>2 DEF Self
<1> HIDE DEF g
<1>7. /\ t \in Nat /\ t - 2 = g /\ t <= STACK_MAX_SIZE
  BY <1>3
<1> HIDE DEF t
<1>8. \A lo \in Nat : Filled(stack, lo, t, Zero)
  BY <1>2, <1>3, <1>7 DEF Filled, Slots
<1>9. Segment(stack, t - 2, t) = <<Zero, Zero>>
  <2> DEFINE n == 2
             lo == t - 2
  <2>1. lo \in Int /\ t \in Int /\ n \in Nat /\ Spans(lo, t, n) /\ Filled(stack, lo, t, Zero)
    BY <1>3, <1>7, <1>8 DEF Spans
  <2> HIDE DEF n, lo
  <2>2. Segment(stack, lo, t) = Repeated(n, Zero)
    BY <2>1, SegmentAlike
  <2>3. Repeated(2, Zero) = <<Zero, Zero>>
    BY DEF Repeated
  <2> QED
    BY <2>2, <2>3 DEF n, lo
<1>10. Segment(stack, t, t) = <<>>
  BY <1>7, SegmentEmpty
<1>11. Segment(stack, 0, g) = [j \in 1 .. g |-> Zero]
  <2> DEFINE lo == 0
  <2>1. lo \in Int /\ g \in Int /\ g \in Nat /\ Spans(lo, g, g)
    BY <1>3 DEF Spans
  <2>2. Filled(stack, lo, g, Zero)
    BY <1>3, <1>7, <1>8 DEF Filled
  <2> HIDE DEF lo
  <2>3. Segment(stack, lo, g) = Repeated(g, Zero)
    BY <2>1, <2>2, SegmentAlike
  <2> QED
    BY <2>3 DEF Repeated, lo
<1>12. Now = Machine!Activation(0, <<Zero, Zero>>, Zero)
  <2>1. t + 0 = t
    BY <1>7
  <2>2. Now = Framed(0, stack, 2, t, 0, t, Zero)
    BY <1>2, <1>5, <1>6 DEF Now
  <2> QED
    BY <1>9, <1>10, <2>1, <2>2 DEF Framed, Machine!Activation
<1>13. Acts = <<Now>>
  <2>1. Depth = 1
    BY <1>2 DEF Depth
  <2>2. Acts = [k \in 1 .. 1 |-> ActivationAt(k)] /\ Acts[1] = Now
    BY <1>1, <1>2, <2>1, ActsAre, CurrentIs
  <2> QED
    BY <2>2
<1>14. Glob = [j \in 1 .. P.globals |-> Zero]
  BY <1>1, <1>2, <1>11, CurrentIs DEF g
<1>15. Machine!P = P /\ Machine!Zero = Zero
  BY <1>1, <1>2, CurrentIs, SameWords
<1> QED
  BY <1>1, <1>2, <1>12, <1>13, <1>14, <1>15 DEF Machine!Init, Acts, Glob

LEMMA AcceptedStays ==
  ASSUME Accepted, [Next]_vars
  PROVE  Accepted'
BY DEF Accepted, Sound, Bounded, Next, Exited, vars

(* The interpreters implement the machine.  The flat stack with its bases, *)
(* argument counts and saved registers (CALL, CALLC, BEGIN, END, RET and   *)
(* every instruction that reads or writes a slot) behaves as activations   *)
(* that own their arguments, locals, operands and closure: every step of an *)
(* accepted program is a step of LamaMachine or a stutter, and what is     *)
(* written is the same.  Accepted is needed because code that is not sound *)
(* may read a slot of another activation, and code whose headers fall short *)
(* may leave the stack; Disciplined because CALLC checks no argument count, *)
(* CLOSURE no capture, and STA misses the fields of an s-expression.  TLC  *)
(* checks Disciplined for compiled code.                                   *)
THEOREM InterpreterImplementsMachine ==
  Spec /\ Accepted /\ []Disciplined => ImplementsMachine
<1>1. Init /\ RefInv /\ Accepted => Machine!Init
  BY InitRefines
<1>2. RefInv /\ Disciplined /\ Accepted /\ [Next]_vars => [Machine!Next]_(Machine!vars)
  BY StepRefines
<1>3. Accepted /\ [Next]_vars => Accepted'
  BY AcceptedStays
<1> QED
  BY <1>1, <1>2, <1>3, RefHolds, PTL DEF Spec, Machine!Spec, ImplementsMachine
=============================================================================
