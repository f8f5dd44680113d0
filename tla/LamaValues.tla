----------------------------- MODULE LamaValues -----------------------------
(***************************************************************************)
(* Values, heap objects and what one instruction computes from the values  *)
(* it pops.                                                                *)
(*                                                                         *)
(* A value is a tagged word: an unboxed integer or a reference to a heap   *)
(* object.  The heap is the sequence of objects ever allocated and a       *)
(* reference is an index in it: addresses, collection and relocation are   *)
(* the business of LamaGC, which is checked to keep exactly this view.     *)
(* An object is [type, tag, entry, elems]: tag is the constructor's hash   *)
(* of an s-expression, entry the code offset of a closure, elems the       *)
(* elements, characters, fields or captured values.                        *)
(***************************************************************************)
EXTENDS Bytecode

CONSTANTS
  HALF,              \* integers are -HALF .. HALF-1: 2^62 in the program
  MAX_SEXP_TAGLEN,   \* characters of a constructor's name that LtagHash keeps
  chars              \* the characters LtagHash knows, in the order of their codes

ASSUME HalfAssumption == HALF \in Nat \ {0} /\ MAX_SEXP_TAGLEN \in Nat \ {0}

Types == {"ARRAY", "CLOSURE", "STRING", "SEXP"}

IntValue(n) == [kind |-> "int", val |-> n]
Ref(r)      == [kind |-> "ref", val |-> r]

(* The values that make sense when n objects have been allocated.           *)
Value(n) == [kind : {"int"}, val : Int] \cup [kind : {"ref"}, val : 1 .. n]

Object(n) == [type : Types, tag : Seq(Int), entry : Int, elems : Seq(Value(n))]

UNBOXED(v) == v.kind = "int"
Zero       == IntValue(0)
Truth(b)   == IntValue(IF b THEN 1 ELSE 0)

(* BOX keeps the low bits of a machine word.                                *)
BOX(n) == IntValue(((n + HALF) % (2 * HALF)) - HALF)

IsA(h, v, types) == ~ UNBOXED(v) /\ h[v.val].type \in types

LenOf(o) == IF o.type = "CLOSURE" THEN Len(o.elems) + 1 ELSE Len(o.elems)

(* An s-expression tag is the hash of the name's first characters.  LtagHash *)
(* exits on a character it does not know, and when de_hash does not give   *)
(* the name back: the code of the first character of chars is zero, and a  *)
(* leading zero is lost.  The names it accepts are told apart by their     *)
(* first MAX_SEXP_TAGLEN characters, which the model uses as the hash.     *)
Hashable(s) ==
  /\ \A k \in 1 .. Len(s) :
       k <= MAX_SEXP_TAGLEN => \E j \in 1 .. Len(chars) : chars[j] = s[k]
  /\ s # <<>> => s[1] # chars[1]

LtagHash(s) == IF Len(s) <= MAX_SEXP_TAGLEN THEN s ELSE SubSeq(s, 1, MAX_SEXP_TAGLEN)

Array(es)      == [type |-> "ARRAY", tag |-> <<>>, entry |-> 0, elems |-> es]
StringOf(cs)   == [type |-> "STRING", tag |-> <<>>, entry |-> 0,
                   elems |-> [k \in 1 .. Len(cs) |-> IntValue(cs[k])]]
Sexp(t, es)    == [type |-> "SEXP", tag |-> t, entry |-> 0, elems |-> es]
Closure(l, es) == [type |-> "CLOSURE", tag |-> <<>>, entry |-> l, elems |-> es]

-----------------------------------------------------------------------------
(***************************************************************************)
(* The outcome of an instruction: whether its assertions hold, the values  *)
(* it pushes and the heap it leaves.                                       *)
(***************************************************************************)
Pushes(vs, h) == [ok |-> TRUE, push |-> vs, heap |-> h]
Refused(h)    == [ok |-> FALSE, push |-> <<>>, heap |-> h]
Allocates(o, h) == Pushes(<<Ref(Len(h) + 1)>>, Append(h, o))
AssertThen(cond, outcome, h) == IF cond THEN outcome ELSE Refused(h)

Abs(n) == IF n < 0 THEN -n ELSE n

(* C division truncates towards zero, and a remainder has its dividend's    *)
(* sign.                                                                   *)
Quotient(x, y) == IF (x < 0) = (y < 0) THEN Abs(x) \div Abs(y)
                                       ELSE -(Abs(x) \div Abs(y))
Remainder(x, y) == x - y * Quotient(x, y)

ArithmeticResult(op, x, y) ==
  BOX(CASE op = "ADD" -> x + y
        [] op = "SUB" -> x - y
        [] op = "MUL" -> x * y
        [] op = "DIV" -> Quotient(x, y)
        [] OTHER      -> Remainder(x, y))

RelationalResult(op, x, y) ==
  Truth(CASE op = "LSS" -> x < y
          [] op = "LEQ" -> x <= y
          [] op = "GRE" -> x > y
          [] op = "GEQ" -> x >= y
          [] op = "NEQ" -> x # y
          [] op = "AND" -> x # 0 /\ y # 0
          [] OTHER      -> x # 0 \/ y # 0)

(* Only EQU compares words of any kind; DIV and REM refuse a zero divisor.  *)
BinaryOutcome(op, lhs, rhs, h) ==
  IF op = "EQU"
    THEN Pushes(<<Truth(lhs = rhs)>>, h)
    ELSE AssertThen(/\ UNBOXED(lhs) /\ UNBOXED(rhs)
                    /\ op \in {"DIV", "REM"} => rhs.val # 0,
                    Pushes(<<IF op \in Arithmetic
                               THEN ArithmeticResult(op, lhs.val, rhs.val)
                               ELSE RelationalResult(op, lhs.val, rhs.val)>>, h),
                    h)

Aggregates == {"ARRAY", "STRING", "SEXP"}

InRange(h, agg, idx) == /\ IsA(h, agg, Aggregates)
                        /\ UNBOXED(idx)
                        /\ idx.val \in 0 .. Len(h[agg.val].elems) - 1

(* The word of a character, 2*c+1, must lie in 0..0xff.                     *)
IsStorableChar(v) == UNBOXED(v) /\ 2 * v.val + 1 \in 0 .. 255

Assigned(h, r, k, v) == [h EXCEPT ![r].elems[k] = v]

(* The heap after aggregate agg is assigned v at idx.  The store to an      *)
(* s-expression goes through TO_SEXP applied to TO_DATA of the object, one  *)
(* header too low and one byte wide: for an index below 8 it lands in the   *)
(* object's forward address and leaves every field as it was.  (From index  *)
(* 8 on the byte is one of the hash, from 16 on one of a field: no program  *)
(* here makes an s-expression that long.)                                  *)
StoreElement(h, agg, idx, v) ==
  IF h[agg.val].type = "SEXP"
    THEN h
    ELSE Assigned(h, agg.val, idx.val + 1, v)

StaOutcome(agg, idx, v, h) ==
  AssertThen(InRange(h, agg, idx) /\ (h[agg.val].type = "STRING" => IsStorableChar(v)),
             Pushes(<<v>>, StoreElement(h, agg, idx, v)), h)

ElemOutcome(agg, idx, h) ==
  AssertThen(InRange(h, agg, idx),
             Pushes(<<h[agg.val].elems[idx.val + 1]>>, h), h)

LengthOutcome(agg, h) ==
  AssertThen(IsA(h, agg, Aggregates), Pushes(<<BOX(LenOf(h[agg.val]))>>, h), h)

SexpOutcome(name, es, h) ==
  AssertThen(Hashable(name), Allocates(Sexp(LtagHash(name), es), h), h)

TagOutcome(name, n, v, h) ==
  AssertThen(Hashable(name),
             Pushes(<<Truth(/\ IsA(h, v, {"SEXP"})
                            /\ LenOf(h[v.val]) = n
                            /\ h[v.val].tag = LtagHash(name))>>, h), h)

ArrayOutcome(n, v, h) ==
  Pushes(<<Truth(IsA(h, v, {"ARRAY"}) /\ LenOf(h[v.val]) = n)>>, h)

(* What the C library takes for the text of a string: the characters before *)
(* the first NUL, which may be one that STA stored.                        *)
UpToNul(cs) ==
  LET n == CHOOSE n \in 0 .. Len(cs) : /\ \A k \in 1 .. n : cs[k] # Zero
                                      /\ n < Len(cs) => cs[n + 1] = Zero
  IN  SubSeq(cs, 1, n)

(* strcmp on the contents; anything but two strings is unequal.             *)
PattEqOutcome(lhs, rhs, h) ==
  Pushes(<<Truth(/\ IsA(h, lhs, {"STRING"}) /\ IsA(h, rhs, {"STRING"})
                 /\ UpToNul(h[lhs.val].elems) = UpToNul(h[rhs.val].elems))>>, h)

PatternOutcome(op, v, h) ==
  Pushes(<<Truth(CASE op = "PATT_is_string" -> IsA(h, v, {"STRING"})
                   [] op = "PATT_is_array"  -> IsA(h, v, {"ARRAY"})
                   [] op = "PATT_is_sexp"   -> IsA(h, v, {"SEXP"})
                   [] op = "PATT_is_ref"    -> ~ UNBOXED(v)
                   [] op = "PATT_is_val"    -> UNBOXED(v)
                   [] OTHER                 -> IsA(h, v, {"CLOSURE"}))>>, h)

(* CALL_Lwrite writes integers only and answers zero.                       *)
WriteOutcome(v, h) == AssertThen(UNBOXED(v), Pushes(<<Zero>>, h), h)
=============================================================================
