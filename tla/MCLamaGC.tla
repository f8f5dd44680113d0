------------------------------ MODULE MCLamaGC ------------------------------
(***************************************************************************)
(* The programs the configurations of LamaGC execute: statements at will.   *)
(***************************************************************************)
EXTENDS LamaGC

Ins(op)         == [op |-> op]
Ins1(op, a)     == [op |-> op, a |-> a]
MkClosure(caps) == [op |-> "CLOSURE", caps |-> caps]

Set(k)    == <<Ins1("ST", k), Ins("DROP")>>
Loads(ks) == [j \in 1 .. Len(ks) |-> Ins1("LD", ks[j])]

(* x := [values]; x := y; x := 0                                           *)
NewArray(x, ks)  == Loads(ks) \o <<Ins1("CALL_Barray", Len(ks))>> \o Set(x)
NewSexp(x, ks)   == Loads(ks) \o <<Ins1("SEXP", Len(ks))>> \o Set(x)
NewClosure(x, ks) == <<MkClosure(ks)>> \o Set(x)
Printed(x, k)    == <<Ins1("LD", k), Ins1("CALL_Lstring", 3)>> \o Set(x)
Clear(x)         == <<Ins1("CONST", 0)>> \o Set(x)
Copy(x, y)       == <<Ins1("LD", y)>> \o Set(x)
(* x[i] := y                                                               *)
AssignField(x, i, y) == <<Ins1("LD", x), Ins1("CONST", i), Ins1("LD", y), Ins("STA"), Ins("DROP")>>
(* x[i] := 0                                                               *)
ClearField(x, i) == <<Ins1("LD", x), Ins1("CONST", i), Ins1("CONST", 0), Ins("STA"), Ins("DROP")>>
(* x := x[i]                                                               *)
Follow(x, i)     == <<Ins1("LD", x), Ins1("CONST", i), Ins("ELEM")>> \o Set(x)
Finish           == <<Ins("END")>>

(* Every kind of object, live through others of every kind.                 *)
GraphStatements == {NewArray(1, <<1, 2, 2>>), NewSexp(2, <<1>>), NewClosure(2, <<1>>),
                    Printed(2, 1), Follow(1, 1), Clear(2), Finish}

(* Stores to strings and s-expressions, which no collection may notice.     *)
StoresStatements == {NewArray(1, <<2>>), NewSexp(2, <<1, 1>>), Printed(2, 1),
                     ClearField(2, 1), Follow(1, 0),
                     Follow(2, 1), Finish}

(* Shared and cyclic arrays.                                                *)
CyclesStatements == {NewArray(1, <<1, 2>>), AssignField(1, 0, 1), AssignField(1, 1, 2),
                     Copy(2, 1), Clear(1)}

MCHeap == <<GraphStatements, StoresStatements, CyclesStatements>>

(* Expressions of different depths, so that a collection finds the stack    *)
(* lower, and then higher, than when a slot was last written.               *)
MCDepths == <<{NewArray(1, <<>>), NewArray(1, <<1>>), NewArray(1, <<1, 1>>)}>>

(* The first global holds an array.                                         *)
MCFirstGlobal == <<{NewArray(0, <<>>), NewArray(1, <<1>>), Clear(1)}>>

(* A field of an s-expression is assigned.                                  *)
MCSexps == <<{NewSexp(1, <<2, 2>>), AssignField(1, 0, 0), NewArray(2, <<>>)}>>

MCTwoPages   == 1 .. 2
MCThreePages == 1 .. 3
MCFourPages  == 1 .. 4
MCIds  == 0 .. 32
MCInts == 0 .. 255

(* What the theorems assume holds here.                                     *)
ASSUME HeapAddressable == Addressable
ASSUME HeapWellBehaved == Programs = MCHeap => WellBehaved
ASSUME HeapAmple == Programs = MCHeap => Ample
=============================================================================
