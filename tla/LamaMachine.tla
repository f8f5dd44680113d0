----------------------------- MODULE LamaMachine -----------------------------
(***************************************************************************)
(* The machine the interpreters promise: every call has an activation of    *)
(* its own, with its own arguments, locals, operands and closure, and       *)
(* nothing one activation does reaches another except through globals and   *)
(* the heap.  There is no stack to overlap in and no register to restore.   *)
(* Resources are finite: any step may find them exhausted.                  *)
(***************************************************************************)
EXTENDS LamaValues

CONSTANTS Programs, Inputs, Printed

VARIABLES prog, acts, globals, heap, out, status

vars == <<prog, acts, globals, heap, out, status>>

P == Programs[prog]

Activation(l, as, self) ==
  [ip |-> l, args |-> as, locals |-> <<>>, opnds |-> <<>>, self |-> self]

Init == /\ prog \in DOMAIN Programs
        /\ acts = <<Activation(0, <<Zero, Zero>>, Zero)>>
        /\ globals = [j \in 1 .. P.globals |-> Zero]
        /\ heap = <<>>
        /\ out = <<>>
        /\ status = "running"

Current == acts[Len(acts)]
I       == P.code[Current.ip]
Under(a, k) == SubSeq(a.opnds, 1, Len(a.opnds) - k)
Over(a, k)  == SubSeq(a.opnds, Len(a.opnds) - k + 1, Len(a.opnds))
Operand == Current.opnds[Len(Current.opnds)]

Stop(s) == /\ status' = s
           /\ acts' = <<>> /\ globals' = <<>>
           /\ UNCHANGED <<heap, out>>

Resume(a)  == acts' = [acts EXCEPT ![Len(acts)] = a]
Running(ops) == status = "running" /\ I.op \in ops

(* The assignment of an element, for each kind of aggregate.                *)
Assign(agg, idx, v) ==
  AssertThen(InRange(heap, agg, idx) /\ (heap[agg.val].type = "STRING" => IsStorableChar(v)),
             Pushes(<<v>>, Assigned(heap, agg.val, idx.val + 1, v)), heap)

Outcomes(c, o) ==
  CASE c.op \in Binary         -> {BinaryOutcome(c.op, o[1], o[2], heap)}
    [] c.op = "CONST"          -> {Pushes(<<BOX(c.a)>>, heap)}
    [] c.op = "STRING"         -> {Allocates(StringOf(P.strings[c.a]), heap)}
    [] c.op = "SEXP"           -> {SexpOutcome(P.strings[c.a], o, heap)}
    [] c.op = "CALL_Barray"    -> {Allocates(Array(o), heap)}
    [] c.op = "STA"            -> {Assign(o[1], o[2], o[3])}
    [] c.op = "ELEM"           -> {ElemOutcome(o[1], o[2], heap)}
    [] c.op \in {"DROP", "LINE"} -> {Pushes(<<>>, heap)}
    [] c.op = "DUP"            -> {Pushes(<<o[1], o[1]>>, heap)}
    [] c.op = "SWAP"           -> {Pushes(<<o[2], o[1]>>, heap)}
    [] c.op = "TAG"            -> {TagOutcome(P.strings[c.a], c.b, o[1], heap)}
    [] c.op = "ARRAY"          -> {ArrayOutcome(c.a, o[1], heap)}
    [] c.op = "PATT_eq"        -> {PattEqOutcome(o[1], o[2], heap)}
    [] c.op \in Patterns       -> {PatternOutcome(c.op, o[1], heap)}
    [] c.op = "CALL_Llength"   -> {LengthOutcome(o[1], heap)}
    [] c.op = "CALL_Lread"     -> {Pushes(<<BOX(n)>>, heap) : n \in Inputs}
    [] c.op = "CALL_Lstring"   -> {Allocates(StringOf(cs), heap) : cs \in Printed}
    [] c.op = "CALL_Lwrite"    -> {WriteOutcome(o[1], heap)}
    [] OTHER                   -> {}

Data ==
  LET k == Popped(I)
  IN  /\ status = "running"
      /\ \E o \in Outcomes(I, Over(Current, k)) :
           IF ~ o.ok THEN Stop("failed")
           ELSE /\ Resume([Current EXCEPT !.opnds = Under(Current, k) \o o.push,
                                          !.ip = @ + 1])
                /\ heap' = o.heap
                /\ out' = IF I.op = "CALL_Lwrite" THEN Append(out, Operand.val) ELSE out
                /\ UNCHANGED <<globals, status>>

Refuse == Running(NotImplemented \cup {"FAIL"}) /\ Stop("failed")

-----------------------------------------------------------------------------
(* The variables an instruction names, as sequences of their values.        *)
SelfValues == IF Current.self = Zero THEN <<>> ELSE heap[Current.self.val].elems
Values(op) == CASE op \in {"LDG", "STG"}  -> globals
                [] op \in {"LDL", "STL"}  -> Current.locals
                [] op \in {"LDA", "STA_"} -> Current.args
                [] OTHER                  -> SelfValues

Load ==
  /\ Running(Loads)
  /\ IF I.a + 1 \notin DOMAIN Values(I.op) THEN Stop("failed")
     ELSE /\ Resume([Current EXCEPT !.opnds = Append(@, Values(I.op)[I.a + 1]),
                                    !.ip = @ + 1])
          /\ UNCHANGED <<globals, heap, out, status>>

Store ==
  /\ Running(Stores)
  /\ IF I.a + 1 \notin DOMAIN Values(I.op) THEN Stop("failed")
     ELSE LET new == [Values(I.op) EXCEPT ![I.a + 1] = Operand]
          IN  /\ Resume([Current EXCEPT !.ip = @ + 1,
                           !.locals = IF I.op = "STL" THEN new ELSE @,
                           !.args   = IF I.op = "STA_" THEN new ELSE @])
              /\ globals' = IF I.op = "STG" THEN new ELSE globals
              /\ heap' = IF I.op = "STC"
                           THEN [heap EXCEPT ![Current.self.val].elems = new] ELSE heap
              /\ UNCHANGED <<out, status>>

Sources(c) == CASE c.kind = 0 -> globals
                [] c.kind = 1 -> Current.locals
                [] c.kind = 2 -> Current.args
                [] OTHER      -> SelfValues

MakeClosure ==
  /\ Running({"CLOSURE"})
  /\ heap' = Append(heap, Closure(I.a, [k \in DOMAIN I.caps |->
                                          Sources(I.caps[k])[I.caps[k].m + 1]]))
  /\ Resume([Current EXCEPT !.opnds = Append(@, Ref(Len(heap) + 1)), !.ip = @ + 1])
  /\ UNCHANGED <<globals, out, status>>

-----------------------------------------------------------------------------
Jump == /\ Running({"JMP"})
        /\ Resume([Current EXCEPT !.ip = I.a])
        /\ UNCHANGED <<globals, heap, out, status>>

Branch ==
  /\ Running(Branches)
  /\ IF ~ UNBOXED(Operand) THEN Stop("failed")
     ELSE /\ Resume([Current EXCEPT !.opnds = Under(Current, 1),
               !.ip = IF (Operand.val = 0) = (I.op = "CJMPZ") THEN I.a ELSE @ + 1])
          /\ UNCHANGED <<globals, heap, out, status>>

Begin == /\ Running(Begins)
         /\ Resume([Current EXCEPT !.locals = [j \in 1 .. Locals(I) |-> Zero],
                                   !.ip = @ + 1])
         /\ UNCHANGED <<globals, heap, out, status>>

(* The arguments leave the caller's operands; so does the closure.          *)
Enter(l, n, popped, self) ==
  /\ acts' = Append([acts EXCEPT ![Len(acts)].opnds = Under(Current, popped),
                                 ![Len(acts)].ip = @ + 1],
                    Activation(l, Over(Current, n), self))
  /\ UNCHANGED <<globals, heap, out, status>>

Call == Running({"CALL"}) /\ Enter(I.a, I.b, I.b, Zero)

CallClosure ==
  /\ Running({"CALLC"})
  /\ LET callee == Over(Current, I.a + 1)[1]
     IN  IF IsA(heap, callee, {"CLOSURE"})
           THEN Enter(heap[callee.val].entry, I.a, I.a + 1, callee)
           ELSE Stop("failed")

Return ==
  /\ Running(Returns)
  /\ IF Len(acts) = 1 THEN Stop("halted")
     ELSE LET below == SubSeq(acts, 1, Len(acts) - 1)
          IN  /\ acts' = [below EXCEPT ![Len(below)].opnds = Append(@, Operand)]
              /\ UNCHANGED <<globals, heap, out, status>>

(* STACK_MAX_SIZE and CALL_STACK_MAX_SIZE, seen from outside.               *)
Exhaust == status = "running" /\ Stop("exhausted")

Next == /\ UNCHANGED prog
        /\ \/ Data \/ Refuse \/ Load \/ Store \/ MakeClosure \/ Jump \/ Branch
           \/ Begin \/ Call \/ CallClosure \/ Return \/ Exhaust

Spec == Init /\ [][Next]_vars
=============================================================================
