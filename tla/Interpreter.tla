----------------------------- MODULE Interpreter -----------------------------
(***************************************************************************)
(* The two bytecode interpreters of main.cpp: Interpreter (mode RUN),      *)
(* which checks every push, pop and slot it touches, and Interpreter2      *)
(* (mode VERIFY_RUN), which drops those checks, though the verifier that is *)
(* run before it looks at no instruction (Loader).  VERIFIED chooses        *)
(* between them.  One step executes one instruction.                       *)
(*                                                                         *)
(* stack is the whole array of STACK_MAX_SIZE slots, popped slots keeping   *)
(* their last value; sp is __gc_stack_bottom - __gc_stack_top.  An access   *)
(* outside the array, or a popped value of an empty stack, is undefined in  *)
(* C++: the model names it in status and stops there.                      *)
(***************************************************************************)
EXTENDS LamaValues

CONSTANTS
  Programs,              \* the programs that may be loaded, by name
  STACK_MAX_SIZE,        \* slots of the value stack: 2^20 in the program
  CALL_STACK_MAX_SIZE,   \* frames of the call stack: 2048 in the program
  VERIFIED,              \* FALSE: Interpreter, TRUE: Interpreter2
  Inputs,                \* integers CALL_Lread may read
  Printed,               \* character sequences CALL_Lstring may build
  Garbage                \* what uninitialised size_t members may hold

ASSUME BoundsAssumption == /\ STACK_MAX_SIZE \in Nat
                           /\ CALL_STACK_MAX_SIZE \in Nat \ {0}
                           /\ VERIFIED \in BOOLEAN
                           /\ Inputs \subseteq Int
                           /\ Printed \subseteq Seq(Int)
                           /\ Garbage \subseteq Nat /\ Garbage # {}

ASSUME ProgramsAssumption == \A n \in DOMAIN Programs : IsProgram(Programs[n])

VARIABLES prog, ip, stack, sp, base, args, locals, captured, is_closure,
          frames, heap, out, status

registers == <<base, args, locals, captured, is_closure, frames>>
memory    == <<stack, sp, heap>>
vars      == <<prog, ip, memory, registers, out, status>>

Undefined == {"underflow", "overflow", "wild"}
Statuses  == {"running", "halted", "failed", "exhausted"} \cup Undefined

(* What popping an empty stack and pushing on a full one come to.           *)
PopFault  == IF VERIFIED THEN "underflow" ELSE "failed"
PushFault == IF VERIFIED THEN "overflow" ELSE "exhausted"

P      == Programs[prog]                               \* the loaded program
I      == P.code[ip]                                   \* the fetched instruction
Top(k) == stack[sp - k]                                \* Top(1) is the last
Operands(k) == [j \in 1 .. k |-> stack[sp - k + j - 1]]
Slots  == 0 .. STACK_MAX_SIZE - 1

(* The saved registers of a caller; the outermost frame is marked by        *)
(* prev_ip = 0.                                                            *)
Saved(closure) == [prev_ip |-> ip + 1, prev_base |-> base, prev_args |-> args,
                   prev_locals |-> locals, prev_captured |-> captured,
                   is_closure |-> closure]
SavedFrameAsFunction == Saved(FALSE)                  \* mutant
SavedFrame == Saved(is_closure)
OuterFrame == [prev_ip |-> 0, prev_base |-> 0, prev_args |-> 0,
               prev_locals |-> 0, prev_captured |-> 0, is_closure |-> FALSE]

Fits(n) == n <= STACK_MAX_SIZE

(* Globals and two dummy arguments of main lie below the first frame.       *)
(* Nothing checks that they fit, and a pointer further past the end of the  *)
(* stack is undefined: there is no sp then.                                *)
Init ==
  /\ prog \in DOMAIN Programs
  /\ ip = 0
  /\ stack = [j \in Slots |-> Zero]
  /\ base = P.globals + 2
  /\ IF Fits(base) THEN sp = base /\ status = "running" ELSE sp = 0 /\ status = "wild"
  /\ args = 2
  /\ locals \in Garbage
  /\ captured \in Garbage
  /\ is_closure = FALSE
  /\ frames = <<OuterFrame>>
  /\ heap = <<>>
  /\ out = <<>>

-----------------------------------------------------------------------------
At(ops) == /\ status = "running"
           /\ ip \in DOMAIN P.code
           /\ I.op \in ops

Stop(s) == /\ status' = s
           /\ UNCHANGED <<ip, memory, registers>>

(* Pop k values, then push the outcome's.                                  *)
Operate(k, outcome) ==
  IF sp < k THEN Stop(PopFault)
  ELSE IF ~ outcome.ok THEN Stop("failed")
  ELSE LET low == sp - k
           new == outcome.push
       IN  IF ~ Fits(low + Len(new)) THEN Stop(PushFault)
           ELSE /\ stack' = [j \in Slots |->
                               IF j \in low .. low + Len(new) - 1
                                 THEN new[j - low + 1] ELSE stack[j]]
                /\ sp' = low + Len(new)
                /\ heap' = outcome.heap
                /\ ip' = ip + 1
                /\ UNCHANGED <<registers, status>>

FetchOutside == /\ status = "running"
                /\ ip \notin DOMAIN P.code
                /\ Stop("failed")

Unsupported == /\ status = "running"
               /\ ip \in DOMAIN P.code
               /\ I.op \notin Opcodes \ NotImplemented
               /\ Stop("failed")

BinaryOp == /\ At(Binary)
            /\ Operate(2, BinaryOutcome(I.op, Top(2), Top(1), heap))

Const == /\ At({"CONST"})
         /\ Operate(0, Pushes(<<BOX(I.a)>>, heap))

(* Only the first interpreter compares the index with the length of the     *)
(* string table, and nothing compares it with 0.                           *)
WithString(action) ==
  IF I.a \in DOMAIN P.strings THEN action
  ELSE Stop(IF VERIFIED \/ I.a < 0 THEN "wild" ELSE "failed")

(* The allocators take sizes: that of a negative count wraps to less than   *)
(* the new object's header says, and what follows it is overwritten.        *)
WithCount(n, action) == IF n < 0 THEN Stop("wild") ELSE action

LoadString == /\ At({"STRING"})
              /\ WithString(Operate(0, Allocates(StringOf(P.strings[I.a]), heap)))

MakeSexp ==
  /\ At({"SEXP"})
  /\ WithString(WithCount(I.b,
       Operate(I.b, SexpOutcome(P.strings[I.a], Operands(I.b), heap))))

MakeArray == /\ At({"CALL_Barray"})
             /\ WithCount(I.a, Operate(I.a, Allocates(Array(Operands(I.a)), heap)))

StoreInto == /\ At({"STA"})
             /\ Operate(3, StaOutcome(Top(3), Top(2), Top(1), heap))

Elem == /\ At({"ELEM"})
        /\ Operate(2, ElemOutcome(Top(2), Top(1), heap))

Drop == /\ At({"DROP"})
        /\ Operate(1, Pushes(<<>>, heap))

Dup == /\ At({"DUP"})
       /\ Operate(1, Pushes(<<Top(1), Top(1)>>, heap))

Swap == /\ At({"SWAP"})
        /\ Operate(2, Pushes(<<Top(1), Top(2)>>, heap))

TestTag ==
  /\ At({"TAG"})
  /\ IF sp < 1 THEN Stop(PopFault)
     ELSE WithString(Operate(1, TagOutcome(P.strings[I.a], I.b, Top(1), heap)))

TestArray == /\ At({"ARRAY"})
             /\ Operate(1, ArrayOutcome(I.a, Top(1), heap))

PattEq == /\ At({"PATT_eq"})
          /\ Operate(2, PattEqOutcome(Top(2), Top(1), heap))

Pattern == /\ At(Patterns)
           /\ Operate(1, PatternOutcome(I.op, Top(1), heap))

Length == /\ At({"CALL_Llength"})
          /\ Operate(1, LengthOutcome(Top(1), heap))

Line == /\ At({"LINE"})
        /\ Operate(0, Pushes(<<>>, heap))

Read == /\ At({"CALL_Lread"})
        /\ \E n \in Inputs : Operate(0, Pushes(<<BOX(n)>>, heap))

(* The text of the value is left open: Lstring formats it.                  *)
Stringify == /\ At({"CALL_Lstring"})
             /\ \E cs \in Printed : Operate(1, Allocates(StringOf(cs), heap))

Write == /\ At({"CALL_Lwrite"})
         /\ Operate(1, WriteOutcome(Top(1), heap))
         /\ out' = IF status' = "running" THEN Append(out, Top(1).val) ELSE out

Fail == /\ At({"FAIL"})
        /\ Stop(IF sp < 1 THEN PopFault ELSE "failed")

-----------------------------------------------------------------------------
(***************************************************************************)
(* Variables.  The bounds of a slot are checked by the first interpreter   *)
(* only; a slot outside the array is undefined.                            *)
(***************************************************************************)
LoadSlot(slot, legal) ==
  IF ~ VERIFIED /\ ~ legal THEN Stop("failed")
  ELSE IF slot \notin Slots THEN Stop("wild")
  ELSE Operate(0, Pushes(<<stack[slot]>>, heap))

StoreSlot(slot, legal) ==
  IF sp < 1 THEN Stop(PopFault)
  ELSE IF ~ VERIFIED /\ ~ legal THEN Stop("failed")
  ELSE IF slot \notin Slots THEN Stop("wild")
  ELSE /\ stack' = [stack EXCEPT ![slot] = Top(1)]
       /\ ip' = ip + 1
       /\ UNCHANGED <<sp, heap, registers, status>>

ArgSlotBelow(a) == base - args - 1 - a                \* mutant
ArgSlot(a) == base - args + a

(* args is a size_t: a negative count of arguments is more than any index.  *)
Passed(a) == a \in 0 .. args - 1 \/ (args < 0 /\ a >= 0)

LoadGlobal == At({"LDG"}) /\ LoadSlot(I.a, I.a \in 0 .. P.globals - 1)
LoadLocal  == At({"LDL"}) /\ LoadSlot(base + I.a, I.a \in 0 .. locals - 1)
LoadArg    == At({"LDA"}) /\ LoadSlot(ArgSlot(I.a), Passed(I.a))

StoreGlobal == At({"STG"})  /\ StoreSlot(I.a, I.a \in 0 .. P.globals - 1)
StoreLocal  == At({"STL"})  /\ StoreSlot(base + I.a, I.a \in 0 .. locals - 1)
StoreArg    == At({"STA_"}) /\ StoreSlot(ArgSlot(I.a), Passed(I.a))

(* The closure being executed lies just below its arguments.                *)
ClosureSlotMissed == base - args                      \* mutant
ClosureSlot == base - args - 1

HoldsCapture(c) == /\ ClosureSlot \in Slots
                   /\ IsA(heap, stack[ClosureSlot], {"CLOSURE"})
                   /\ c + 1 \in DOMAIN heap[stack[ClosureSlot].val].elems

Capture(c) == heap[stack[ClosureSlot].val].elems[c + 1]

(* The check on captured is kept by both interpreters.                      *)
WithCapture(c, action) ==
  IF ~ VERIFIED /\ ~ is_closure THEN Stop("failed")
  ELSE IF ClosureSlot \notin Slots THEN Stop("wild")
  ELSE IF c \notin 0 .. captured - 1 THEN Stop("failed")
  ELSE IF ~ HoldsCapture(c) THEN Stop("wild")
  ELSE action

LoadCaptured == /\ At({"LDC"})
                /\ WithCapture(I.a, Operate(0, Pushes(<<Capture(I.a)>>, heap)))

StoreCaptured ==
  /\ At({"STC"})
  /\ WithCapture(I.a,
       Operate(1, Pushes(<<Top(1)>>,
         Assigned(heap, stack[ClosureSlot].val, I.a + 1, Top(1)))))

(* Neither interpreter checks what a closure captures.                      *)
CaptureSourceSwapped(c) == CASE c.kind = 0 -> c.m     \* mutant
                             [] c.kind = 1 -> ArgSlot(c.m)
                             [] OTHER      -> base + c.m
CaptureSource(c) == CASE c.kind = 0 -> c.m
                      [] c.kind = 1 -> base + c.m
                      [] OTHER      -> ArgSlot(c.m)

Capturable(c) == IF c.kind = 3 THEN HoldsCapture(c.m) ELSE CaptureSource(c) \in Slots

Captured(self, c) ==
  IF c.kind = 3 THEN Capture(c.m)
  ELSE IF CaptureSource(c) = sp THEN self
  ELSE stack[CaptureSource(c)]

MakeClosure ==
  /\ At({"CLOSURE"})
  /\ IF I.b < 0 THEN Stop("wild")
     ELSE IF sp >= STACK_MAX_SIZE THEN Stop(PushFault)
     ELSE IF \/ ~ VERIFIED /\ I.a \notin DOMAIN P.code
             \/ \E k \in 1 .. Len(I.caps) : I.caps[k].kind \notin 0 .. 3
       THEN Stop("failed")
     ELSE IF \E k \in 1 .. Len(I.caps) : ~ Capturable(I.caps[k]) THEN Stop("wild")
     ELSE Operate(0, Allocates(Closure(I.a,
            [k \in 1 .. Len(I.caps) |-> Captured(Ref(Len(heap) + 1), I.caps[k])]),
            heap))

-----------------------------------------------------------------------------
(***************************************************************************)
(* Control.                                                                *)
(***************************************************************************)
GoTo(l) == /\ ip' = l
           /\ UNCHANGED <<memory, registers, status>>

Jump == /\ At({"JMP"})
        /\ IF ~ VERIFIED /\ I.a \notin DOMAIN P.code THEN Stop("failed")
                                                         ELSE GoTo(I.a)

Branch ==
  /\ At(Branches)
  /\ IF sp < 1 THEN Stop(PopFault)
     ELSE IF ~ UNBOXED(Top(1)) THEN Stop("failed")
     ELSE LET taken == (Top(1).val = 0) = (I.op = "CJMPZ")
          IN  IF taken /\ ~ VERIFIED /\ I.a \notin DOMAIN P.code
                THEN Stop("failed")
                ELSE /\ ip' = IF taken THEN I.a ELSE ip + 1
                     /\ sp' = sp - 1
                     /\ UNCHANGED <<stack, heap, registers, status>>

(* BEGIN and CBEGIN open the frame; only Interpreter2 reads the depth, into *)
(* a sum that is a size_t: below 0 it is more than the stack.               *)
HasRoomForLocals == base + Locals(I) <= STACK_MAX_SIZE            \* mutant
HasRoom == base + Locals(I) + MaxDepth(I) \in 0 .. STACK_MAX_SIZE

Begin ==
  /\ At(Begins)
  /\ IF VERIFIED /\ ~ HasRoom
       THEN Stop("exhausted")
     ELSE IF ~ Fits(sp + Locals(I)) THEN Stop(PushFault)
     ELSE /\ locals' = Locals(I)
          /\ stack' = [j \in Slots |->
                         IF j \in sp .. sp + Locals(I) - 1 THEN Zero ELSE stack[j]]
          /\ sp' = sp + Locals(I)
          /\ ip' = ip + 1
          /\ UNCHANGED <<heap, base, args, captured, is_closure, frames, status>>

(* Save the registers and enter the function at l with n arguments.         *)
EnterFunction(l, n, closure, ncaptured) ==
  IF Len(frames) >= CALL_STACK_MAX_SIZE THEN Stop("exhausted")
  ELSE /\ frames' = Append(frames, SavedFrame)
       /\ ip' = l
       /\ is_closure' = closure
       /\ base' = sp
       /\ args' = n
       /\ captured' = ncaptured
       /\ locals' = 0
       /\ UNCHANGED <<memory, status>>

Call == At({"CALL"}) /\ EnterFunction(I.a, I.b, FALSE, 0)

CapturedByEntryToo(closure) == LenOf(closure)         \* mutant
CapturedBy(closure) == LenOf(closure) - 1

CallClosure ==
  /\ At({"CALLC"})
  /\ LET slot == sp - I.a - 1
     IN  IF slot \notin Slots THEN Stop("wild")
         ELSE IF ~ IsA(heap, stack[slot], {"CLOSURE"}) THEN Stop("failed")
         ELSE LET closure == heap[stack[slot].val]
              IN  EnterFunction(closure.entry, I.a, TRUE, CapturedBy(closure))

(* The value on top replaces the arguments and the closure of the call.     *)
FloorAboveClosure == base - args                      \* mutant
Floor == base - args - (IF is_closure THEN 1 ELSE 0)

OutermostByDepth(f) == Len(frames) = 0                \* mutant
Outermost(f) == f.prev_ip = 0

Return ==
  /\ At(Returns)
  /\ IF sp < 1 THEN Stop(PopFault)
     ELSE IF Floor < 0 THEN Stop("wild")
     ELSE IF Floor >= STACK_MAX_SIZE THEN Stop(PushFault)
     ELSE LET f == frames[Len(frames)]
          IN  /\ stack' = [stack EXCEPT ![Floor] = Top(1)]
              /\ sp' = Floor + 1
              /\ UNCHANGED heap
              /\ IF Outermost(f)
                   THEN /\ status' = "halted"
                        /\ UNCHANGED <<ip, registers>>
                   ELSE /\ ip' = f.prev_ip
                        /\ base' = f.prev_base
                        /\ args' = f.prev_args
                        /\ locals' = f.prev_locals
                        /\ captured' = f.prev_captured
                        /\ is_closure' = f.is_closure
                        /\ frames' = SubSeq(frames, 1, Len(frames) - 1)
                        /\ UNCHANGED status

-----------------------------------------------------------------------------
Data == \/ BinaryOp \/ Const \/ LoadString \/ MakeSexp \/ MakeArray
        \/ StoreInto \/ Elem \/ Drop \/ Dup \/ Swap \/ TestTag \/ TestArray
        \/ PattEq \/ Pattern \/ Length \/ Line \/ Read \/ Stringify

Variable == \/ LoadGlobal \/ LoadLocal \/ LoadArg \/ LoadCaptured
            \/ StoreGlobal \/ StoreLocal \/ StoreArg \/ StoreCaptured

Control == \/ FetchOutside \/ Unsupported \/ Fail \/ Jump \/ Branch \/ Begin
           \/ MakeClosure \/ Call \/ CallClosure \/ Return

(* The process has exited.                                                 *)
Exited == status # "running" /\ UNCHANGED vars

Next == \/ UNCHANGED prog /\ (\/ (Data \/ Variable \/ Control) /\ UNCHANGED out
                              \/ Write)
        \/ Exited

Spec == Init /\ [][Next]_vars

-----------------------------------------------------------------------------
(***************************************************************************)
(* Properties.                                                             *)
(***************************************************************************)
Frame == [prev_ip : Nat, prev_base : Int, prev_args : Int, prev_locals : Int,
          prev_captured : Int, is_closure : BOOLEAN]

(* Every register and slot holds what its declaration says, every reference *)
(* on the stack or in an object is to an allocated object, whatever the     *)
(* code does until its run is undefined; the frame whose prev_ip is 0, which *)
(* END takes for the end of the program, is the outermost one and no other. *)
TypeOK ==
  /\ prog \in DOMAIN Programs
  /\ ip \in Int
  /\ stack \in [Slots -> Value(Len(heap))]
  /\ sp \in 0 .. STACK_MAX_SIZE
  /\ base \in Int /\ args \in Int /\ locals \in Int /\ captured \in Int
  /\ is_closure \in BOOLEAN
  /\ frames \in Seq(Frame) /\ frames # <<>>
  /\ \A k \in 1 .. Len(frames) : frames[k].prev_ip = 0 <=> k = 1
  /\ heap \in Seq(Object(Len(heap)))
  /\ out \in Seq(Int)
  /\ status \in Statuses

(* The programs that obey the discipline of Bytecode and whose globals fit  *)
(* on the stack, and those of them whose headers carry sufficient depths.    *)
Sound == {n \in DOMAIN Programs : WellFormed(Programs[n]) /\ Fits(Programs[n].globals + 2)}
Bounded == {n \in Sound : Annotated(Programs[n])}

(* Slots an activation owns above its base when it is at instruction i:     *)
(* none before its BEGIN, then its locals and the operands.                 *)
Header(i) == P.code[P.owner[i]]
Height(i) == IF P.code[i].op \in Begins THEN 0
                                           ELSE Locals(Header(i)) + P.depth[i]

(* The activations of the call stack: frames[k] saves the registers of      *)
(* activation k-1, and activation Len(frames) is the running one.           *)
Depth == Len(frames)
Base(k) == IF k = Depth THEN base ELSE frames[k + 1].prev_base
FloorAt(k) == IF k = Depth THEN Floor
              ELSE LET f == frames[k + 1]
                   IN  f.prev_base - f.prev_args - (IF f.is_closure THEN 1 ELSE 0)

ReturnPoint(i) == i \in Reachable(P) /\ P.code[i].op \notin Begins

(* In a well-formed program the stack is cut exactly into the slots of its  *)
(* activations: the running one ends at sp, and each suspended one ends     *)
(* where its callee's closure and arguments start, plus the slot the result *)
(* will take.  CALL, CALLC, BEGIN and END keep this over any nesting.       *)
Balanced ==
  (prog \in Sound /\ status = "running") =>
    /\ ip \in Reachable(P)
    /\ sp = base + Height(ip)
    /\ FloorAt(1) = P.globals
    /\ \A k \in 2 .. Depth :
         /\ ReturnPoint(frames[k].prev_ip)
         /\ Base(k - 1) + Height(frames[k].prev_ip) = FloorAt(k) + 1

(* Interpreter2 has no checks in push and pop.  In a well-formed program    *)
(* whose headers carry a sufficient depth, the check in BEGIN stands for    *)
(* all of them: no push leaves the stack and no pop finds it empty.  The    *)
(* depth must come with the file: Verifier::verify, whose loop never runs,  *)
(* records none.                                                           *)
StackSafe ==
  (VERIFIED /\ prog \in Bounded)
    => status \notin {"underflow", "overflow"}

(* Interpreter checks every slot of an instruction against the current      *)
(* frame; in a well-formed program only the captures of a CLOSURE, which    *)
(* it leaves unchecked, may reach outside an object or the stack.           *)
SlotsChecked ==
  (prog \in Sound /\ ~ VERIFIED /\ status = "wild") => I.op = "CLOSURE"

(* A running closure is where LDC and STC look for it, below the arguments, *)
(* and captured says how many values it holds: the function may assign its  *)
(* arguments and call other functions, but not lose its own closure.        *)
ClosureKept ==
  (prog \in Sound /\ status = "running" /\ is_closure) =>
    /\ ClosureSlot \in Slots
    /\ IsA(heap, stack[ClosureSlot], {"CLOSURE"})
    /\ captured = Len(heap[stack[ClosureSlot].val].elems)

(* An argument that is loaded or assigned is one the caller passed: the     *)
(* check of Interpreter, which Interpreter2 drops for one of the header's   *)
(* argument count in Verifier::verify.                                     *)
ArgumentWasPassed ==
  (prog \in Sound /\ VERIFIED /\ status = "running" /\ I.op \in {"LDA", "STA_"})
    => I.a < args

(* What no analysis of one function can see and no check of the interpreter *)
(* stands for: a call passes as many arguments as its callee uses, a        *)
(* function that uses captured values is called through a closure which     *)
(* holds as many, and no field of an s-expression is assigned (the handler  *)
(* of STA misses the fields).                                              *)
Disciplined ==
  (prog \in Sound /\ status = "running") =>
    /\ VERIFIED => /\ I.op \in {"LDA", "STA_"} => I.a < args
                   /\ I.op \in {"LDC", "STC"} => is_closure
    /\ I.op = "CLOSURE" =>
         \A k \in 1 .. Len(I.caps) :
           /\ I.caps[k].kind = 2 => I.caps[k].m < args
           /\ I.caps[k].kind = 3 => is_closure /\ I.caps[k].m < captured
    /\ I.op = "STA" => ~ IsA(heap, Top(3), {"SEXP"})

(* The values in slots lo .. hi-1.                                          *)
Slice(lo, hi) == <<>> \o [j \in 1 .. hi - lo |-> stack[lo + j - 1]]

(* Activation k as a value of its own: its stretch of the stack cut into    *)
(* arguments, locals and operands.                                          *)
IpAt(k)     == IF k = Depth THEN ip ELSE frames[k + 1].prev_ip
ArgsAt(k)   == IF k = Depth THEN args ELSE frames[k + 1].prev_args
LocalsAt(k) == IF P.code[IpAt(k)].op \in Begins THEN 0
               ELSE IF k = Depth THEN locals ELSE frames[k + 1].prev_locals
Runs(k)     == IF k = Depth THEN is_closure ELSE frames[k + 1].is_closure
EndOf(k)    == IF k = Depth THEN sp ELSE FloorAt(k + 1)

ActivationAt(k) ==
  [ip     |-> IpAt(k),
   args   |-> Slice(Base(k) - ArgsAt(k), Base(k)),
   locals |-> Slice(Base(k), Base(k) + LocalsAt(k)),
   opnds  |-> Slice(Base(k) + LocalsAt(k), EndOf(k)),
   self   |-> IF Runs(k) THEN stack[FloorAt(k)] ELSE Zero]

(* <<>> \o has TLC compute the sequence where it is substituted.            *)
Activations == <<>> \o [k \in 1 .. Depth |-> ActivationAt(k)]

Machine == INSTANCE LamaMachine WITH
  acts    <- IF status = "running" THEN Activations ELSE <<>>,
  globals <- IF status = "running" THEN Slice(0, P.globals) ELSE <<>>

(* The interpreter implements the abstract machine: flat stack, registers   *)
(* and frames behave as activations that cannot touch one another, each     *)
(* call returns to a caller exactly as it left it, and what is written is   *)
(* the same.                                                               *)
ImplementsMachine == Machine!Spec

(* No step of a well-formed program writes a slot that belongs to a caller: *)
(* below its own closure and arguments an activation assigns only globals.  *)
CallerUntouched ==
  [][(prog \in Sound) => \A j \in Slots : (P.globals <= j /\ j < Floor)
                                             => stack'[j] = stack[j]]_vars
=============================================================================
