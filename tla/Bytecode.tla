------------------------------ MODULE Bytecode ------------------------------
(***************************************************************************)
(* The instruction set of the Lama virtual machine and the static          *)
(* discipline that compiled code obeys: what the checks of Verifier::verify *)
(* would establish, were its worklist not empty from the start.            *)
(*                                                                         *)
(* An instruction is a record [op, a, b, caps]: op is the enumerator's     *)
(* name in commons.h, a and b stand for args[0] and args[1], caps for the  *)
(* capture list that follows a CLOSURE.  The code section is a function    *)
(* from 0..n-1 to instructions: an offset counts instructions rather than  *)
(* bytes, which keeps the two facts the interpreters rely on (offset 0 is  *)
(* the first instruction, the offset after a call is never 0).             *)
(***************************************************************************)
EXTENDS Integers, Sequences

LOCALS_RANGE == 65536     \* BEGIN keeps its locals in the low 16 bits of args[1]

Arithmetic == {"ADD", "SUB", "MUL", "DIV", "REM"}
Relational == {"LSS", "LEQ", "GRE", "GEQ", "NEQ", "AND", "OR"}
Binary     == Arithmetic \cup Relational \cup {"EQU"}
Begins     == {"BEGIN", "CBEGIN"}
Returns    == {"END", "RET"}
Branches   == {"CJMPZ", "CJMPNZ"}
Patterns   == {"PATT_is_string", "PATT_is_array", "PATT_is_sexp",
               "PATT_is_ref", "PATT_is_val", "PATT_is_fun"}
Loads      == {"LDG", "LDL", "LDA", "LDC"}
Stores     == {"STG", "STL", "STA_", "STC"}
AddressOf  == {"LDGR", "LDLR", "LDAR", "LDCR"}

(* Instructions both interpreters refuse: not_implemented exits.           *)
NotImplemented == AddressOf \cup {"STI"}

Opcodes == Binary \cup Begins \cup Returns \cup Branches \cup Patterns
           \cup Loads \cup Stores \cup NotImplemented
           \cup {"CONST", "STRING", "SEXP", "STA", "JMP", "DROP", "DUP",
                 "SWAP", "ELEM", "CLOSURE", "CALLC", "CALL", "TAG", "ARRAY",
                 "FAIL", "LINE", "PATT_eq", "CALL_Lread", "CALL_Lwrite",
                 "CALL_Llength", "CALL_Lstring", "CALL_Barray"}

-----------------------------------------------------------------------------
(***************************************************************************)
(* Instruction::get_popped and Instruction::get_pushed.                    *)
(***************************************************************************)
Popped(i) ==
  CASE i.op \in {"CONST", "STRING", "JMP", "CLOSURE", "LINE", "CALL_Lread"}
                    \cup Loads \cup AddressOf \cup Begins  -> 0
    [] i.op \in Binary \cup {"STI", "SWAP", "ELEM", "PATT_eq"}  -> 2
    [] i.op = "STA"         -> 3
    [] i.op \in {"SEXP", "CALL"}  -> i.b
    [] i.op = "CALLC"       -> i.a + 1
    [] i.op = "CALL_Barray" -> i.a
    [] i.op \in Returns \cup Stores \cup Branches \cup Patterns
                    \cup {"DROP", "DUP", "TAG", "ARRAY", "FAIL",
                          "CALL_Lwrite", "CALL_Llength", "CALL_Lstring"}  -> 1
    [] OTHER                -> 0

PushesTwo == {"DUP", "SWAP"}
PushesNone == {"JMP", "DROP", "FAIL", "LINE"} \cup Branches \cup Begins

Pushed(i) == IF i.op \in PushesTwo THEN 2
             ELSE IF i.op \in Opcodes \ PushesNone THEN 1
             ELSE 0

(* args[1] of BEGIN: locals in the low half, and in the high half the depth  *)
(* that BEGIN of Interpreter2 makes room for.                              *)
Locals(i)   == i.b % LOCALS_RANGE
MaxDepth(i) == i.b \div LOCALS_RANGE

-----------------------------------------------------------------------------
(***************************************************************************)
(* A program is a record [code, globals, strings, depth, owner].  depth    *)
(* and owner are no part of the file but a certificate that goes with it    *)
(* (stack_sizes and cur_header): depth[i] is the operand depth of the      *)
(* current function before instruction i, -1 where i is unreachable, and   *)
(* owner[i] is the offset of the BEGIN of the function i belongs to.       *)
(***************************************************************************)

(* Any instruction at all: an opcode and the int32_t's that follow it.  They *)
(* are read without a look at their signs, so counts may be negative.       *)
IsInstruction(i) == /\ i.op \in STRING
                    /\ i.a \in Int /\ i.b \in Int
                    /\ i.caps \in Seq([kind : Int, m : Int])

(* strings gives the text from each index of the string table to its NUL;   *)
(* the loader has refused negative numbers of globals.                      *)
IsProgram(p) ==
  /\ DOMAIN p.code \subseteq Nat
  /\ \A i \in DOMAIN p.code : IsInstruction(p.code[i])
  /\ p.globals \in Nat
  /\ \A s \in DOMAIN p.strings : p.strings[s] \in Seq(Int)
  /\ p.depth \in [DOMAIN p.code -> Int]
  /\ p.owner \in [DOMAIN p.code -> Int]

Reachable(p) == {i \in DOMAIN p.code : p.depth[i] >= 0}

IsEntry(p, l) == /\ l \in Reachable(p)
                 /\ p.code[l].op \in Begins

Successors(p, i) ==
  LET c == p.code[i]
  IN  CASE c.op = "JMP"  -> {c.a}
        [] c.op \in Branches  -> {c.a, i + 1}
        [] c.op \in Returns \cup NotImplemented \cup {"FAIL"}  -> {}
        [] OTHER  -> {i + 1}

(* Control reaches s from i inside one function, with matching depths.      *)
Follows(p, i, s) ==
  /\ s \in Reachable(p)
  /\ p.code[s].op \notin Begins
  /\ p.depth[s] = p.depth[i] + Pushed(p.code[i]) - Popped(p.code[i])
  /\ p.owner[s] = p.owner[i]

CaptureInRange(p, header, c) ==
  CASE c.kind = 0  -> c.m \in 0 .. p.globals - 1
    [] c.kind = 1  -> c.m \in 0 .. Locals(header) - 1
    [] c.kind = 2  -> c.m \in 0 .. header.a - 1
    [] OTHER       -> c.kind = 3 /\ c.m \in Nat

(* What must hold at one reachable instruction: operands enough, operands    *)
(* of the instruction that are not negative, targets, slots and strings that *)
(* are there.                                                              *)
WellPlaced(p, i) ==
  LET c == p.code[i]
      header == p.code[p.owner[i]]
  IN  /\ IsEntry(p, p.owner[i])
      /\ c.op \in Opcodes
      /\ Popped(c) \in Nat
      /\ p.depth[i] >= Popped(c)
      /\ c.op \in Begins => p.depth[i] = 0 /\ p.owner[i] = i /\ c.b \in Nat
      /\ \A s \in Successors(p, i) : Follows(p, i, s)
      /\ c.op \in {"CALL", "CLOSURE"} => IsEntry(p, c.a)
      /\ c.op = "CLOSURE" =>
           c.b \in Nat /\ \A k \in 1 .. Len(c.caps) : CaptureInRange(p, header, c.caps[k])
      /\ c.op = "CALLC" => c.a \in Nat
      /\ c.op \in {"LDG", "STG"} => c.a \in 0 .. p.globals - 1
      /\ c.op \in {"LDL", "STL"} => c.a \in 0 .. Locals(header) - 1
      /\ c.op \in {"LDA", "STA_"} => c.a \in 0 .. header.a - 1
      /\ c.op \in {"STRING", "SEXP", "TAG"} => c.a \in DOMAIN p.strings

(* The program starts at offset 0, in the function that opens there.        *)
WellFormed(p) == /\ IsEntry(p, 0)
                 /\ \A i \in Reachable(p) : WellPlaced(p, i)

(* Every header records a depth no instruction of its function exceeds.     *)
Annotated(p) == \A i \in Reachable(p) :
                  p.depth[i] <= MaxDepth(p.code[p.owner[i]])
=============================================================================
