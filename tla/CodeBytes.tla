------------------------------ MODULE CodeBytes ------------------------------
(***************************************************************************)
(* The code section as bytes: how commons.cpp reads an instruction that    *)
(* starts at any byte, how long it is, which one follows it and how two    *)
(* compare.  A code section is a function from offsets 0..n-1 to bytes.    *)
(***************************************************************************)
EXTENDS Bytecode

Null == -1                              \* nullptr, where an offset is meant

Offsets(c) == DOMAIN c

(* enum Instr: runs of consecutive codes, each from its first value.        *)
CodeRuns == {
  <<1,   <<"ADD", "SUB", "MUL", "DIV", "REM", "LSS", "LEQ", "GRE", "GEQ",
           "EQU", "NEQ", "AND", "OR">>>>,
  <<16,  <<"CONST", "STRING", "SEXP", "STI", "STA", "JMP", "END", "RET",
           "DROP", "DUP", "SWAP", "ELEM">>>>,
  <<32,  <<"LDG", "LDL", "LDA", "LDC">>>>,
  <<48,  <<"LDGR", "LDLR", "LDAR", "LDCR">>>>,
  <<64,  <<"STG", "STL", "STA_", "STC">>>>,
  <<80,  <<"CJMPZ", "CJMPNZ", "BEGIN", "CBEGIN", "CLOSURE", "CALLC", "CALL",
           "TAG", "ARRAY", "FAIL", "LINE">>>>,
  <<96,  <<"PATT_eq", "PATT_is_string", "PATT_is_array", "PATT_is_sexp",
           "PATT_is_ref", "PATT_is_val", "PATT_is_fun">>>>,
  <<112, <<"CALL_Lread", "CALL_Lwrite", "CALL_Llength", "CALL_Lstring",
           "CALL_Barray">>>>}

OpcodeOf == [b \in 0 .. 255 |->
  IF \E r \in CodeRuns : b - r[1] + 1 \in DOMAIN r[2]
    THEN LET run == CHOOSE r \in CodeRuns : b - r[1] + 1 \in DOMAIN r[2]
         IN  run[2][b - run[1] + 1]
    ELSE "UNK"]

Op(c, i) == OpcodeOf[c[i]]

(* Instruction::get_args_length: 32-bit arguments after the opcode.         *)
TwoArgs == {"SEXP", "CLOSURE", "CALL", "TAG", "FAIL"} \cup Begins
OneArg  == {"CONST", "STRING", "JMP", "CALLC", "ARRAY", "LINE", "CALL_Barray"}
             \cup Loads \cup AddressOf \cup Stores \cup Branches

ArgsLength(op) == IF op \in TwoArgs THEN 2 ELSE IF op \in OneArg THEN 1 ELSE 0

(* A little-endian int32_t.                                                *)
Signed(b) == IF b >= 128 THEN b - 256 ELSE b
Int32(c, i) == c[i] + 256 * c[i + 1] + 65536 * c[i + 2] + 16777216 * Signed(c[i + 3])

Arg(c, i, k) == Int32(c, i + 1 + 4 * k)                  \* args[k]

(* Whether the arguments of the instruction at i lie in the code section:   *)
(* nothing in Code checks it before they are read.                         *)
Complete(c, i) == i + 4 * ArgsLength(Op(c, i)) \in Offsets(c)

(* Instruction::size.  A CLOSURE is followed by args[1] captures of a kind  *)
(* and an int32_t.                                                         *)
SizeWithoutOpcode(c, i) == 4 * ArgsLength(Op(c, i))                 \* mutant
SizeAt(c, i) == 1 + 4 * ArgsLength(Op(c, i))
                  + (IF Op(c, i) = "CLOSURE" THEN 5 * Arg(c, i, 1) ELSE 0)

(* Code::get_next and get_next_inc.  A size is a size_t: a negative sum is   *)
(* a huge one, past the end like any other that is no offset.              *)
OffsetOrNull(c, i) == IF i \in Offsets(c) THEN i ELSE Null
get_next(c, i)     == OffsetOrNull(c, i + SizeAt(c, i))
get_next_inc(c, i) == OffsetOrNull(c, i + 1)

(* Instruction::cmp is memcmp over the bytes of the first: the first byte in *)
(* which they differ decides.  Two whole instructions that agree so far are *)
(* as long as each other, so the byte exists in both.                      *)
Whole(c, i) == Complete(c, i) /\ SizeAt(c, i) > 0 /\ i + SizeAt(c, i) - 1 \in Offsets(c)

AgreeTo(c, i, j, n) == \A k \in 0 .. n - 1 : c[i + k] = c[j + k]
Precedes(c, i, j) ==
  \E k \in 0 .. SizeAt(c, i) - 1 : AgreeTo(c, i, j, k) /\ c[i + k] < c[j + k]

SameOpcode(c, i, j) == c[i] = c[j]                                  \* mutant
Same(c, i, j) == AgreeTo(c, i, j, SizeAt(c, i))

(* Where control goes from the instruction at i, to the functions it calls   *)
(* or makes closures of as well, and what it reaches from entries.          *)
Targeting == {"JMP", "CALL", "CLOSURE"} \cup Branches

ControlFlow(c, i) ==
  LET op    == Op(c, i)
      whole == op \in Targeting => Complete(c, i)
  IN  (IF op \in Targeting /\ whole THEN {Arg(c, i, 0)} \cap Offsets(c) ELSE {})
      \cup
      (IF op \notin {"JMP", "FAIL"} \cup Returns /\ whole THEN {get_next(c, i)} \ {Null} ELSE {})

ReachedFrom(c, entries) ==
  LET grow[S \in SUBSET Offsets(c)] ==
        LET more == S \cup UNION {ControlFlow(c, i) : i \in S}
        IN  IF more = S THEN S ELSE grow[more]
  IN  grow[entries]
=============================================================================
