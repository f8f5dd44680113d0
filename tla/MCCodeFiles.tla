---------------------------- MODULE MCCodeFiles ----------------------------
(***************************************************************************)
(* Code sections for the model checker, assembled from instructions.  The   *)
(* target of a jump, a branch, a call or a closure is written as the        *)
(* position of an instruction in the list and becomes its offset.          *)
(***************************************************************************)
EXTENDS CodeBytes, SequencesExt, TLC

(* The function f, its values computed once and for all.                    *)
Explicit(f) == f @@ <<>>

Ins(op)         == [op |-> op, args |-> <<>>, caps |-> <<>>]
Ins1(op, a)     == [op |-> op, args |-> <<a>>, caps |-> <<>>]
Ins2(op, a, b)  == [op |-> op, args |-> <<a, b>>, caps |-> <<>>]
MkClosure(l, c) == [op |-> "CLOSURE", args |-> <<l, Len(c)>>, caps |-> c]
Cap(k, m)       == <<k, m>>

(* An opcode with the rest of the file missing.                             *)
Truncated(op)   == [op |-> op, args |-> <<>>, caps |-> <<>>]

Word(n) == <<n % 256, (n \div 256) % 256, (n \div 65536) % 256, (n \div 16777216) % 256>>

ByteOf(op) == CHOOSE b \in 0 .. 255 : OpcodeOf[b] = op
LengthOf(ins) == 1 + 4 * Len(ins.args) + 5 * Len(ins.caps)

OffsetOf(seq, k) == FoldLeft(LAMBDA n, ins : n + LengthOf(ins), 0, SubSeq(seq, 1, k))

Targets == {"JMP", "CALL", "CLOSURE"} \cup Branches
Encode(seq, ins) ==
  LET args == IF ins.op \in Targets /\ ins.args # <<>>
                THEN [ins.args EXCEPT ![1] = IF @ < 0 THEN @ ELSE OffsetOf(seq, @)]
                ELSE ins.args
  IN  <<ByteOf(ins.op)>> \o FlattenSeq([k \in DOMAIN args |-> Word(args[k])])
        \o FlattenSeq([k \in DOMAIN ins.caps |-> <<ins.caps[k][1]>> \o Word(ins.caps[k][2])])

Assemble(seq) ==
  LET bytes == FlattenSeq([k \in DOMAIN seq |-> Encode(seq, seq[k])])
  IN  Explicit([i \in 0 .. Len(bytes) - 1 |-> bytes[i + 1]])

File(pubs, seq) == [code |-> Assemble(seq),
                    pubs |-> <<>> \o [k \in DOMAIN pubs |-> OffsetOf(seq, pubs[k])]]

(* Every way to fill three instructions of a function that starts at the     *)
(* first byte: straight lines, loops, branches that meet again, calls and    *)
(* closures over the function itself and over what follows, dead code.      *)
Fragments == <<Ins1("CONST", 1), Ins1("CONST", 2), Ins("ADD"), Ins1("JMP", 1), Ins1("JMP", 3),
               Ins1("CJMPZ", 3), Ins1("CJMPNZ", 0), Ins2("CALL", 5, 0),
               MkClosure(5, <<Cap(1, 0)>>), MkClosure(5, <<>>), Ins("RET")>>

Body(n) == <<Ins2("BEGIN", 2, 1)>> \o [k \in 1 .. 3 |-> Fragments[n[k]]]
             \o <<Ins("END"), Ins2("BEGIN", 2, 1), Ins1("CONST", 1), Ins("END")>>

AnyFiles == Explicit([n \in [1 .. 3 -> 1 .. Len(Fragments)] |-> File(<<0>>, Body(n))])

(* Targets outside the code and arguments cut off by the end of the file.   *)
BrokenFiles == Explicit(
  [n \in {<<0, 0, k>> : k \in 1 .. 9} |->
     File(<<0>>, <<Ins2("BEGIN", 2, 0),
       CASE n[3] = 1 -> Ins1("JMP", -1)       [] n[3] = 2 -> Ins1("CJMPZ", -1)
         [] n[3] = 3 -> Ins2("CALL", -1, 0)   [] n[3] = 4 -> Truncated("JMP")
         [] n[3] = 5 -> Truncated("CLOSURE")  [] n[3] = 6 -> Truncated("CONST")
         [] n[3] = 7 -> Truncated("BEGIN")    [] n[3] = 8 -> Ins2("CALL", 0, 0)
         [] OTHER -> Ins("DROP")>>)])
=============================================================================
