----------------------------- MODULE MCPrograms -----------------------------
(***************************************************************************)
(* Small programs for the model checker, in the code lamac emits, with the  *)
(* certificate (depth, owner) a flow analysis of them yields.              *)
(***************************************************************************)
EXTENDS Interpreter, TLC, FiniteSets

Ins(op)         == [op |-> op, a |-> 0, b |-> 0, caps |-> <<>>]
Ins1(op, a)     == [op |-> op, a |-> a, b |-> 0, caps |-> <<>>]
Ins2(op, a, b)  == [op |-> op, a |-> a, b |-> b, caps |-> <<>>]
MkClosure(l, c) == [op |-> "CLOSURE", a |-> l, b |-> Len(c), caps |-> c]
Cap(k, m)       == [kind |-> k, m |-> m]

(* The function f, its values computed once and for all.                    *)
Explicit(f) == f @@ <<>>

RECURSIVE Flow(_, _, _)
Flow(code, work, cert) ==
  IF work = {} THEN cert
  ELSE LET w    == CHOOSE x \in work : TRUE
           i    == w[1]
           rest == work \ {w}
       IN  IF i \notin DOMAIN code \/ cert.depth[i] >= 0 THEN Flow(code, rest, cert)
           ELSE LET c     == code[i]
                    after == w[2] + Pushed(c) - Popped(c)
                    succs == {<<s, after, w[3]>> : s \in
                                Successors([code |-> code], i)}
                    calls == IF c.op \in {"CALL", "CLOSURE"}
                               THEN {<<c.a, 0, c.a>>} ELSE {}
                IN  IF after < 0 THEN Flow(code, rest, cert)
                    ELSE Flow(code, rest \cup succs \cup calls,
                              [depth |-> (i :> w[2]) @@ cert.depth,
                               owner |-> (i :> w[3]) @@ cert.owner])

Certificate(code) ==
  Flow(code, {<<0, 0, 0>>}, [depth |-> [i \in DOMAIN code |-> -1],
                             owner |-> [i \in DOMAIN code |-> 0]])

Numbered(seq) == Explicit([i \in 0 .. Len(seq) - 1 |-> seq[i + 1]])

(* The last two are no names LtagHash accepts.                              *)
Strings == Numbered(<<<<65>>, <<66, 67>>, <<67>>, <<95, 65>>, <<33>>>>)

(* The code is bound, so that TLC computes it and its certificate once.      *)
Program(globals, seq) ==
  LET with(code, cert) == [code |-> code, globals |-> globals, strings |-> Strings,
                           depth |-> cert.depth, owner |-> cert.owner]
  IN  CHOOSE p \in {with(code, Certificate(code)) : code \in {Numbered(seq)}} : TRUE

Unanalysed(globals, seq) ==
  LET code == Numbered(seq)
  IN  [code |-> code, globals |-> globals, strings |-> Strings,
       depth |-> [i \in DOMAIN code |-> -1], owner |-> [i \in DOMAIN code |-> 0]]

(* The deepest operand stack of each function, in the high half of args[1]. *)
MaxOf(S) == CHOOSE x \in S : \A y \in S : y <= x
Annotate(p) ==
  [p EXCEPT !.code = Explicit([i \in DOMAIN p.code |->
     IF p.code[i].op \in Begins /\ IsEntry(p, i)
       THEN [p.code[i] EXCEPT !.b = Locals(p.code[i]) + LOCALS_RANGE *
               MaxOf({p.depth[j] : j \in {j \in Reachable(p) : p.owner[j] = i}})]
       ELSE p.code[i]])]

-----------------------------------------------------------------------------
(* main reads n, writes n!, computed by recursion through an argument.      *)
Factorial == Program(0, <<
  Ins2("BEGIN", 2, 1),          \* 0
  Ins("CALL_Lread"),
  Ins1("STL", 0),
  Ins("DROP"),
  Ins1("LDL", 0),
  Ins2("CALL", 8, 1),
  Ins("CALL_Lwrite"),
  Ins("END"),
  Ins2("BEGIN", 1, 0),          \* 8
  Ins1("LDA", 0),
  Ins1("CJMPNZ", 13),
  Ins1("CONST", 1),
  Ins("END"),
  Ins1("LDA", 0),               \* 13
  Ins("DUP"),
  Ins1("CONST", 1),
  Ins("SUB"),
  Ins1("STA_", 0),
  Ins2("CALL", 8, 1),
  Ins("MUL"),
  Ins1("JMP", 21),
  Ins("END")>>)                 \* 21

(* A closure captures a global, a local and an argument of its maker,       *)
(* assigns what it captured, and twice makes and calls a closure of its own. *)
Counter == Program(1, <<
  Ins2("BEGIN", 2, 1),          \* 0
  Ins("CALL_Lread"),
  Ins1("STG", 0),
  Ins1("STL", 0),
  Ins("DROP"),
  Ins1("LDL", 0),
  Ins2("CALL", 15, 1),          \* closure
  Ins("DUP"),
  Ins1("CALLC", 0),
  Ins("CALL_Lwrite"),
  Ins("DROP"),
  Ins1("LDG", 0),
  Ins("CALL_Lwrite"),
  Ins("END"),
  Ins("END"),
  Ins2("BEGIN", 1, 1),          \* 15
  Ins1("CONST", 5),
  Ins1("STL", 0),
  Ins("DROP"),
  MkClosure(21, <<Cap(0, 0), Cap(1, 0), Cap(2, 0)>>),
  Ins("END"),
  Ins2("CBEGIN", 0, 0),         \* 21
  Ins1("LDC", 2),
  Ins1("STG", 0),
  Ins("DROP"),
  Ins1("LDC", 0),
  Ins1("LDC", 1),
  Ins("ADD"),
  Ins1("STC", 1),
  MkClosure(36, <<Cap(3, 1)>>),
  Ins("SWAP"),
  Ins1("CALLC", 1),
  MkClosure(36, <<Cap(3, 1)>>), \* what is left to capture after a call
  Ins("SWAP"),
  Ins1("CALLC", 1),
  Ins("END"),
  Ins2("CBEGIN", 1, 0),         \* 36
  Ins1("LDC", 0),
  Ins1("LDA", 0),
  Ins("SUB"),
  Ins1("STA_", 0),
  Ins("END")>>)

(* Aggregates: build, measure, index, assign and match.                     *)
Aggregate(store) == Program(1, <<
  Ins2("BEGIN", 2, 1),          \* 0
  Ins1("CONST", 7),
  Ins("CALL_Lread"),
  store,
  Ins1("STL", 0),
  Ins("DUP"),
  Ins("CALL_Llength"),
  Ins("CALL_Lwrite"),
  Ins("DROP"),
  Ins("CALL_Lread"),            \* index
  Ins("CALL_Lread"),            \* value
  Ins("STA"),
  Ins("DROP"),
  Ins1("LDL", 0),
  Ins1("CONST", 0),
  Ins("ELEM"),
  Ins("DUP"),
  Ins("PATT_is_val"),
  Ins1("CJMPZ", 21),
  Ins("CALL_Lwrite"),
  Ins1("JMP", 22),
  Ins2("FAIL", 0, 0),           \* 21
  Ins("DROP"),
  Ins1("LDL", 0),
  Ins("DUP"),
  Ins2("TAG", 0, 2),
  Ins1("CJMPNZ", 30),
  Ins("DUP"),
  Ins1("ARRAY", 2),
  Ins("DROP"),
  Ins("PATT_is_sexp"),          \* 30
  Ins("END")>>)

(* Strings, patterns and comparisons, on every kind of value.               *)
Matching(make, test) == Program(1, <<
  Ins2("BEGIN", 2, 0),          \* 0
  Ins("LINE"),
  Ins("CALL_Lread"),
  make,
  Ins("DUP"),
  test,
  Ins1("CJMPZ", 9),
  Ins("DROP"),
  Ins1("STRING", 1),
  Ins1("STG", 0),               \* 9
  Ins1("LDG", 0),
  Ins("PATT_eq"),
  Ins("RET")>>)

Makers == <<Ins("LINE"), Ins1("CALL_Barray", 1), Ins2("SEXP", 1, 1),
            Ins("CALL_Lstring"), MkClosure(0, <<>>)>>

(* A closure of one parameter is called with no argument.                   *)
Misapplied == Program(0, <<
  Ins2("BEGIN", 2, 1),          \* 0
  Ins("CALL_Lread"),
  Ins1("STL", 0),
  MkClosure(7, <<>>),
  Ins1("CALLC", 0),
  Ins("CALL_Lwrite"),
  Ins("END"),
  Ins2("BEGIN", 1, 0),          \* 7
  Ins1("LDA", 0),
  Ins("END")>>)
=============================================================================
