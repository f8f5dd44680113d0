---------------------------- MODULE MCInterpreter ----------------------------
(***************************************************************************)
(* The sets of programs the configurations of Interpreter load.            *)
(***************************************************************************)
EXTENDS MCPrograms

ArrayProgram == Aggregate(Ins1("CALL_Barray", 2))
StringProgram == Aggregate(Ins1("STRING", 1))

PatternSeq == <<"PATT_is_string", "PATT_is_array", "PATT_is_sexp",
                "PATT_is_ref", "PATT_is_val", "PATT_is_fun">>

(* Every pattern against every kind of value.                               *)
MatchingPrograms == Explicit([n \in 1 .. 30 |->
  Matching(Makers[((n - 1) \div 6) + 1], Ins(PatternSeq[((n - 1) % 6) + 1]))])

(* Constructors whose names LtagHash refuses, and a name it cuts short.      *)
TaggedPrograms == <<Matching(Ins2("SEXP", 3, 1), Ins2("TAG", 3, 1)),
                    Matching(Ins2("SEXP", 1, 1), Ins2("TAG", 4, 1)),
                    Matching(Ins2("SEXP", 1, 1), Ins2("TAG", 1, 1))>>

(* Slots that are not there, a call of what is no closure, a stack that      *)
(* fills up, calls that never return: code no analysis has looked at.       *)
Stray == <<Ins1("LDG", 1), Ins1("LDL", 1), Ins1("STA_", 2), Ins1("STC", 0), Ins1("LDC", 0),
           Ins1("CALLC", 0), Ins("DUP"), Ins2("CALL", 0, 1)>>
Straying(is) == Explicit([n \in DOMAIN is |->
  Unanalysed(1, <<Ins2("BEGIN", 2, 1), Ins1("CONST", 1), is[n], Ins1("JMP", 1)>>)])

(* Counts and indices below 0, and captures that are not there.             *)
Negative == <<Ins2("CALL", 0, -1), Ins1("CALLC", -1), Ins1("CALL_Barray", -1),
              Ins2("SEXP", 0, -1), Ins1("STRING", -1), Ins2("TAG", 9, 1), Ins1("LDL", 9),
              MkClosure(0, <<Cap(2, 9)>>), MkClosure(0, <<Cap(3, 0)>>), Ins1("JMP", 9)>>

(* A function called with -n arguments, and a closure called by its slot     *)
(* above the top with -1.                                                  *)
Misled(n, i) == Unanalysed(1, <<
  Ins2("BEGIN", 2, -65535),     \* 0
  Ins1("CONST", 1),
  Ins2("CALL", 4, -n),
  Ins("END"),
  Ins2("BEGIN", 2, 0),          \* 4
  MkClosure(4, <<Cap(1, 0)>>),
  Ins("DROP"),
  i,
  Ins("END")>>)
Unfitting == Unanalysed(20, <<Ins2("BEGIN", 2, 0), Ins1("CONST", 1), Ins("END")>>)

UnverifiedPrograms == Straying(Stray \o Negative)
  \o <<Misled(2, Ins1("LDA", 0)), Misled(2, Ins1("STA_", 1)), Misled(1, Ins1("LDA", -3)),
       Misled(1, Ins1("CALLC", -1)), Unfitting>>

(* A string that STA has cut short, compared with another.                  *)
Shortened == Program(0, <<
  Ins2("BEGIN", 2, 1),          \* 0
  Ins1("STRING", 1),
  Ins1("STL", 0),
  Ins1("CONST", 0),
  Ins1("CONST", 0),
  Ins("STA"),
  Ins("CALL_Lstring"),
  Ins1("LDL", 0),
  Ins("PATT_eq"),
  Ins("CALL_Lwrite"),
  Ins("END")>>)

RunnablePrograms == <<Factorial, Counter, ArrayProgram, StringProgram>>
  \o MatchingPrograms \o TaggedPrograms \o Straying(Stray) \o <<Shortened>>

(* Compiled code whose headers carry the depths of its functions.           *)
AnnotatedPrograms ==
  <<Annotate(Factorial), Annotate(Counter), Annotate(ArrayProgram), Annotate(StringProgram),
    Annotate(Matching(MkClosure(0, <<>>), Ins("PATT_is_fun"))),
    Annotate(Matching(Ins("CALL_Lstring"), Ins("PATT_is_string")))>>

(* TLC computes a definition of the model once, and the value of a constant  *)
(* each time it is used: the constants are names for definitions.           *)
MCRunnable  == RunnablePrograms
MCAnnotated == AnnotatedPrograms
MCUnverified == UnverifiedPrograms
MCMisapplied == <<Annotate(Misapplied)>>

MCchars   == <<95, 65, 66, 67>>
MCInputs  == 0 .. 2
MCDeeperInputs == 0 .. 3        \* a recursion that does not fit in ten slots
MCPrinted == {<<49>>, <<>>}
MCGarbage == {0, 3}
=============================================================================
