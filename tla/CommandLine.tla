----------------------------- MODULE CommandLine -----------------------------
(***************************************************************************)
(* The run of main: the file is loaded and with -v handed to the verifier,  *)
(* as in Loader, and with -d the code section the loader cut out is given   *)
(* to dump_bytecode.                                                       *)
(***************************************************************************)
EXTENDS Loader

VARIABLES dumped, ip, shown          \* phase, ip, shown of Dump

(* result.code and result.code_size.                                       *)
Section == [i \in 0 .. code_size - 1 |-> F.code[i]]

D == INSTANCE Dump WITH phase <- dumped, code <- Section

dumping == <<dumped, ip, shown>>
allvars == <<vars, dumping>>

MainInit == Init /\ D!Init

Load == Step /\ UNCHANGED <<inputs, dumping>>
Dump == phase = "dumping" /\ UNCHANGED vars /\ D!Next

(* exit(0) follows the dump.                                               *)
Exit == phase = "dumping" /\ dumped = "done"
          /\ phase' = "finished"
          /\ UNCHANGED <<inputs, mode, fname, checked, sections, base, dumping>>

Stopped == phase \in {"refused", "wild", "finished", "running"} \/ dumped = "wild"
Ended   == Stopped /\ UNCHANGED allvars

MainNext == Load \/ Dump \/ Exit \/ Ended

(* A single thread that waits for nothing keeps executing.                  *)
MainSpec == MainInit /\ [][MainNext]_allvars /\ WF_allvars(MainNext)

-----------------------------------------------------------------------------
(***************************************************************************)
(* Properties.                                                             *)
(***************************************************************************)
Entries == {F.pubs[k][2] : k \in 1 .. F.pubs_length} \cap DOMAIN Section

(* In code that was assembled instruction by instruction, going straight    *)
(* over the bytes and following control meet the same instructions: the     *)
(* dump shows every whole one that the public symbols lead to.              *)
ShowsReachable ==
  phase = "finished" /\ mode = "DUMP" =>
    \A i \in D!ReachedFrom(Section, Entries) : D!Whole(Section, i) => i \in shown

(* Every command line comes to an end, whatever the file holds, unless a     *)
(* number of captures that is negative takes the dump back again and again. *)
EndsOrGoesBack == <>Stopped \/ []<>(phase = "dumping" /\ D!GoesBack)

(* What runs with -v starts at main with no operands; <<i, n>> stands for    *)
(* the instruction at i with n operands below it, and DepthsIn[m] holds what *)
(* m steps within a function lead to.                                      *)
InstructionAt(i) ==
  LET arg(k) == IF k < D!ArgsLength(D!Op(Section, i)) THEN D!Arg(Section, i, k) ELSE 0
  IN  [op |-> D!Op(Section, i), a |-> arg(0), b |-> arg(1)]

WholeAt(i) == i \in DOMAIN Section /\ D!Whole(Section, i)

StepsFrom(i) ==
  LET op == D!Op(Section, i)
  IN  (IF op \in {"JMP"} \cup D!Branches THEN {D!Arg(Section, i, 0)} ELSE {})
      \cup (IF op \in {"JMP", "FAIL"} \cup D!Returns THEN {} ELSE {i + D!SizeAt(Section, i)})

After(d) == LET c == InstructionAt(d[1]) IN d[2] + D!Pushed(c) - D!Popped(c)

DepthsIn[m \in 0 .. code_size] ==
  IF m = 0 THEN EntryPoints \X {0}
  ELSE LET seen == DepthsIn[m - 1]
       IN  seen \cup UNION {StepsFrom(d[1]) \X {After(d)} : d \in {e \in seen : WholeAt(e[1])}}

(* "Insufficient stack size for operation", "Stack sizes don't match": code  *)
(* that the verifier let pass has enough operands for each instruction main  *)
(* leads to, and as many on every way there (but for END and RET).          *)
AcceptedIsSound ==
  phase = "running" /\ mode = "VERIFY_RUN" =>
    \A d, e \in {f \in DepthsIn[code_size] : WholeAt(f[1])} :
      /\ d[2] >= D!Popped(InstructionAt(d[1]))
      /\ d[1] = e[1] => d[2] = e[2] \/ D!Op(Section, d[1]) \in D!Returns
=============================================================================
