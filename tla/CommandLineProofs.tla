-------------------------- MODULE CommandLineProofs --------------------------
(***************************************************************************)
(* Proofs about loading and dumping, for every width of int32_t, every      *)
(* command line and every file: the sections that are used lie in the file,  *)
(* and the dump of code assembled instruction by instruction shows what is   *)
(* reachable.                                                              *)
(***************************************************************************)
EXTENDS CommandLine, Induction

(* What has passed the checks of the header, and what was cut out after.     *)
Checked == {"pubs", "loaded", "verified", "dumping", "finished", "running", "wild"}
Cut     == {"loaded", "verified", "dumping", "finished", "running", "wild"}

CutInv == /\ st_offset = HeaderSize + F.pubs_length * PubSize
          /\ code_offset = st_offset + F.st_length
          /\ code_size = ToInt(F.size - code_offset)
          /\ code_size > 0

LoadInv == /\ TypeOK
           /\ F \in Contents
           /\ phase \in Checked => LengthsNonNegative /\ F.size > FileSize
           /\ phase \in Cut => CutInv

-----------------------------------------------------------------------------
LEMMA FieldTypes ==
  ASSUME F \in Contents
  PROVE  /\ F.size \in Nat /\ IntMax \in Nat
         /\ F.st_length \in Ints /\ F.globals_length \in Ints /\ F.pubs_length \in Ints
BY LoaderAssumption

(* The low bits of a number that is not negative are no more than it.        *)
LEMMA ToIntCuts ==
  ASSUME NEW n \in Int
  PROVE  /\ ToInt(n) \in Ints
         /\ n >= 0 => ToInt(n) <= n
         /\ n \in Ints => ToInt(n) = n
<1> DEFINE w == 2 * (IntMax + 1)
           a == n + IntMax + 1
<1>1. IntMax \in Nat
  BY LoaderAssumption
<1>2. w \in Nat /\ w > 0 /\ a \in Int
  BY <1>1
<1> HIDE DEF w, a
<1>3. a % w \in 0 .. w - 1
  BY <1>2
<1>4. a >= 0 => a % w <= a
  BY <1>2
<1>5. a \in 0 .. w - 1 => a % w = a
  BY <1>2
<1> QED
  BY <1>1, <1>3, <1>4, <1>5 DEF w, a, ToInt, Ints

LEMMA FlagModes ==
  ASSUME NEW flag \in DOMAIN Flags
  PROVE  Flags[flag] \in {"VALIDATE", "DUMP", "ANALYSE", "VERIFY_RUN"}
BY DEF Flags

LEMMA InitLoads == MainInit => LoadInv
<1> SUFFICES ASSUME MainInit PROVE LoadInv
  OBVIOUS
<1>1. F \in Contents /\ IntMax \in Nat
  BY LoaderAssumption DEF MainInit, Init
<1>2. 0 \in Ints /\ 0 \in 0 .. IntMax
  BY <1>1 DEF Ints
<1>3. /\ phase = "start" /\ mode = "RUN" /\ checked = 0 /\ st_offset = 0 /\ code_offset = 0
      /\ code_size = 0 /\ base = 0
  BY DEF MainInit, Init
<1>4. TypeOK
  BY <1>2, <1>3 DEF TypeOK
<1> QED
  BY <1>1, <1>3, <1>4 DEF LoadInv, Checked, Cut

LEMMA CutKeeps ==
  ASSUME LoadInv, CutSections, UNCHANGED inputs
  PROVE  LoadInv'
<1>1. /\ F \in Contents /\ LengthsNonNegative /\ F.size > FileSize /\ TypeOK
      /\ F' = F /\ UNCHANGED <<mode, checked, base>>
  BY DEF LoadInv, CutSections, Checked, Goto, inputs
<1>2. /\ F.size \in Nat /\ F.st_length \in Nat /\ F.pubs_length \in Nat
      /\ F.size > HeaderSize + F.pubs_length * PubSize + F.st_length
  BY <1>1, FieldTypes DEF LengthsNonNegative, Ints, FileSize
<1>3. /\ st_offset' = HeaderSize + F.pubs_length * PubSize
      /\ code_offset' = st_offset' + F.st_length
      /\ code_size' = ToInt(F.size - code_offset')
      /\ phase' = IF code_size' > 0 THEN "loaded" ELSE "refused"
  BY DEF CutSections, Goto
<1>4. st_offset' \in Nat /\ code_offset' \in Nat
  BY <1>2, <1>3 DEF HeaderSize, PubSize
<1>5. code_size' \in Ints
  BY <1>2, <1>3, <1>4, ToIntCuts
<1>6. TypeOK'
  BY <1>1, <1>3, <1>4, <1>5 DEF TypeOK
<1>7. (LengthsNonNegative /\ F.size > FileSize)'
  BY <1>1 DEF LengthsNonNegative, FileSize
<1>8. phase' \in Cut => CutInv'
  BY <1>1, <1>3 DEF CutInv, Cut
<1> QED
  BY <1>1, <1>6, <1>7, <1>8 DEF LoadInv

LEMMA StepLoads == LoadInv /\ [MainNext]_allvars => LoadInv'
<1> SUFFICES ASSUME LoadInv, [MainNext]_allvars PROVE LoadInv'
  OBVIOUS
<1>1. TypeOK /\ F \in Contents /\ IntMax \in Nat
  BY FieldTypes DEF LoadInv
<1>2. UNCHANGED inputs
  BY DEF MainNext, Load, Dump, Exit, Ended, allvars, vars
<1>3. F' = F
  BY <1>2 DEF inputs
<1>4. ASSUME phase' \in Checked => phase \in Checked, phase' \in Cut => phase \in Cut,
             UNCHANGED sections
      PROVE  TypeOK' => LoadInv'
  BY <1>3, <1>4 DEF LoadInv, LengthsNonNegative, FileSize, CutInv, sections
<1>5. CASE UNCHANGED vars
  <2>1. TypeOK'
    BY <1>1, <1>5 DEF TypeOK, vars, sections
  <2> QED
    BY <1>4, <1>5, <2>1 DEF vars
<1>6. CASE Exit
  <2>1. TypeOK'
    BY <1>1, <1>6 DEF TypeOK, Exit, sections
  <2> QED
    BY <1>4, <1>6, <2>1 DEF Exit, Checked, Cut
<1>7. CASE ReadArguments
  <2>1. TypeOK'
    BY <1>1, <1>7, FlagModes DEF TypeOK, ReadArguments, Refuse, Goto, sections
  <2> QED
    BY <1>4, <1>7, <2>1 DEF ReadArguments, Refuse, Goto, Checked, Cut, sections
<1>8. CASE ReadFile
  <2>1. TypeOK'
    BY <1>1, <1>8 DEF TypeOK, ReadFile, Refuse, Goto, sections
  <2> QED
    BY <1>4, <1>8, <2>1 DEF ReadFile, Refuse, Goto, Checked, Cut, sections
<1>9. CASE CheckHeader
  <2>1. TypeOK'
    BY <1>1, <1>9 DEF TypeOK, CheckHeader, Refuse, Goto, sections
  <2>2. phase' \notin Cut
    BY <1>9 DEF CheckHeader, Refuse, Goto, Cut
  <2>3. phase' \in Checked => LengthsNonNegative /\ ~ F.size <= FileSize
    BY <1>9 DEF CheckHeader, Refuse, Goto, Checked
  <2>4. LengthsNonNegative => F.size \in Int /\ FileSize \in Int
    BY <1>1, FieldTypes DEF LengthsNonNegative, FileSize, HeaderSize, PubSize, Ints
  <2>5. phase' \in Checked => LengthsNonNegative' /\ (F.size > FileSize)'
    BY <1>3, <2>3, <2>4 DEF LengthsNonNegative, FileSize
  <2> QED
    BY <1>1, <1>3, <2>1, <2>2, <2>5 DEF LoadInv
<1>10. CASE CheckPub
  <2>1. F.pubs_length \in Ints /\ checked \in 0 .. IntMax /\ checked < F.pubs_length
    BY <1>1, <1>10, FieldTypes DEF CheckPub, TypeOK
  <2>2. checked + 1 \in 0 .. IntMax
    BY <1>1, <2>1 DEF Ints
  <2>3. TypeOK'
    BY <1>1, <1>10, <2>2 DEF TypeOK, CheckPub, Refuse, Goto, sections
  <2> QED
    BY <1>4, <1>10, <2>3 DEF CheckPub, Refuse, Goto, Checked, Cut, sections
<1>11. CASE CutSections
  BY <1>2, <1>11, CutKeeps
<1>12. CASE Dispatch
  <2>1. TypeOK'
    BY <1>1, <1>12 DEF TypeOK, Dispatch, sections
  <2> QED
    BY <1>4, <1>12, <2>1 DEF Dispatch, Checked, Cut, sections
<1>13. CASE Verify
  <2>1. TypeOK'
    BY <1>1, <1>13 DEF TypeOK, Verify, sections
  <2> QED
    BY <1>4, <1>13, <2>1 DEF Verify, Checked, Cut, sections
<1>14. CASE Construct
  <2>1. F.globals_length \in Int
    BY <1>1, FieldTypes DEF Ints
  <2>2. ToInt(F.globals_length + 2) \in Int
    BY <1>1, <2>1, ToIntCuts DEF Ints
  <2>3. TypeOK'
    BY <1>1, <1>14, <2>1, <2>2 DEF TypeOK, Construct, sections
  <2> QED
    BY <1>4, <1>14, <2>3 DEF Construct, Checked, Cut, sections
<1> QED
  BY <1>5, <1>6, <1>7, <1>8, <1>9, <1>10, <1>11, <1>12, <1>13, <1>14
     DEF MainNext, Load, Dump, Ended, allvars, Step

LEMMA LoadHolds == MainSpec => []LoadInv
BY InitLoads, StepLoads, PTL DEF MainSpec

(* Offsets and counts are numbers of their kinds, and the size of the code   *)
(* an int32_t, whatever the header says.                                   *)
THEOREM LoaderTyped == MainSpec => []TypeOK
<1>1. LoadInv => TypeOK
  BY DEF LoadInv
<1> QED
  BY <1>1, LoadHolds, PTL

(* A file that parse_and_validate accepts holds its sections one after the   *)
(* other: no header makes the code begin or end outside it.                 *)
THEOREM SectionsLie == MainSpec => []SectionsInFile
<1>1. LoadInv => SectionsInFile
  <2> SUFFICES ASSUME LoadInv, phase \in Cut
               PROVE  /\ HeaderSize <= st_offset /\ st_offset <= code_offset
                      /\ code_size > 0
                      /\ code_offset + code_size <= F.size
                      /\ F.size - code_offset <= IntMax => code_offset + code_size = F.size
    BY DEF SectionsInFile, Cut
  <2>1. /\ F \in Contents /\ LengthsNonNegative /\ F.size > FileSize /\ CutInv
    BY DEF LoadInv, Cut, Checked
  <2>2. /\ F.size \in Nat /\ IntMax \in Nat /\ F.st_length \in Nat /\ F.pubs_length \in Nat
        /\ F.size > HeaderSize + F.pubs_length * PubSize + F.st_length
    BY <2>1, FieldTypes DEF LengthsNonNegative, Ints, FileSize
  <2>3. /\ st_offset = HeaderSize + F.pubs_length * PubSize
        /\ code_offset = st_offset + F.st_length
        /\ code_size = ToInt(F.size - code_offset) /\ code_size > 0
    BY <2>1 DEF CutInv
  <2> DEFINE n == F.size - code_offset
  <2>4. /\ st_offset \in Nat /\ code_offset \in Nat /\ HeaderSize <= st_offset
        /\ st_offset <= code_offset /\ n \in Nat
    BY <2>2, <2>3 DEF HeaderSize, PubSize
  <2>5. /\ code_size \in Ints /\ code_size <= n
        /\ n \in Ints => code_size = n
    BY <2>3, <2>4, ToIntCuts
  <2> QED
    BY <2>2, <2>3, <2>4, <2>5 DEF Ints
<1> QED
  BY <1>1, LoadHolds, PTL

-----------------------------------------------------------------------------
(***************************************************************************)
(* The dump.  S is where the assembler put instructions: the first is at 0,  *)
(* each begins where the one before it ends, control leads from one to       *)
(* another, and none lies inside another.                                  *)
(***************************************************************************)
Assembled(S) ==
  /\ S \subseteq DOMAIN Section /\ 0 \in S /\ Entries \subseteq S
  /\ \A i \in DOMAIN Section : Section[i] \in 0 .. 255
  /\ \A i \in S : /\ D!ControlFlow(Section, i) \subseteq S
                  /\ D!Complete(Section, i) =>
                       /\ D!SizeAt(Section, i) > 0
                       /\ i + D!SizeAt(Section, i) \in DOMAIN Section =>
                            i + D!SizeAt(Section, i) \in S
  /\ \A i, j \in S : i < j => D!Complete(Section, i) /\ i + D!SizeAt(Section, i) <= j

FromLines == \E S \in SUBSET DOMAIN Section : Assembled(S)

Showing == phase \in {"dumping", "finished"} /\ mode = "DUMP"

(* What lies before ip is shown, and all of it in the end.                   *)
ShowsTo(S) == /\ dumped = "dump" => ip \in S \cup {code_size} /\ \A i \in S : i < ip => i \in shown
              /\ dumped = "done" => \A i \in S : D!Whole(Section, i) => i \in shown

DumpInv == /\ phase = "dumping" => mode = "DUMP"
           /\ Showing => \A S : Assembled(S) => ShowsTo(S)
           /\ phase = "finished" /\ mode = "DUMP" => dumped = "done"
           /\ phase \notin {"dumping", "finished"} => dumped = "dump" /\ ip = 0 /\ shown = {}

LEMMA SectionSize ==
  ASSUME LoadInv, phase \in Cut
  PROVE  /\ code_size \in Nat /\ code_size > 0
         /\ DOMAIN Section = 0 .. code_size - 1 /\ D!Size = code_size
<1>1. code_size \in Nat /\ code_size > 0
  BY FieldTypes DEF LoadInv, TypeOK, CutInv, Ints
<1>2. DOMAIN Section = 0 .. code_size - 1
  BY DEF Section
<1>3. Cardinality(0 .. code_size - 1) = code_size
  BY <1>1, FS_Interval
<1>4. D!Size = Cardinality(DOMAIN Section)
  BY DEF D!Size, D!Offsets, D!Cardinality, Cardinality
<1> QED
  BY <1>1, <1>2, <1>3, <1>4

LEMMA BytesMakeInteger ==
  ASSUME NEW c, NEW a \in Int, c[a] \in Int, c[a + 1] \in Int, c[a + 2] \in Int, c[a + 3] \in Int
  PROVE  D!Int32(c, a) \in Int
<1> DEFINE s == D!Signed(c[a + 3])
<1>1. s \in Int
  BY DEF D!Signed
<1>2. D!Int32(c, a) = c[a] + 256 * c[a + 1] + 65536 * c[a + 2] + 16777216 * s
  BY DEF D!Int32
<1> HIDE DEF s
<1> QED
  BY <1>1, <1>2

(* The size of an instruction that is read is a number.                      *)
LEMMA SizeIsInteger ==
  ASSUME LoadInv, phase \in Cut, NEW S, Assembled(S), NEW i \in S,
         D!Op(Section, i) = "CLOSURE" => D!Complete(Section, i)
  PROVE  /\ D!SizeAt(Section, i) \in Int
         /\ ~ D!Complete(Section, i) => i + D!SizeAt(Section, i) > code_size
<1>1. i \in 0 .. code_size - 1 /\ code_size \in Nat
  BY SectionSize DEF Assembled
<1> DEFINE args == D!ArgsLength(D!Op(Section, i))
<1>2. args \in {0, 1, 2} /\ (D!Op(Section, i) = "CLOSURE" => args = 2)
  BY DEF D!ArgsLength, D!TwoArgs, D!OneArg
<1>3. D!Complete(Section, i) <=> i + 4 * args \in 0 .. code_size - 1
  BY SectionSize DEF D!Complete, D!Offsets
<1>4. D!Op(Section, i) = "CLOSURE" => D!Arg(Section, i, 1) \in Int
  <2> SUFFICES ASSUME D!Op(Section, i) = "CLOSURE" PROVE D!Arg(Section, i, 1) \in Int
    OBVIOUS
  <2>1. i + 8 \in 0 .. code_size - 1
    BY <1>2, <1>3
  <2>2. /\ i + 5 \in DOMAIN Section /\ i + 6 \in DOMAIN Section /\ i + 7 \in DOMAIN Section
        /\ i + 8 \in DOMAIN Section
    BY <1>1, <2>1, SectionSize
  <2>3. /\ Section[i + 5] \in 0 .. 255 /\ Section[i + 6] \in 0 .. 255 /\ Section[i + 7] \in 0 .. 255
        /\ Section[i + 8] \in 0 .. 255
    BY <2>2 DEF Assembled
  <2>4. /\ i + 1 + 4 * 1 = i + 5 /\ i + 5 + 1 = i + 6 /\ i + 5 + 2 = i + 7 /\ i + 5 + 3 = i + 8
    BY <1>1
  <2>5. D!Int32(Section, i + 5) \in Int
    <3>1. /\ Section[i + 5] \in Int /\ Section[i + 6] \in Int /\ Section[i + 7] \in Int
          /\ Section[i + 8] \in Int
      BY <2>3
    <3>2. i + 5 \in Int
      BY <1>1
    <3> QED
      BY <2>4, <3>1, <3>2, BytesMakeInteger
  <2> QED
    BY <2>4, <2>5 DEF D!Arg
<1>5. D!SizeAt(Section, i) = 1 + 4 * args + (IF D!Op(Section, i) = "CLOSURE"
                                               THEN 5 * D!Arg(Section, i, 1) ELSE 0)
  BY DEF D!SizeAt
<1> HIDE DEF args
<1>6. D!Op(Section, i) # "CLOSURE" => D!SizeAt(Section, i) = 1 + 4 * args
  BY <1>2, <1>5
<1> QED
  BY <1>1, <1>2, <1>3, <1>4, <1>5, <1>6

LEMMA ShowShows ==
  ASSUME LoadInv, phase = "dumping", NEW S, Assembled(S), ShowsTo(S), D!Show
  PROVE  \A T : T = S => /\ ip' \in T \cup {code_size} /\ dumped' = "dump"
                         /\ \A i \in T : i < ip' => i \in shown'
<1>1. /\ dumped = "dump" /\ ip < code_size /\ D!SizeIsRead
      /\ D!Fits(ip + D!SizeAt(Section, ip))
      /\ shown' = shown \cup {ip} /\ ip' = ip + D!SizeAt(Section, ip) /\ dumped' = dumped
  BY SectionSize DEF D!Show, D!Loop, Cut
<1>2. code_size \in Nat /\ DOMAIN Section = 0 .. code_size - 1 /\ D!Size = code_size
  BY SectionSize DEF Cut
<1>3. ip \in S /\ \A i \in S : i < ip => i \in shown
  BY <1>1, <1>2 DEF ShowsTo
<1>4. S \subseteq 0 .. code_size - 1
  BY <1>2 DEF Assembled
<1>5. /\ D!SizeAt(Section, ip) \in Int
      /\ ~ D!Complete(Section, ip) => ip + D!SizeAt(Section, ip) > code_size
  BY <1>1, <1>3, SizeIsInteger DEF D!SizeIsRead, Cut
<1>6. ip' \in 0 .. code_size /\ D!Complete(Section, ip)
  BY <1>1, <1>2, <1>3, <1>4, <1>5 DEF D!Fits
<1>7. ip' \in S \cup {code_size}
  BY <1>1, <1>2, <1>3, <1>6 DEF Assembled
<1>8. ASSUME NEW i \in S, i < ip' PROVE i \in shown'
  <2>1. i < ip \/ i = ip \/ ip < i
    BY <1>3, <1>4
  <2>2. ip < i => ip + D!SizeAt(Section, ip) <= i
    BY <1>3 DEF Assembled
  <2>3. i \in Int /\ ip' \in Int
    BY <1>4, <1>6
  <2>4. ~ ip < i
    BY <1>1, <1>8, <2>2, <2>3
  <2> QED
    BY <1>1, <1>3, <2>1, <2>4
<1> QED
  BY <1>1, <1>7, <1>8

LEMMA EndShows ==
  ASSUME LoadInv, phase = "dumping", NEW S, Assembled(S), ShowsTo(S),
         D!TrailingBytes \/ D!AtEnd,
         NEW i \in S, D!Whole(Section, i)
  PROVE  i \in shown
<1>1. /\ code_size \in Nat /\ code_size > 0 /\ DOMAIN Section = 0 .. code_size - 1
      /\ D!Size = code_size
  BY SectionSize DEF Cut
<1>2. S \subseteq 0 .. code_size - 1
  BY <1>1 DEF Assembled
<1>3. dumped = "dump" /\ ip \in S \cup {code_size} /\ \A j \in S : j < ip => j \in shown
  BY DEF ShowsTo, D!TrailingBytes, D!AtEnd, D!Loop
<1>4. CASE ip = code_size
  BY <1>1, <1>2, <1>3, <1>4
<1>5. CASE ip # code_size
  <2>1. ip \in S /\ D!SizeIsRead /\ ~ D!Fits(ip + D!SizeAt(Section, ip))
    BY <1>1, <1>3, <1>5 DEF D!TrailingBytes, D!AtEnd, D!Loop
  <2>2. /\ D!SizeAt(Section, ip) \in Int
        /\ ~ D!Complete(Section, ip) => ip + D!SizeAt(Section, ip) > code_size
    BY <2>1, SizeIsInteger DEF D!SizeIsRead, Cut
  <2>3. ip + D!SizeAt(Section, ip) > code_size
    <3>1. D!Complete(Section, ip) => D!SizeAt(Section, ip) > 0
      BY <2>1 DEF Assembled
    <3> QED
      BY <1>1, <1>2, <2>1, <2>2, <3>1 DEF D!Fits
  <2>4. CASE i = ip
    <3>1. i + D!SizeAt(Section, i) - 1 \in 0 .. code_size - 1
      BY <1>1 DEF D!Whole, D!Offsets
    <3> QED
      BY <1>1, <1>2, <2>1, <2>2, <2>3, <2>4, <3>1
  <2>5. CASE ip < i
    <3>1. ip + D!SizeAt(Section, ip) <= i
      BY <2>1, <2>5 DEF Assembled
    <3> QED
      BY <1>1, <1>2, <2>1, <2>2, <2>3, <3>1
  <2>6. i < ip \/ i = ip \/ ip < i
    BY <1>2, <2>1
  <2> QED
    BY <1>3, <2>4, <2>5, <2>6
<1> QED
  BY <1>4, <1>5

-----------------------------------------------------------------------------
More(S)  == S \cup UNION {D!ControlFlow(Section, i) : i \in S}
Grows(g) == g = [S \in SUBSET DOMAIN Section |-> IF More(S) = S THEN S ELSE g[More(S)]]

(* Control leads from one of the assembler's instructions to another.        *)
LEMMA ReachedIsAssembled ==
  ASSUME LoadInv, phase \in Cut, NEW S, Assembled(S)
  PROVE  D!ReachedFrom(Section, Entries) \subseteq S
<1> DEFINE O == DOMAIN Section
           flow == [T \in SUBSET O |-> More(T)]
           grow == CHOOSE g : Grows(g)
<1>1. Enlarges(O, flow)
  <2>1. \A T \in SUBSET O : flow[T] = More(T)
    OBVIOUS
  <2>2. \A i : D!ControlFlow(Section, i) \subseteq O
    BY DEF D!ControlFlow, D!get_next, D!OffsetOrNull, D!Offsets
  <2>3. \A T \in SUBSET O : More(T) \in SUBSET O /\ T \subseteq More(T)
    BY <2>2 DEF More
  <2>4. \A T, U \in SUBSET O : T \subseteq U => More(T) \subseteq More(U)
    BY DEF More
  <2>5. flow \in [SUBSET O -> SUBSET O]
    BY <2>3
  <2> HIDE DEF flow, O
  <2> QED
    BY <2>1, <2>3, <2>4, <2>5 DEF Enlarges
<1>2. \A g : Growing(O, flow, g) <=> Grows(g)
  BY DEF Growing, Grows
<1>3. D!ReachedFrom(Section, Entries) = grow[Entries]
  BY DEF D!ReachedFrom, Grows, More, D!Offsets
<1>4. flow[S] = S /\ Entries \subseteq S /\ S \in SUBSET O
  <2>1. S \in SUBSET O /\ Entries \subseteq S /\ \A i \in S : D!ControlFlow(Section, i) \subseteq S
    BY DEF Assembled
  <2> QED
    BY <2>1 DEF More
<1>5. Entries \in SUBSET O
  BY DEF Entries
<1>6. IsFiniteSet(O)
  <2>1. O = 0 .. code_size - 1 /\ code_size \in Nat
    BY SectionSize
  <2> QED
    BY <2>1, FS_Interval
<1> HIDE DEF flow
<1>7. Growing(O, flow, grow)
  BY <1>1, <1>2, GrowingExists
<1> HIDE DEF grow
<1>8. grow[Entries] = LeastClosed(O, flow, Entries)
  BY <1>1, <1>5, <1>6, <1>7, GrowingIsLeast
<1> QED
  BY <1>3, <1>4, <1>8 DEF LeastClosed

LEMMA InitDumps == MainInit => DumpInv
BY DEF MainInit, Init, D!Init, DumpInv, Showing

(* While the file is dumped neither the section nor what it is made of       *)
(* changes.                                                                *)
LEMMA SectionKept ==
  ASSUME UNCHANGED inputs, UNCHANGED code_size
  PROVE  Section' = Section /\ \A S : Assembled(S)' <=> Assembled(S)
<1>1. Section' = Section
  BY DEF Section, inputs
<1>2. Entries' = Entries
  BY <1>1 DEF Entries, inputs
<1> QED
  BY <1>1, <1>2 DEF Assembled

LEMMA StepDumps == LoadInv /\ DumpInv /\ [MainNext]_allvars => DumpInv'
<1> SUFFICES ASSUME LoadInv, DumpInv, [MainNext]_allvars PROVE DumpInv'
  OBVIOUS
<1>1. CASE UNCHANGED allvars
  <2>1. /\ UNCHANGED <<phase, mode, dumped, ip, shown, code_size>> /\ UNCHANGED inputs
    BY <1>1 DEF allvars, vars, sections, dumping
  <2>2. \A S : ShowsTo(S)' <=> ShowsTo(S)
    BY <2>1, SectionKept DEF ShowsTo
  <2>3. \A S : Assembled(S)' <=> Assembled(S)
    BY <2>1, SectionKept
  <2> QED
    BY <2>1, <2>2, <2>3 DEF DumpInv, Showing
<1>2. CASE Exit
  <2>1. /\ phase = "dumping" /\ dumped = "done" /\ phase' = "finished"
        /\ UNCHANGED <<mode, dumped, ip, shown, code_size>> /\ UNCHANGED inputs
    BY <1>2 DEF Exit, inputs, sections, dumping
  <2>2. \A S : ShowsTo(S)' <=> ShowsTo(S)
    BY <2>1, SectionKept DEF ShowsTo
  <2>3. \A S : Assembled(S)' <=> Assembled(S)
    BY <2>1, SectionKept
  <2> QED
    BY <2>1, <2>2, <2>3 DEF DumpInv, Showing
<1>3. CASE Load
  <2>1. /\ phase \notin {"dumping", "finished"} /\ UNCHANGED <<dumped, ip, shown>>
        /\ dumped = "dump" /\ ip = 0 /\ shown = {}
    BY <1>3 DEF Load, dumping, DumpInv, Step, ReadArguments, ReadFile, CheckHeader, CheckPub,
                CutSections, Dispatch, Verify, Construct
  <2>2. phase' = "dumping" => mode' = "DUMP"
    BY <1>3, <2>1 DEF Load, Step, ReadArguments, ReadFile, CheckHeader, CheckPub, CutSections,
                      Dispatch, Verify, Construct, Refuse, Goto
  <2>3. phase' = "finished" => mode' = "VALIDATE"
    BY <1>3, <2>1 DEF Load, Step, ReadArguments, ReadFile, CheckHeader, CheckPub, CutSections,
                      Dispatch, Verify, Construct, Refuse, Goto
  <2>4. ASSUME NEW S, Assembled(S)', phase' = "dumping" PROVE ShowsTo(S)'
    <3>1. /\ phase = "loaded" /\ UNCHANGED code_size /\ UNCHANGED inputs
      BY <1>3, <2>1, <2>4 DEF Load, Step, ReadArguments, ReadFile, CheckHeader, CheckPub,
                              CutSections, Dispatch, Verify, Construct, Refuse, Goto, sections
    <3>2. Assembled(S) /\ code_size \in Nat /\ DOMAIN Section = 0 .. code_size - 1
      BY <2>4, <3>1, SectionKept, SectionSize DEF Cut
    <3>3. 0 \in S /\ S \subseteq 0 .. code_size - 1
      BY <3>2 DEF Assembled
    <3>4. ip' = 0 /\ dumped' = "dump"
      BY <2>1
    <3> QED
      BY <3>2, <3>3, <3>4 DEF ShowsTo
  <2> QED
    BY <2>1, <2>2, <2>3, <2>4 DEF DumpInv, Showing
<1>4. CASE Dump
  <2>1. /\ phase = "dumping" /\ mode = "DUMP"
        /\ UNCHANGED <<phase, mode, code_size>> /\ UNCHANGED inputs
    BY <1>4 DEF Dump, vars, sections, DumpInv
  <2> SUFFICES ASSUME NEW S, Assembled(S) PROVE ShowsTo(S)'
    BY <2>1, SectionKept DEF DumpInv, Showing
  <2>2. ShowsTo(S)
    BY <2>1 DEF DumpInv, Showing
  <2>3. CASE D!Show
    <3>1. /\ ip' \in S \cup {code_size} /\ dumped' = "dump"
          /\ \A i \in S : i < ip' => i \in shown'
      BY <2>1, <2>2, <2>3, ShowShows
    <3> QED
      BY <2>1, <3>1 DEF ShowsTo
  <2>4. CASE D!TrailingBytes \/ D!AtEnd
    <3>1. \A i \in S : D!Whole(Section, i) => i \in shown
      BY <2>1, <2>2, <2>4, EndShows
    <3>2. dumped' = "done" /\ shown' = shown /\ Section' = Section
      BY <2>1, <2>4, SectionKept DEF D!TrailingBytes, D!AtEnd, D!Stop
    <3> QED
      BY <3>1, <3>2 DEF ShowsTo
  <2>5. CASE D!ReadBeyond
    <3>1. dumped' = "wild"
      BY <2>5 DEF D!ReadBeyond, D!Stop
    <3> QED
      BY <3>1 DEF ShowsTo
  <2> QED
    BY <1>4, <2>3, <2>4, <2>5 DEF Dump, D!Next
<1>5. CASE Ended
  BY <1>1, <1>5 DEF Ended
<1> QED
  BY <1>1, <1>2, <1>3, <1>4, <1>5 DEF MainNext

(* -d on code assembled instruction by instruction: whatever the public      *)
(* symbols lead to is shown, if it lies in the file as a whole.  The sweep   *)
(* from the first byte never falls between two instructions.                *)
THEOREM ReachableShown == MainSpec => [](FromLines => ShowsReachable)
<1>1. LoadInv /\ DumpInv => (FromLines => ShowsReachable)
  <2> SUFFICES ASSUME LoadInv, DumpInv, FromLines, phase = "finished", mode = "DUMP",
                      NEW i \in D!ReachedFrom(Section, Entries), D!Whole(Section, i)
               PROVE  i \in shown
    BY DEF ShowsReachable
  <2>1. PICK S : Assembled(S)
    BY DEF FromLines
  <2>2. i \in S
    BY <2>1, ReachedIsAssembled DEF Cut
  <2>3. dumped = "done" /\ ShowsTo(S)
    BY <2>1 DEF DumpInv, Showing
  <2> QED
    BY <2>2, <2>3 DEF ShowsTo
<1>2. MainSpec => []DumpInv
  BY InitDumps, StepDumps, LoadHolds, PTL DEF MainSpec
<1> QED
  BY <1>1, <1>2, LoadHolds, PTL
=============================================================================
