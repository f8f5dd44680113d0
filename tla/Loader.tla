------------------------------- MODULE Loader -------------------------------
(***************************************************************************)
(* From the command line to a running interpreter: main and the            *)
(* constructors of Interpreter and Interpreter2 in main.cpp, read_file and  *)
(* parse_and_validate in commons.cpp.                                      *)
(*                                                                         *)
(* A file is a record [size, st_length, globals_length, pubs_length, pubs,   *)
(* names, code]: its bytes are counted, the fields are what memcpy reads    *)
(* into the header and the table of public symbols, names gives the text    *)
(* that starts at an offset from the strings on, where a NUL ends it before *)
(* the file does, and code is what follows the strings of a file that       *)
(* agrees with its header.  size_t is 64 bits wide, so sums and products of *)
(* the fields are exact; int32_t is IntMax wide.                           *)
(***************************************************************************)
EXTENDS Integers, Sequences

CONSTANTS IntMax,
          CommandLines,      \* argv after argv[0]
          Contents           \* of the one file there is, "file"

HeaderSize == 12
PubSize    == 8
Ints       == -IntMax - 1 .. IntMax

ASSUME LoaderAssumption ==
  /\ IntMax \in Nat
  /\ \A c \in CommandLines : c \in Seq(STRING)
  /\ \A f \in Contents :
       /\ f.size \in Nat /\ f.pubs \in Seq(Ints \X Ints)
       /\ {f.st_length, f.globals_length, f.pubs_length} \subseteq Ints

VARIABLES argv, F, phase, mode, fname, checked, st_offset, code_offset, code_size, base

sections == <<st_offset, code_offset, code_size>>
inputs   == <<argv, F>>
vars     == <<inputs, phase, mode, fname, checked, sections, base>>

Init == /\ argv \in CommandLines /\ F \in Contents
        /\ phase = "start" /\ mode = "RUN" /\ fname = "" /\ checked = 0
        /\ st_offset = 0 /\ code_offset = 0 /\ code_size = 0 /\ base = 0

(* assert prints its message and exits with 1.                              *)
Refuse == phase' = "refused" /\ UNCHANGED <<mode, fname, checked, sections, base>>
Goto(p) == phase' = p /\ UNCHANGED base

(* An int32_t keeps the low bits.                                          *)
ToIntUncut(n) == n                                      \* mutant
ToInt(n) == ((n + IntMax + 1) % (2 * (IntMax + 1))) - (IntMax + 1)

-----------------------------------------------------------------------------
Flags == [flag \in {"-c", "-d", "-a", "-v"} |->
            CASE flag = "-c" -> "VALIDATE" [] flag = "-d" -> "DUMP"
              [] flag = "-a" -> "ANALYSE"  [] flag = "-v" -> "VERIFY_RUN"]

(* With one argument it is the file; with more, the first is the flag and   *)
(* the second the file.                                                    *)
ReadArguments ==
  /\ phase = "start"
  /\ IF argv = <<>> THEN Refuse
     ELSE /\ mode' = IF Len(argv) >= 2 /\ argv[1] \in DOMAIN Flags
                       THEN Flags[argv[1]] ELSE "RUN"
          /\ fname' = IF Len(argv) >= 2 THEN argv[2] ELSE argv[1]
          /\ Goto("read") /\ UNCHANGED <<checked, sections>>

(* "File not exists or empty".                                             *)
ReadFile ==
  /\ phase = "read"
  /\ IF fname # "file" \/ F.size = 0 THEN Refuse
     ELSE Goto("header") /\ UNCHANGED <<mode, fname, checked, sections>>

CountsNonNegative   == F.globals_length >= 0 /\ F.pubs_length >= 0   \* mutant
LengthsNonNegative  == F.st_length >= 0 /\ F.globals_length >= 0 /\ F.pubs_length >= 0

FileSize == HeaderSize + F.pubs_length * PubSize + F.st_length

CheckHeader ==
  /\ phase = "header"
  /\ IF \/ F.size < HeaderSize
        \/ ~ LengthsNonNegative
        \/ F.size <= FileSize
       THEN Refuse
       ELSE Goto("pubs") /\ UNCHANGED <<mode, fname, checked, sections>>

CheckPub ==
  /\ phase = "pubs" /\ checked < F.pubs_length
  /\ LET pub == F.pubs[checked + 1]
     IN  IF pub[1] < 0 \/ pub[2] < 0 THEN Refuse
         ELSE checked' = checked + 1 /\ Goto("pubs") /\ UNCHANGED <<mode, fname, sections>>

(* What is left of the file is code; its size is kept in an int32_t.        *)
CutSections ==
  /\ phase = "pubs" /\ checked = F.pubs_length
  /\ st_offset' = HeaderSize + F.pubs_length * PubSize
  /\ code_offset' = st_offset' + F.st_length
  /\ code_size' = ToInt(F.size - code_offset')
  /\ Goto(IF code_size' > 0 THEN "loaded" ELSE "refused")
  /\ UNCHANGED <<mode, fname, checked>>

-----------------------------------------------------------------------------
(* -c stops here, -d goes on to dump_bytecode, -a is refused.               *)
Dispatch ==
  /\ phase = "loaded" /\ mode \in {"VALIDATE", "DUMP", "ANALYSE"}
  /\ phase' = CASE mode = "VALIDATE" -> "finished"
                [] mode = "DUMP"     -> "dumping"
                [] OTHER             -> "refused"
  /\ UNCHANGED <<mode, fname, checked, sections, base>>

(* Verifier::verify: the first public symbol called main must lie in the     *)
(* code.  No name is compared with the length of the strings.  The loop      *)
(* that would follow the code from there empties a worklist that is empty    *)
(* from the start: it looks at no instruction and changes no header.        *)
Called(k) == LET a == F.pubs[k][1] IN IF a \in DOMAIN F.names THEN F.names[a] ELSE "wild"

Compared == {k \in 1 .. F.pubs_length : \A j \in 1 .. k - 1 : Called(j) # "main"}

EntryPoints == {F.pubs[k][2] : k \in {l \in Compared : Called(l) = "main"}}

Verify ==
  /\ phase = "loaded" /\ mode = "VERIFY_RUN"
  /\ phase' = IF \E k \in Compared : Called(k) = "wild" THEN "wild"
              ELSE IF \E entry \in EntryPoints : entry < code_size THEN "verified"
              ELSE "refused"
  /\ UNCHANGED <<mode, fname, checked, sections, base>>

(* The stack pointer is set behind the globals and two dummy arguments of   *)
(* main.  The sum of int32_t's is undefined where it overflows: it wraps, or *)
(* is made in 64 bits.                                                     *)
Construct ==
  /\ phase = "verified" \/ (phase = "loaded" /\ mode = "RUN")
  /\ base' \in {F.globals_length + 2, ToInt(F.globals_length + 2)}
  /\ phase' = "running"
  /\ UNCHANGED <<mode, fname, checked, sections>>

Step == \/ ReadArguments \/ ReadFile \/ CheckHeader \/ CheckPub
        \/ CutSections \/ Dispatch \/ Verify \/ Construct

-----------------------------------------------------------------------------
(***************************************************************************)
(* Properties.                                                             *)
(***************************************************************************)
TypeOK == /\ phase \in {"start", "read", "header", "pubs", "loaded", "dumping",
                       "verified", "refused", "wild", "finished", "running"}
          /\ mode \in {"VALIDATE", "DUMP", "ANALYSE", "RUN", "VERIFY_RUN"}
          /\ checked \in 0 .. IntMax
          /\ st_offset \in Nat /\ code_offset \in Nat
          /\ code_size \in Ints /\ base \in Int

(* Whatever a header says, the public symbols, the strings and at least one *)
(* byte of code that follow from it lie in the file, one after the other;    *)
(* and nothing follows the code when the size of the code is an int32_t.    *)
SectionsInFile ==
  phase \in {"loaded", "finished", "dumping", "verified", "running"} =>
    /\ HeaderSize <= st_offset /\ st_offset <= code_offset
    /\ code_size > 0
    /\ code_offset + code_size <= F.size
    /\ F.size - code_offset <= IntMax => code_offset + code_size = F.size
=============================================================================
