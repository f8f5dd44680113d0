------------------------------ MODULE Analyser ------------------------------
(***************************************************************************)
(* The idiom analyser: analyser.cpp.  It marks the instructions that public *)
(* symbols lead to (mark_instructions), lists every marked instruction and  *)
(* every pair of consecutive ones that has arguments (count_occurencies),   *)
(* groups equal ones and ranks the groups by size (sort_occurencies), and   *)
(* prints both rankings merged (main).  A file is a record [code, pubs]:    *)
(* the bytes of the code section and the offsets (Pub::b) of the public     *)
(* symbols.  cur, at and prev are offsets, or Null.                        *)
(***************************************************************************)
EXTENDS CodeBytes, SequencesExt

CONSTANT Files                           \* the files that may be analysed

ASSUME FilesAssumption ==
  \A f \in DOMAIN Files :
     /\ IsFiniteSet(DOMAIN Files[f].code)
     /\ DOMAIN Files[f].code \subseteq Nat /\ 0 \in DOMAIN Files[f].code
     /\ \A i \in DOMAIN Files[f].code : /\ 0 .. i \subseteq DOMAIN Files[f].code
                                         /\ Files[f].code[i] \in 0 .. 255
     /\ Files[f].pubs \in Seq(Nat)

VARIABLES file, phase, taken, worklist, cur, visited, boundary, at, prev,
          occurencies, double_occurencies, occurencies_u, double_occurencies_u,
          printed

marking  == <<taken, worklist, cur, visited, boundary>>
counting == <<at, prev, occurencies, double_occurencies>>
ranking  == <<occurencies_u, double_occurencies_u, printed>>
vars     == <<file, phase, marking, counting, ranking>>

Code == Files[file].code
Pubs == Files[file].pubs
I    == Op(Code, cur)

Ends == {"done", "failed", "wild"}

Init == /\ file \in DOMAIN Files
        /\ phase = "seed"
        /\ taken = 0 /\ worklist = <<>> /\ cur = Null
        /\ visited = {} /\ boundary = {}
        /\ at = Null /\ prev = Null
        /\ occurencies = <<>> /\ double_occurencies = <<>>
        /\ occurencies_u = <<>> /\ double_occurencies_u = <<>>
        /\ printed = <<>>

(* assert prints and exits; what lies outside a vector is undefined.        *)
Stop(how) == /\ phase' = how
             /\ UNCHANGED <<marking, counting, ranking>>

-----------------------------------------------------------------------------
(***************************************************************************)
(* mark_instructions: first a loop over the public symbols.  The position   *)
(* of the symbol in its table is pushed, not the offset of its code.       *)
(***************************************************************************)
Seed ==
  /\ phase = "seed" /\ taken < Len(Pubs)
  /\ LET b == Pubs[taken + 1]
     IN  IF b \notin Offsets(Code) THEN Stop("failed")
         ELSE /\ taken' = taken + 1
              /\ visited' = visited \cup {b}
              /\ IF b \in visited THEN UNCHANGED <<worklist, boundary>>
                 ELSE /\ worklist' = Append(worklist, taken)
                      /\ boundary' = boundary \cup {b}
              /\ UNCHANGED <<phase, cur, counting, ranking>>

SeedsDone == /\ phase = "seed" /\ taken = Len(Pubs)
             /\ phase' = "mark"
             /\ UNCHANGED <<marking, counting, ranking>>

(* Then a loop over the worklist, which follows the code from each entry    *)
(* until it meets what is already visited.                                 *)
Pop == /\ phase = "mark" /\ cur = Null /\ worklist # <<>>
       /\ IF Last(worklist) \notin Offsets(Code) THEN Stop("failed")
          ELSE /\ cur' = Last(worklist)
               /\ worklist' = Front(worklist)
               /\ UNCHANGED <<phase, taken, visited, boundary, counting, ranking>>

(* The instructions whose first argument names another.                     *)
BranchesOnly == Branches                              \* mutant
Referring    == Branches \cup {"CLOSURE"}

Target == Arg(Code, cur, 0)
After  == get_next(Code, cur)

Marking(ops) == /\ phase = "mark" /\ cur # Null
                /\ I \in ops
                /\ I \in Targeting => Complete(Code, cur) /\ Target \in Offsets(Code)
                /\ UNCHANGED <<phase, taken, counting, ranking>>

Continue(next, vis) ==
  /\ visited' = vis \cup ({next} \ {Null})
  /\ cur' = IF next \in vis THEN Null ELSE next

MarkJump == /\ Marking({"JMP"})
            /\ boundary' = boundary \cup {cur, Target}
            /\ Continue(Target, visited)
            /\ UNCHANGED worklist

MarkReturn == /\ Marking(Returns \cup {"FAIL"})
              /\ boundary' = boundary \cup {cur}
              /\ cur' = Null
              /\ UNCHANGED <<worklist, visited>>

(* The target of a call, a branch or a closure waits in the worklist.       *)
PushTarget ==
  /\ worklist' = IF Target \in visited THEN worklist ELSE Append(worklist, Target)
  /\ Continue(After, visited \cup {Target})

BoundaryOfCallAtEnd == {cur, After}                   \* mutant
BoundaryOfCall == {cur} \cup ({After} \ {Null})

MarkCall == /\ Marking({"CALL"})
            /\ PushTarget
            /\ boundary' = boundary \cup BoundaryOfCall

MarkReference == /\ Marking(Referring)
                 /\ PushTarget
                 /\ UNCHANGED boundary

Follow == /\ Marking((Opcodes \cup {"UNK"})
                       \ ({"JMP", "CALL", "FAIL"} \cup Returns \cup Referring))
          /\ Continue(After, visited)
          /\ UNCHANGED <<worklist, boundary>>

(* A target outside the code: an assertion, or for a jump an index outside  *)
(* boundary before one.  An argument outside the code is undefined.         *)
BadTarget ==
  /\ phase = "mark" /\ cur # Null /\ I \in Targeting
  /\ IF ~ Complete(Code, cur) THEN Stop("wild")
     ELSE /\ Target \notin Offsets(Code)
          /\ Stop(IF I = "JMP" THEN "wild" ELSE "failed")

MarkingDone == /\ phase = "mark" /\ cur = Null /\ worklist = <<>>
               /\ phase' = "count"
               /\ at' = 0
               /\ UNCHANGED <<marking, prev, occurencies, double_occurencies, ranking>>

-----------------------------------------------------------------------------
(***************************************************************************)
(* count_occurencies: from the first byte on, instruction by instruction    *)
(* where it is visited and byte by byte where it is not.  An instruction at *)
(* a boundary begins no pair.                                              *)
(***************************************************************************)
SkipByte == /\ phase = "count" /\ at # Null /\ at \notin visited
            /\ prev' = Null
            /\ at' = get_next_inc(Code, at)
            /\ UNCHANGED <<phase, marking, occurencies, double_occurencies, ranking>>

HasArgs(i) == ArgsLength(Op(Code, i)) > 0

BeginsPairAlways == at                             \* mutant
BeginsPair == IF at \in boundary THEN Null ELSE at

CountInstruction ==
  /\ phase = "count" /\ at \in visited
  /\ IF Op(Code, at) = "CLOSURE" /\ ~ Complete(Code, at) THEN Stop("wild")
     ELSE /\ occurencies' = IF HasArgs(at) THEN Append(occurencies, at) ELSE occurencies
          /\ double_occurencies' = IF prev # Null /\ (HasArgs(prev) \/ HasArgs(at))
                                      THEN Append(double_occurencies, prev)
                                      ELSE double_occurencies
          /\ prev' = BeginsPair
          /\ at' = get_next(Code, at)
          /\ UNCHANGED <<phase, marking, ranking>>

CountingDone == /\ phase = "count" /\ at = Null
                /\ phase' = "sort"
                /\ UNCHANGED <<marking, counting, ranking>>

-----------------------------------------------------------------------------
(***************************************************************************)
(* sort_occurencies: sort by contents, count runs of equal contents, sort   *)
(* by count.  What std::sort makes of s when before is a strict weak order,  *)
(* as it requires: an element's place is behind those that are before it.    *)
(* Equals are left in any order; here, in the one they had.                 *)
(***************************************************************************)
Sortings(s, before(_, _)) ==
  LET ahead(i) == {j \in DOMAIN s : \/ before(s[j], s[i])
                                    \/ ~ before(s[i], s[j]) /\ j < i}
  IN  {<<>> \o [k \in 1 .. Len(s) |-> s[CHOOSE i \in DOMAIN s : place[i] = k]] :
         place \in {<<>> \o [i \in 1 .. Len(s) |-> Cardinality(ahead(i)) + 1]}}

InstrBefore(i, j) == Precedes(Code, j, i)
InstrSame(i, j)   == Same(Code, i, j)

PairBefore(i, j) ==
  \/ InstrBefore(i, j)
  \/ InstrSame(j, i) /\ Precedes(Code, get_next(Code, j), get_next(Code, i))
PairSame(i, j) == InstrSame(i, j) /\ Same(Code, get_next(Code, i), get_next(Code, j))

(* Rows <<offset, count>> of a sorted list of instructions (size 1) or of   *)
(* pairs (size 2), one for each run of equals.                             *)
Rows(size, sorted) ==
  LET same(i, j) == IF size = 1 THEN InstrSame(i, j) ELSE PairSame(i, j)
      add(rows, k) ==
        IF k > 1 /\ same(sorted[k - 1], sorted[k])
          THEN [rows EXCEPT ![Len(rows)][2] = @ + 1]
          ELSE Append(rows, <<sorted[k], 1>>)
  IN  FoldLeft(add, <<>>, [k \in 1 .. Len(sorted) |-> k])

MoreOften(r, s) == r[2] > s[2]

(* Comparing or printing an instruction reads it to its end.                *)
Sort ==
  /\ phase = "sort"
  /\ IF \E i \in ToSet(occurencies) : ~ Whole(Code, i) THEN Stop("wild")
     ELSE /\ occurencies' \in Sortings(occurencies, InstrBefore)
          /\ double_occurencies' \in Sortings(double_occurencies, PairBefore)
          /\ \E rows \in {Rows(1, occurencies')} :
               occurencies_u' \in Sortings(rows, MoreOften)
          /\ \E rows \in {Rows(2, double_occurencies')} :
               double_occurencies_u' \in Sortings(rows, MoreOften)
          /\ phase' = "print"
          /\ UNCHANGED <<marking, at, prev, printed>>

-----------------------------------------------------------------------------
(* main merges the two rankings.                                           *)
Printed(size) == Cardinality({k \in DOMAIN printed : printed[k].size = size})

SingleFirstReversed(i, j) == occurencies_u[i][2] < double_occurencies_u[j][2]  \* mutant
SingleFirst(i, j) == occurencies_u[i][2] > double_occurencies_u[j][2]

PrintRow ==
  /\ phase = "print"
  /\ LET i == Printed(1) + 1
         j == Printed(2) + 1
         moreSingles == i <= Len(occurencies_u)
         moreDoubles == j <= Len(double_occurencies_u)
         row(size, r) == [size |-> size, at |-> r[1], count |-> r[2]]
     IN  IF ~ moreSingles /\ ~ moreDoubles THEN Stop("done")
         ELSE /\ printed' = Append(printed,
                    IF ~ moreDoubles \/ (moreSingles /\ SingleFirst(i, j))
                      THEN row(1, occurencies_u[i])
                      ELSE row(2, double_occurencies_u[j]))
              /\ UNCHANGED <<phase, marking, counting, occurencies_u,
                             double_occurencies_u>>

Step == \/ Seed \/ SeedsDone
        \/ Pop \/ MarkJump \/ MarkReturn \/ MarkCall \/ MarkReference
        \/ Follow \/ BadTarget \/ MarkingDone
        \/ SkipByte \/ CountInstruction \/ CountingDone
        \/ Sort \/ PrintRow

Ended == phase \in Ends /\ UNCHANGED vars

Next == (Step /\ UNCHANGED file) \/ Ended

(* A single thread that waits for nothing keeps executing.                  *)
Spec == Init /\ [][Next]_vars /\ WF_vars(Next)

-----------------------------------------------------------------------------
(***************************************************************************)
(* Properties.                                                             *)
(***************************************************************************)
MaybeOffset == Offsets(Code) \cup {Null}

(* Offsets are offsets of the code, or Null; counts are positive.           *)
TypeOK ==
  /\ file \in DOMAIN Files
  /\ phase \in {"seed", "mark", "count", "sort", "print"} \cup Ends
  /\ taken \in 0 .. Len(Pubs)
  /\ worklist \in Seq(Nat)
  /\ visited \subseteq Offsets(Code) /\ boundary \subseteq Offsets(Code)
  /\ cur \in MaybeOffset /\ at \in MaybeOffset /\ prev \in MaybeOffset
  /\ occurencies \in Seq(Offsets(Code)) /\ double_occurencies \in Seq(Offsets(Code))
  /\ occurencies_u \in Seq(Offsets(Code) \X (Nat \ {0}))
  /\ double_occurencies_u \in Seq(Offsets(Code) \X (Nat \ {0}))
  /\ printed \in Seq([size : {1, 2}, at : Offsets(Code), count : Nat \ {0}])

Succ(f, n) == ControlFlow(Files[f].code, n)

Entries(f) == ToSet(Files[f].pubs)

Explore == INSTANCE Exploration WITH
  graph    <- file,
  marked   <- visited,
  frontier <- ToSet(worklist) \cup ({cur} \ {Null})

(* The two nested loops over one stack mark the code like any worklist that *)
(* keeps track of what is still to be followed.                            *)
ImplementsExploration == Explore!Spec

Reached == ReachedFrom(Code, Entries(file))

(* The instructions that are counted are those that the public symbols lead *)
(* to, through jumps, calls and closures: nothing is left out when a loop   *)
(* or a second caller meets code already visited.                          *)
MarkedIsReachable == phase = "count" /\ at = 0 => visited = Reached

(* The bytes of the instruction at i.                                       *)
Content(i) == [k \in 0 .. SizeAt(Code, i) - 1 |-> Code[i + k]]

(* Each different instruction with arguments that is reachable has one row, *)
(* and the row counts all its occurrences: memcmp orders instructions of    *)
(* different lengths consistently enough for equal ones to be neighbours.   *)
RowsCountOccurrences ==
  phase = "print" /\ printed = <<>> =>
    LET counted == {i \in Reached : HasArgs(i)}
        rowsOf(i) == {k \in DOMAIN occurencies_u :
                        Content(occurencies_u[k][1]) = Content(i)}
    IN  /\ \A k \in DOMAIN occurencies_u : occurencies_u[k][1] \in counted
        /\ \A i \in counted : \E k \in DOMAIN occurencies_u :
             /\ rowsOf(i) = {k}
             /\ occurencies_u[k][2] =
                  Cardinality({j \in counted : Content(i) = Content(j)})

(* A pair that is counted is executed as a pair: its second instruction     *)
(* follows the first, which passes control to nothing else.                *)
PairsFallThrough ==
  \A k \in DOMAIN double_occurencies :
    LET i == double_occurencies[k]
    IN  /\ get_next(Code, i) \in Succ(file, i)
        /\ Op(Code, i) \notin {"JMP", "CALL", "FAIL"} \cup Returns

(* "Instructions sorted by occurencies": what is printed is every row of    *)
(* both rankings, once, the most frequent first.                           *)
PrintedIsSorted ==
  /\ \A k \in 1 .. Len(printed) - 1 : printed[k].count >= printed[k + 1].count
  /\ phase = "done" => Len(printed) = Len(occurencies_u) + Len(double_occurencies_u)

=============================================================================
