--------------------------- MODULE AnalyserProofs ---------------------------
(***************************************************************************)
(* Proofs about the analyser, for every file whose symbols are where the    *)
(* seeds say.  mark_instructions implements an abstract worklist, so marks  *)
(* exactly what the symbols lead to; count_occurencies lists every marked   *)
(* instruction with arguments and pairs only instructions executed as       *)
(* pairs; sort_occurencies makes one row of equal ones; main prints the     *)
(* rows of both rankings by frequency.                                     *)
(***************************************************************************)
EXTENDS Analyser, Induction

(* The position of a symbol in its table, which is what the seeds push, is  *)
(* the offset of its code, or its code is an earlier symbol's.              *)
Aligned == \A k \in 1 .. Len(Pubs) :
             Pubs[k] = k - 1 \/ \E j \in 1 .. k - 1 : Pubs[j] = Pubs[k]

Phases == {"seed", "mark", "count", "sort", "print"} \cup Ends

Waiting  == ToSet(worklist)
Frontier == Waiting \cup ({cur} \ {Null})

MarkTyped == /\ file \in DOMAIN Files
             /\ phase \in Phases
             /\ taken \in 0 .. Len(Pubs)
             /\ worklist \in Seq(Offsets(Code))
             /\ visited \subseteq Offsets(Code) /\ boundary \subseteq Offsets(Code)
             /\ cur \in MaybeOffset

(* Nothing waits twice, and what is being followed does not wait.            *)
Once == /\ cur \notin Waiting
        /\ \A j, k \in 1 .. Len(worklist) : worklist[j] = worklist[k] => j = k

(* An instruction that was followed had the argument it was followed by, and *)
(* is a boundary if control does not fall through it.                       *)
Stopping == {"JMP", "CALL", "FAIL"} \cup Returns
Explored(i) == /\ Op(Code, i) \in Targeting => Complete(Code, i)
               /\ Op(Code, i) \in Stopping => i \in boundary

MarkInv ==
  /\ MarkTyped
  /\ Aligned
  /\ Frontier \subseteq visited
  /\ Once
  /\ \A k \in 1 .. taken : Pubs[k] \in visited
  /\ \A i \in visited \ Frontier : Explored(i)
  /\ phase = "seed" => cur = Null
  /\ phase # "seed" /\ phase \notin Ends => taken = Len(Pubs)
  /\ phase \in {"count", "sort", "print"} => cur = Null /\ worklist = <<>>

-----------------------------------------------------------------------------
LEMMA FileFacts ==
  ASSUME file \in DOMAIN Files
  PROVE  /\ Offsets(Code) \subseteq Nat /\ 0 \in Offsets(Code)
         /\ Pubs \in Seq(Nat) /\ Len(Pubs) \in Nat
         /\ Null \notin Offsets(Code)
BY FilesAssumption DEF Offsets, Code, Pubs, Null

LEMMA WaitingIs ==
  ASSUME NEW S, NEW s \in Seq(S)
  PROVE  ToSet(s) = {s[k] : k \in 1 .. Len(s)}
BY DEF ToSet

LEMMA ToSetAppend ==
  ASSUME NEW S, NEW s \in Seq(S), NEW e \in S
  PROVE  ToSet(Append(s, e)) = ToSet(s) \cup {e}
<1>1. /\ Append(s, e) \in Seq(S) /\ Len(Append(s, e)) = Len(s) + 1 /\ Len(s) \in Nat
      /\ \A k \in 1 .. Len(s) : Append(s, e)[k] = s[k]
      /\ Append(s, e)[Len(s) + 1] = e
  OBVIOUS
<1> DEFINE t == Append(s, e)
<1>2. /\ ToSet(s) = {s[k] : k \in 1 .. Len(s)}
      /\ ToSet(t) = {t[k] : k \in 1 .. Len(t)}
  BY <1>1, WaitingIs
<1> HIDE DEF t
<1> QED
  BY <1>1, <1>2 DEF t

LEMMA ToSetFront ==
  ASSUME NEW S, NEW s \in Seq(S), s # <<>>
  PROVE  /\ Front(s) \in Seq(S) /\ Last(s) \in S /\ Len(Front(s)) = Len(s) - 1
         /\ ToSet(s) = ToSet(Front(s)) \cup {Last(s)}
         /\ \A k \in 1 .. Len(Front(s)) : Front(s)[k] = s[k]
<1> DEFINE n == Len(s)
<1>a. n \in Nat /\ n # 0
  BY EmptySeq
<1>b. s \in [1 .. n -> S] /\ s[n] \in S
  BY <1>a
<1>c. 1 <= n /\ n - 1 \in 0 .. n /\ n - 1 + 1 = n
  BY <1>a
<1>d. SubSeq(s, 1, n - 1) = [k \in 1 .. n - 1 |-> s[k]]
  BY <1>a
<1>e. /\ Front(s) \in Seq(S) /\ Len(Front(s)) = n - 1
      /\ \A k \in 1 .. n - 1 : Front(s)[k] = s[k]
  BY <1>a, <1>b, <1>d DEF Front
<1>1. /\ Len(s) \in Nat \ {0} /\ Front(s) \in Seq(S) /\ Len(Front(s)) = Len(s) - 1
      /\ \A k \in 1 .. Len(s) - 1 : Front(s)[k] = s[k]
      /\ Last(s) = s[Len(s)] /\ s[Len(s)] \in S
  BY <1>a, <1>b, <1>e DEF Last
<1> DEFINE t == Front(s)
<1>2. /\ ToSet(s) = {s[k] : k \in 1 .. Len(s)}
      /\ ToSet(t) = {t[k] : k \in 1 .. Len(t)}
  BY <1>1, WaitingIs
<1> HIDE DEF t
<1> QED
  BY <1>1, <1>2 DEF t

LEMMA NoneWaits == ToSet(<<>>) = {}
BY DEF ToSet

-----------------------------------------------------------------------------
(***************************************************************************)
(* What following one instruction does: cur leaves the frontier, and what   *)
(* it leads to joins unless it was visited before.                         *)
(***************************************************************************)
Visits(S) == /\ visited' = visited \cup S
             /\ Frontier' = (Frontier \ {cur}) \cup (S \ visited)

Plain == (Opcodes \cup {"UNK"}) \ ({"JMP", "CALL", "FAIL"} \cup Returns \cup Referring)

LEMMA SuccessorsAre ==
  /\ Marking({"JMP"}) => Succ(file, cur) = {Target} /\ Target \in Offsets(Code)
  /\ Marking(Returns \cup {"FAIL"}) => Succ(file, cur) = {}
  /\ Marking({"CALL"}) \/ Marking(Referring) =>
       Succ(file, cur) = {Target} \cup ({After} \ {Null}) /\ Target \in Offsets(Code)
  /\ Marking(Plain) => Succ(file, cur) = {After} \ {Null}
BY DEF Marking, Succ, ControlFlow, Target, After, Code, I, Targeting, Referring, Returns,
       Branches, Plain

LEMMA ExploredNow ==
  /\ Marking({"JMP"}) \/ Marking({"CALL"}) \/ Marking(Returns \cup {"FAIL"}) =>
       (I \in Targeting => Complete(Code, cur))
  /\ Marking(Referring) \/ Marking(Plain) =>
       (I \in Targeting => Complete(Code, cur)) /\ I \notin Stopping
BY DEF Marking, I, Targeting, Referring, Returns, Branches, Plain, Stopping

LEMMA AfterFits == After \in MaybeOffset
BY DEF After, get_next, OffsetOrNull, MaybeOffset

LEMMA VisitIsVisit ==
  ASSUME MarkInv, cur # Null, Visits(Succ(file, cur)), file' = file
  PROVE  Explore!Next
<1>1. cur \in Frontier
  BY DEF Frontier
<1>2. Explore!Visit
  BY <1>1 DEF Visits, Explore!Visit, Frontier, Waiting
<1> QED
  BY <1>2 DEF Explore!Next

LEMMA VisitKeepsMark ==
  ASSUME MarkInv, phase = "mark", cur # Null, NEW S \in SUBSET Offsets(Code), Visits(S),
         UNCHANGED <<file, phase, taken>>,
         worklist' \in Seq(Offsets(Code)), cur' \in MaybeOffset, Once',
         boundary \subseteq boundary', boundary' \subseteq Offsets(Code),
         I \in Targeting => Complete(Code, cur),
         I \in Stopping => cur \in boundary'
  PROVE  MarkInv'
<1>1. Pubs' = Pubs /\ Code' = Code
  BY DEF Pubs, Code
<1>2. MarkTyped'
  BY <1>1 DEF MarkInv, MarkTyped, Visits, MaybeOffset, Offsets
<1>3. Aligned'
  BY <1>1 DEF MarkInv, Aligned
<1>4. (Frontier \subseteq visited)'
  BY DEF MarkInv, Visits
<1>5. ASSUME NEW i \in visited' \ Frontier' PROVE Explored(i)'
  <2>1. CASE i = cur
    BY <1>1, <2>1 DEF Explored, I
  <2>2. CASE i # cur
    <3>1. i \in visited \ Frontier
      BY <1>5, <2>2 DEF Visits
    <3> QED
      BY <1>1, <3>1 DEF MarkInv, Explored
  <2> QED
    BY <2>1, <2>2
<1> QED
  BY <1>1, <1>2, <1>3, <1>4, <1>5 DEF MarkInv, Visits, Ends

(* CHECK_NEXT: what comes next is followed unless it was visited.           *)
LEMMA ContinueGoesOn ==
  ASSUME NEW next \in MaybeOffset, NEW vis, Null \notin vis, Continue(next, vis)
  PROVE  /\ visited' = vis \cup ({next} \ {Null})
         /\ {cur'} \ {Null} = ({next} \ {Null}) \ vis
         /\ cur' \in MaybeOffset /\ cur' \notin vis
BY DEF Continue, MaybeOffset

LEMMA MarkFacts ==
  ASSUME MarkInv
  PROVE  /\ worklist \in Seq(Offsets(Code)) /\ visited \subseteq Offsets(Code)
         /\ boundary \subseteq Offsets(Code) /\ cur \in MaybeOffset
         /\ Null \notin Offsets(Code) /\ file \in DOMAIN Files
         /\ Waiting \subseteq visited /\ cur \notin Waiting
         /\ cur # Null => cur \in visited
         /\ Frontier \ {cur} = Waiting
BY FileFacts DEF MarkInv, MarkTyped, Once, Frontier, MaybeOffset

LEMMA FollowOne ==
  ASSUME MarkInv, cur # Null, NEW S \in SUBSET Offsets(Code), NEW T \in SUBSET Offsets(Code),
         visited' = visited \cup S,
         Waiting' = Waiting \cup (T \ visited),
         {cur'} \ {Null} = (S \ T) \ visited, T \subseteq S
  PROVE  Visits(S)
<1>1. Frontier' = Waiting' \cup ({cur'} \ {Null})
  BY DEF Frontier
<1> QED
  BY <1>1, MarkFacts DEF Visits

LEMMA JumpFollows ==
  ASSUME MarkInv, MarkJump, UNCHANGED file
  PROVE  MarkInv' /\ Explore!Next
<1>1. /\ Marking({"JMP"}) /\ Continue(Target, visited) /\ UNCHANGED worklist
      /\ boundary' = boundary \cup {cur, Target}
      /\ phase = "mark" /\ cur # Null /\ I = "JMP" /\ UNCHANGED <<file, phase, taken>>
  BY DEF MarkJump, Marking
<1>2. Succ(file, cur) = {Target} /\ Target \in Offsets(Code)
  BY <1>1, SuccessorsAre
<1>3. /\ visited' = visited \cup {Target} /\ {cur'} \ {Null} = {Target} \ visited
      /\ cur' \in MaybeOffset /\ cur' \notin visited
  <2>1. Target \in MaybeOffset /\ Null \notin visited /\ Target # Null
    BY <1>2, MarkFacts DEF MaybeOffset
  <2> QED
    BY <1>1, <2>1, ContinueGoesOn
<1>4. Waiting' = Waiting
  BY <1>1 DEF Waiting
<1>5. Visits({Target})
  BY <1>1, <1>2, <1>3, <1>4, MarkFacts DEF Visits, Frontier
<1>6. Once'
  BY <1>1, <1>3, <1>4, MarkFacts DEF MarkInv, Once
<1>7. MarkInv'
  BY <1>1, <1>2, <1>3, <1>5, <1>6, MarkFacts, ExploredNow, VisitKeepsMark
<1> QED
  BY <1>1, <1>2, <1>5, <1>7, VisitIsVisit

LEMMA ReturnFollows ==
  ASSUME MarkInv, MarkReturn, UNCHANGED file
  PROVE  MarkInv' /\ Explore!Next
<1>1. /\ Marking(Returns \cup {"FAIL"}) /\ cur' = Null /\ UNCHANGED <<worklist, visited>>
      /\ boundary' = boundary \cup {cur}
      /\ phase = "mark" /\ cur # Null /\ UNCHANGED <<file, phase, taken>>
  BY DEF MarkReturn, Marking
<1>2. Succ(file, cur) = {}
  BY <1>1, SuccessorsAre
<1>3. Waiting' = Waiting
  BY <1>1 DEF Waiting
<1>4. Visits({})
  BY <1>1, <1>3, MarkFacts DEF Visits, Frontier
<1>5. Once' /\ cur' \in MaybeOffset
  BY <1>1, <1>3, MarkFacts DEF MarkInv, Once, MaybeOffset
<1>6. boundary \subseteq boundary' /\ boundary' \subseteq Offsets(Code)
  BY <1>1, MarkFacts DEF MaybeOffset
<1>7. MarkInv'
  BY <1>1, <1>4, <1>5, <1>6, MarkFacts, ExploredNow, VisitKeepsMark
<1> QED
  BY <1>1, <1>2, <1>4, <1>7, VisitIsVisit

LEMMA PlainFollows ==
  ASSUME MarkInv, Follow, UNCHANGED file
  PROVE  MarkInv' /\ Explore!Next
<1>1. /\ Marking(Plain) /\ Continue(After, visited) /\ UNCHANGED <<worklist, boundary>>
      /\ phase = "mark" /\ cur # Null /\ UNCHANGED <<file, phase, taken>>
  BY DEF Follow, Plain, Marking
<1>2. Succ(file, cur) = {After} \ {Null} /\ {After} \ {Null} \subseteq Offsets(Code)
  BY <1>1, SuccessorsAre, AfterFits DEF MaybeOffset
<1> DEFINE S == {After} \ {Null}
<1>3. /\ visited' = visited \cup S /\ {cur'} \ {Null} = S \ visited
      /\ cur' \in MaybeOffset /\ cur' \notin visited
  BY <1>1, AfterFits, MarkFacts, ContinueGoesOn
<1> HIDE DEF S
<1>4. Waiting' = Waiting
  BY <1>1 DEF Waiting
<1>5. Visits(S)
  BY <1>1, <1>3, <1>4, MarkFacts DEF Visits, Frontier
<1>6. Once'
  BY <1>1, <1>3, <1>4, MarkFacts DEF MarkInv, Once
<1>7. S \in SUBSET Offsets(Code) /\ Succ(file, cur) = S
  BY <1>2 DEF S
<1>8. MarkInv'
  BY <1>1, <1>3, <1>5, <1>6, <1>7, MarkFacts, ExploredNow, VisitKeepsMark
<1> QED
  BY <1>1, <1>5, <1>7, <1>8, VisitIsVisit

(* The target of a call, a branch or a closure waits, and the next follows.  *)
LEMMA PushFollows ==
  ASSUME MarkInv, Marking({"CALL"}) \/ Marking(Referring), PushTarget, UNCHANGED file,
         boundary \subseteq boundary', boundary' \subseteq Offsets(Code),
         I \in Stopping => cur \in boundary'
  PROVE  MarkInv' /\ Explore!Next
<1>1. /\ phase = "mark" /\ cur # Null /\ UNCHANGED <<file, phase, taken>>
      /\ I \in Targeting => Complete(Code, cur)
  BY DEF Marking
<1> DEFINE N == {After} \ {Null}
           S == {Target} \cup N
           vis == visited \cup {Target}
<1>2. Succ(file, cur) = S /\ Target \in Offsets(Code) /\ N \subseteq Offsets(Code)
  BY SuccessorsAre, AfterFits DEF MaybeOffset
<1>3. /\ Continue(After, vis)
      /\ worklist' = IF Target \in visited THEN worklist ELSE Append(worklist, Target)
  BY DEF PushTarget
<1>4. /\ visited' = vis \cup N /\ {cur'} \ {Null} = N \ vis
      /\ cur' \in MaybeOffset /\ cur' \notin vis
  <2>1. Null \notin vis
    BY <1>2, MarkFacts
  <2> HIDE DEF vis
  <2> QED
    BY <1>3, <2>1, AfterFits, ContinueGoesOn
<1> HIDE DEF N
<1>5. /\ worklist' \in Seq(Offsets(Code))
      /\ Waiting' = Waiting \cup ({Target} \ visited)
  <2>1. CASE Target \in visited
    BY <1>3, <2>1, MarkFacts DEF Waiting
  <2>2. CASE Target \notin visited
    BY <1>2, <1>3, <2>2, MarkFacts, ToSetAppend DEF Waiting
  <2> QED
    BY <2>1, <2>2
<1>6. Visits(S)
  BY <1>1, <1>4, <1>5, MarkFacts DEF Visits, Frontier
<1>7. Once'
  <2>1. cur' \notin Waiting'
    BY <1>4, <1>5, MarkFacts
  <2>2. CASE Target \in visited
    BY <1>3, <2>1, <2>2 DEF MarkInv, Once
  <2>3. CASE Target \notin visited
    <3>1. /\ worklist' = Append(worklist, Target) /\ Len(worklist') = Len(worklist) + 1
          /\ Len(worklist) \in Nat /\ worklist'[Len(worklist) + 1] = Target
          /\ \A k \in 1 .. Len(worklist) : worklist'[k] = worklist[k]
      BY <1>2, <1>3, <2>3, MarkFacts
    <3>2. \A k \in 1 .. Len(worklist) : worklist[k] # Target
      <4>1. ToSet(worklist) = {worklist[k] : k \in 1 .. Len(worklist)}
        BY MarkFacts, WaitingIs
      <4> QED
        BY <2>3, <4>1, MarkFacts DEF Waiting
    <3>3. \A j, k \in 1 .. Len(worklist) : worklist[j] = worklist[k] => j = k
      BY DEF MarkInv, Once
    <3> QED
      BY <2>1, <3>1, <3>2, <3>3 DEF Once
  <2> QED
    BY <2>2, <2>3
<1>8. S \in SUBSET Offsets(Code)
  BY <1>2
<1> HIDE DEF S
<1>9. MarkInv'
  BY <1>1, <1>4, <1>5, <1>6, <1>7, <1>8, VisitKeepsMark
<1> QED
  BY <1>1, <1>2, <1>6, <1>9, VisitIsVisit

LEMMA CallFollows ==
  ASSUME MarkInv, MarkCall, UNCHANGED file
  PROVE  MarkInv' /\ Explore!Next
<1>1. /\ Marking({"CALL"}) /\ PushTarget
      /\ boundary' = boundary \cup {cur} \cup ({After} \ {Null})
  BY DEF MarkCall, BoundaryOfCall
<1>2. boundary \subseteq boundary' /\ boundary' \subseteq Offsets(Code) /\ cur \in boundary'
  <2>1. cur # Null
    BY <1>1 DEF Marking
  <2> QED
    BY <1>1, <2>1, MarkFacts, AfterFits DEF MaybeOffset
<1> QED
  BY <1>1, <1>2, PushFollows

LEMMA ReferenceFollows ==
  ASSUME MarkInv, MarkReference, UNCHANGED file
  PROVE  MarkInv' /\ Explore!Next
<1>1. Marking(Referring) /\ PushTarget /\ UNCHANGED boundary
  BY DEF MarkReference
<1>2. I \notin Stopping /\ boundary \subseteq boundary' /\ boundary' \subseteq Offsets(Code)
  BY <1>1, ExploredNow, MarkFacts
<1> QED
  BY <1>1, <1>2, PushFollows

-----------------------------------------------------------------------------
(***************************************************************************)
(* The seeds, the worklist, and the phases that mark nothing.               *)
(***************************************************************************)
LEMMA SeedEnters ==
  ASSUME MarkInv, Seed, Pubs[taken + 1] \in Offsets(Code), Pubs[taken + 1] \notin visited,
         UNCHANGED file
  PROVE  MarkInv' /\ Explore!Next
<1> DEFINE b == Pubs[taken + 1]
<1>1. /\ phase = "seed" /\ taken < Len(Pubs) /\ taken' = taken + 1
      /\ visited' = visited \cup {b} /\ boundary' = boundary \cup {b}
      /\ worklist' = Append(worklist, taken) /\ UNCHANGED <<file, phase, cur>>
  BY DEF Seed, Stop
<1>2. /\ taken \in Nat /\ Len(Pubs) \in Nat /\ taken + 1 \in 1 .. Len(Pubs)
      /\ Pubs' = Pubs /\ Code' = Code /\ file \in DOMAIN Files /\ cur = Null
  BY <1>1, FileFacts DEF MarkInv, MarkTyped, Pubs, Code
<1>3. b = taken
  <2>1. \A j \in 1 .. taken : Pubs[j] \in visited
    BY DEF MarkInv
  <2>2. b = (taken + 1) - 1 \/ \E j \in 1 .. (taken + 1) - 1 : Pubs[j] = b
    BY <1>2 DEF MarkInv, Aligned
  <2> QED
    BY <1>2, <2>1, <2>2
<1>4. \A k \in 1 .. taken' : Pubs[k] \in visited'
  <2>1. \A k \in 1 .. taken' : k \in 1 .. taken \/ k = taken + 1
    BY <1>1, <1>2
  <2> QED
    BY <1>1, <2>1 DEF MarkInv
<1> HIDE DEF b
<1>5. b \in Offsets(Code) /\ b \notin visited
  BY DEF b
<1>6. worklist' = Append(worklist, b)
  BY <1>1, <1>3
<1>7. worklist' \in Seq(Offsets(Code)) /\ Waiting' = Waiting \cup {b}
  BY <1>5, <1>6, MarkFacts, ToSetAppend DEF Waiting
<1>8. Frontier' = Frontier \cup {b}
  BY <1>1, <1>7 DEF Frontier
<1>9. Once'
  <2>1. cur' \notin Waiting'
    BY <1>1, <1>2, <1>5, <1>7, MarkFacts
  <2>2. /\ Len(worklist') = Len(worklist) + 1
        /\ Len(worklist) \in Nat /\ worklist'[Len(worklist) + 1] = b
        /\ \A k \in 1 .. Len(worklist) : worklist'[k] = worklist[k]
    BY <1>5, <1>6, MarkFacts
  <2>3. \A k \in 1 .. Len(worklist) : worklist[k] # b
    <3>1. ToSet(worklist) = {worklist[k] : k \in 1 .. Len(worklist)}
      BY MarkFacts, WaitingIs
    <3> QED
      BY <1>5, <3>1, MarkFacts DEF Waiting
  <2>4. \A j, k \in 1 .. Len(worklist) : worklist[j] = worklist[k] => j = k
    BY DEF MarkInv, Once
  <2> QED
    BY <2>1, <2>2, <2>3, <2>4 DEF Once
<1>10. MarkTyped'
  <2>1. taken' \in 0 .. Len(Pubs)
    BY <1>1, <1>2
  <2> QED
    BY <1>1, <1>2, <1>5, <1>7, <2>1, MarkFacts DEF MarkInv, MarkTyped, MaybeOffset, Offsets
<1>11. Aligned'
  BY <1>2 DEF MarkInv, Aligned
<1>12. \A i \in visited' \ Frontier' : Explored(i)'
  BY <1>1, <1>2, <1>8 DEF MarkInv, Explored
<1>13. MarkInv'
  BY <1>1, <1>2, <1>4, <1>8, <1>9, <1>10, <1>11, <1>12 DEF MarkInv, Ends
<1>14. b \in Entries(file)
  <2>1. Pubs \in Seq(Nat)
    BY <1>2, FileFacts
  <2> QED
    BY <1>2, <2>1 DEF Entries, Pubs, ToSet, b
<1>15. Explore!Enter
  BY <1>1, <1>5, <1>8, <1>14 DEF Explore!Enter, Frontier, Waiting
<1> QED
  BY <1>13, <1>15 DEF Explore!Next

(* What changes neither the marks nor the worklist.                         *)
LEMMA MarksStay ==
  ASSUME MarkInv, phase' \in Phases, UNCHANGED <<file, marking>>,
         phase' = "seed" => cur = Null,
         phase' # "seed" /\ phase' \notin Ends => taken = Len(Pubs),
         phase' \in {"count", "sort", "print"} => cur = Null /\ worklist = <<>>
  PROVE  MarkInv' /\ UNCHANGED Explore!vars
<1>1. /\ Pubs' = Pubs /\ Code' = Code /\ UNCHANGED <<taken, worklist, cur, visited, boundary>>
      /\ file' = file
  BY DEF Pubs, Code, marking
<1>2. Waiting' = Waiting /\ Frontier' = Frontier
  BY <1>1 DEF Waiting, Frontier
<1>3. MarkTyped' /\ Aligned' /\ Once'
  BY <1>1, <1>2 DEF MarkInv, MarkTyped, Aligned, Once, MaybeOffset
<1>4. UNCHANGED Explore!vars
  BY <1>1, <1>2 DEF Explore!vars, Frontier, Waiting
<1> QED
  BY <1>1, <1>2, <1>3, <1>4 DEF MarkInv, Explored

LEMMA StopStays ==
  ASSUME MarkInv, NEW how \in Ends, Stop(how), UNCHANGED file
  PROVE  MarkInv' /\ UNCHANGED Explore!vars
BY MarksStay DEF Stop, Phases, Ends

LEMMA SeedStays ==
  ASSUME MarkInv, Seed, UNCHANGED file,
         ~ (Pubs[taken + 1] \in Offsets(Code) /\ Pubs[taken + 1] \notin visited)
  PROVE  MarkInv' /\ UNCHANGED Explore!vars
<1> DEFINE b == Pubs[taken + 1]
<1>1. CASE b \notin Offsets(Code)
  BY <1>1, StopStays DEF Seed, Ends
<1>2. CASE b \in visited /\ b \in Offsets(Code)
  <2>1. /\ phase = "seed" /\ taken < Len(Pubs) /\ taken' = taken + 1
        /\ UNCHANGED <<file, phase, cur, worklist, boundary, visited>>
    BY <1>2 DEF Seed, Stop
  <2>2. /\ taken \in Nat /\ Len(Pubs) \in Nat /\ Pubs' = Pubs /\ Code' = Code
        /\ file \in DOMAIN Files
    BY <2>1, FileFacts DEF MarkInv, MarkTyped, Pubs, Code
  <2>3. Waiting' = Waiting /\ Frontier' = Frontier
    BY <2>1 DEF Waiting, Frontier
  <2>4. taken' \in 0 .. Len(Pubs) /\ \A k \in 1 .. taken' : k \in 1 .. taken \/ k = taken + 1
    BY <2>1, <2>2
  <2>5. \A k \in 1 .. taken' : Pubs[k] \in visited
    BY <1>2, <2>4 DEF MarkInv
  <2>6. MarkTyped' /\ Aligned' /\ Once'
    BY <2>1, <2>2, <2>3, <2>4 DEF MarkInv, MarkTyped, Aligned, Once, MaybeOffset
  <2>7. UNCHANGED Explore!vars
    BY <2>1, <2>3 DEF Explore!vars, Frontier, Waiting
  <2>8. \A i \in visited' \ Frontier' : Explored(i)'
    BY <2>1, <2>2, <2>3 DEF MarkInv, Explored
  <2> QED
    BY <2>1, <2>2, <2>3, <2>5, <2>6, <2>7, <2>8 DEF MarkInv, Ends
<1> QED
  BY <1>1, <1>2

LEMMA PopStays ==
  ASSUME MarkInv, Pop, UNCHANGED file
  PROVE  MarkInv' /\ UNCHANGED Explore!vars
<1>1. CASE Last(worklist) \notin Offsets(Code)
  BY <1>1, StopStays DEF Pop, Ends
<1>2. CASE Last(worklist) \in Offsets(Code)
  <2>1. /\ phase = "mark" /\ cur = Null /\ worklist # <<>>
        /\ cur' = Last(worklist) /\ worklist' = Front(worklist)
        /\ UNCHANGED <<file, phase, taken, visited, boundary>>
    BY <1>2 DEF Pop
  <2>2. /\ worklist' \in Seq(Offsets(Code)) /\ Len(worklist') = Len(worklist) - 1
        /\ Waiting = Waiting' \cup {cur'}
        /\ \A k \in 1 .. Len(worklist') : worklist'[k] = worklist[k]
    BY <2>1, MarkFacts, ToSetFront DEF Waiting
  <2>3. Len(worklist) \in Nat \ {0} /\ cur' = worklist[Len(worklist)]
    <3>1. worklist \in Seq(Offsets(Code))
      BY MarkFacts
    <3>2. Len(worklist) \in Nat /\ Len(worklist) # 0
      BY <2>1, <3>1, EmptySeq
    <3> QED
      BY <2>1, <3>2 DEF Last
  <2>4. Once'
    <3>1. \A j, k \in 1 .. Len(worklist) : worklist[j] = worklist[k] => j = k
      BY DEF MarkInv, Once
    <3>2. \A k \in 1 .. Len(worklist') : worklist'[k] # cur'
      BY <2>2, <2>3, <3>1
    <3>3. ToSet(worklist') = {worklist'[k] : k \in 1 .. Len(worklist')}
      BY <2>2, WaitingIs
    <3>4. cur' \notin Waiting'
      BY <3>2, <3>3 DEF Waiting
    <3> QED
      BY <2>2, <2>3, <3>1, <3>4 DEF Once
  <2>5. Frontier' = Frontier
    BY <1>2, <2>1, <2>2, MarkFacts DEF Frontier
  <2>6. Code' = Code /\ Pubs' = Pubs
    BY <2>1 DEF Code, Pubs
  <2>7. MarkTyped' /\ Aligned'
    BY <1>2, <2>1, <2>2, <2>6 DEF MarkInv, MarkTyped, Aligned, MaybeOffset
  <2>8. UNCHANGED Explore!vars
    BY <2>1, <2>5 DEF Explore!vars, Frontier, Waiting
  <2> QED
    BY <2>1, <2>4, <2>5, <2>6, <2>7, <2>8 DEF MarkInv, Explored, Ends
<1> QED
  BY <1>1, <1>2

LEMMA OthersStay ==
  ASSUME MarkInv, UNCHANGED file,
         \/ SeedsDone \/ BadTarget \/ MarkingDone \/ SkipByte \/ CountInstruction
         \/ CountingDone \/ Sort \/ PrintRow
  PROVE  MarkInv' /\ UNCHANGED Explore!vars
<1>1. CASE SeedsDone
  BY <1>1, MarksStay DEF SeedsDone, Phases, Ends
<1>2. CASE BadTarget
  BY <1>2, StopStays DEF BadTarget, Ends
<1>3. CASE MarkingDone
  BY <1>3, MarksStay DEF MarkingDone, Phases, Ends, MarkInv
<1>4. CASE SkipByte
  BY <1>4, MarksStay DEF SkipByte, Phases, Ends, MarkInv
<1>5. CASE CountInstruction
  <2>1. CASE Stop("wild")
    BY <2>1, StopStays DEF Ends
  <2>2. CASE ~ Stop("wild")
    BY <1>5, <2>2, MarksStay DEF CountInstruction, Phases, Ends, MarkInv
  <2> QED
    BY <2>1, <2>2
<1>6. CASE CountingDone
  BY <1>6, MarksStay DEF CountingDone, Phases, Ends, MarkInv
<1>7. CASE Sort
  <2>1. CASE Stop("wild")
    BY <2>1, StopStays DEF Ends
  <2>2. CASE ~ Stop("wild")
    BY <1>7, <2>2, MarksStay DEF Sort, Phases, Ends, MarkInv
  <2> QED
    BY <2>1, <2>2
<1>8. CASE PrintRow
  <2>1. CASE Stop("done")
    BY <2>1, StopStays DEF Ends
  <2>2. CASE ~ Stop("done")
    <3>1. phase = "print" /\ UNCHANGED <<phase, marking>>
      BY <1>8, <2>2 DEF PrintRow
    <3> QED
      BY <3>1, MarksStay DEF Phases, Ends, MarkInv
  <2> QED
    BY <2>1, <2>2
<1> QED
  BY <1>1, <1>2, <1>3, <1>4, <1>5, <1>6, <1>7, <1>8

LEMMA StepExplores ==
  ASSUME MarkInv, [Next]_vars
  PROVE  MarkInv' /\ [Explore!Next]_(Explore!vars)
<1>1. CASE UNCHANGED vars
  BY <1>1, MarksStay DEF vars, MarkInv, MarkTyped
<1>2. CASE Step /\ UNCHANGED file
  BY <1>2, JumpFollows, ReturnFollows, CallFollows, ReferenceFollows, PlainFollows,
     SeedEnters, SeedStays, PopStays, OthersStay DEF Step
<1> QED
  BY <1>1, <1>2 DEF Next, Ended

LEMMA InitExplores ==
  ASSUME Init, Aligned
  PROVE  MarkInv /\ Explore!Init
<1>1. Waiting = {} /\ Frontier = {}
  BY NoneWaits DEF Init, Waiting, Frontier
<1>2. file \in DOMAIN Files /\ Len(Pubs) \in Nat
  BY FileFacts DEF Init
<1>3. MarkTyped /\ Once
  BY <1>1, <1>2 DEF Init, MarkTyped, Once, Phases, MaybeOffset
<1> QED
  BY <1>1, <1>3 DEF Init, MarkInv, Explore!Init, Frontier, Waiting, Ends

LEMMA MarkHolds == Spec /\ Aligned => []MarkInv
<1>1. Init /\ Aligned => MarkInv
  BY InitExplores
<1>2. MarkInv /\ [Next]_vars => MarkInv'
  BY StepExplores
<1> QED
  BY <1>1, <1>2, PTL DEF Spec

(* mark_instructions, with its two nested loops over one stack, is a         *)
(* worklist: what it marks at each step, and what it still has to follow,    *)
(* are what an abstract exploration of the code marks and keeps.            *)
THEOREM AnalyserImplementsExploration == Spec /\ Aligned => ImplementsExploration
<1>1. Init /\ Aligned => Explore!Init
  BY InitExplores
<1>2. MarkInv /\ [Next]_vars => [Explore!Next]_(Explore!vars)
  BY StepExplores
<1> QED
  BY <1>1, <1>2, MarkHolds, PTL DEF Spec, Explore!Spec, ImplementsExploration

-----------------------------------------------------------------------------
(***************************************************************************)
(* What is marked when marking is done.                                     *)
(***************************************************************************)
(* What waits is marked, the successors of what no longer waits are marked, *)
(* and nothing is marked that the entries do not lead to.                   *)
Progress == /\ Frontier \subseteq visited
            /\ \A n \in visited \ Frontier : Succ(file, n) \subseteq visited
            /\ \A n \in visited : Explore!Leads(file, n)

LEMMA InitProgress == Explore!Init => Progress
  BY DEF Explore!Init, Progress, Frontier, Waiting

(* Whatever a node leads to is led to by the entries of that node.          *)
LEMMA SuccessorsLed ==
  ASSUME NEW g, NEW n, Explore!Leads(g, n), NEW s \in Succ(g, n)
  PROVE  Explore!Leads(g, s)
  BY DEF Explore!Leads, Explore!Closed

LEMMA StepProgress == Progress /\ [Explore!Next]_(Explore!vars) => Progress'
<1> SUFFICES ASSUME Progress, [Explore!Next]_(Explore!vars) PROVE Progress'
  OBVIOUS
<1>1. CASE Explore!Enter /\ UNCHANGED file
  <2>1. PICK n \in Entries(file) \ visited : /\ visited' = visited \cup {n}
                                            /\ Frontier' = Frontier \cup {n}
    BY <1>1 DEF Explore!Enter, Frontier, Waiting
  <2>2. Explore!Leads(file, n)
    BY DEF Explore!Leads, Explore!Closed
  <2>3. QED
    BY <1>1, <2>1, <2>2 DEF Progress, Explore!Leads, Explore!Closed
<1>2. CASE Explore!Visit /\ UNCHANGED file
  <2>1. PICK n \in Frontier :
          /\ visited' = visited \cup Succ(file, n)
          /\ Frontier' = (Frontier \ {n}) \cup (Succ(file, n) \ visited)
    BY <1>2 DEF Explore!Visit, Frontier, Waiting
  <2>2. (Frontier \subseteq visited)'
    BY <2>1 DEF Progress
  <2>3. ASSUME NEW m \in visited' \ Frontier' PROVE Succ(file, m) \subseteq visited'
    <3>1. CASE m = n
      BY <3>1, <2>1
    <3>2. CASE m # n
      BY <3>2, <2>1, <2>3 DEF Progress
    <3>3. QED BY <3>1, <3>2
  <2>4. ASSUME NEW m \in visited' PROVE Explore!Leads(file, m)
    BY <2>1, <2>4, SuccessorsLed DEF Progress
  <2>5. QED
    BY <1>2, <2>2, <2>3, <2>4 DEF Progress, Explore!Leads, Explore!Closed
<1>3. CASE UNCHANGED Explore!vars
  BY <1>3 DEF Explore!vars, Progress, Frontier, Waiting, Explore!Leads, Explore!Closed
<1>4. QED
  BY <1>1, <1>2, <1>3 DEF Explore!Next

LEMMA ProgressInvariant == Explore!Spec => []Progress
<1>1. Explore!Init => Progress
  BY InitProgress
<1>2. Progress /\ [Explore!Next]_(Explore!vars) => Progress'
  BY StepProgress
<1>3. QED
  BY <1>1, <1>2, PTL DEF Explore!Spec

(* Progress says it all once nothing waits: what is marked is then closed.   *)
LEMMA ProgressIsExact == Progress => Explore!Exact
<1> SUFFICES ASSUME Progress, Explore!Finished PROVE \A n : n \in visited <=> Explore!Leads(file, n)
  BY DEF Explore!Exact
<1>1. Explore!Closed(file, visited)
  BY DEF Progress, Explore!Finished, Explore!Closed, Frontier, Waiting
<1>2. QED
  BY <1>1 DEF Progress, Explore!Leads

(* An exploration marks, when nothing waits, exactly the nodes that the      *)
(* entries lead to: whatever the code, and in whatever order a worklist like *)
(* that of mark_instructions takes what waits.                              *)
THEOREM ExplorationExact == Explore!Spec => []Explore!Exact
  BY ProgressInvariant, ProgressIsExact, PTL

Marked == phase \in {"count", "sort", "print"} =>
            \A i : i \in visited <=> Explore!Leads(file, i)

LEMMA MarkedEntries ==
  ASSUME MarkInv, phase \in {"count", "sort", "print"}
  PROVE  Explore!Finished
<1>1. /\ taken = Len(Pubs) /\ cur = Null /\ worklist = <<>> /\ file \in DOMAIN Files
      /\ \A k \in 1 .. taken : Pubs[k] \in visited
  BY DEF MarkInv, MarkTyped, Ends
<1>2. Entries(file) = {Pubs[k] : k \in 1 .. Len(Pubs)}
  BY <1>1, FileFacts, WaitingIs DEF Entries, Pubs
<1> QED
  BY <1>1, <1>2, NoneWaits DEF Explore!Finished

(* When mark_instructions is done, exactly the instructions are visited that *)
(* the public symbols lead to, by jumps, branches, calls, closures and going *)
(* on: whatever the code, and whenever it meets what is already visited.    *)
THEOREM MarkingExact == Spec /\ Aligned => []Marked
<1>1. Explore!Exact /\ MarkInv => Marked
  BY MarkedEntries DEF Explore!Exact, Marked
<1> QED
  BY <1>1, MarkHolds, AnalyserImplementsExploration, ExplorationExact, PTL DEF ImplementsExploration

-----------------------------------------------------------------------------
(* Instructions that pass control on to the next and nowhere else.           *)
FallsThrough(i) == /\ get_next(Code, i) \in Succ(file, i)
                   /\ Op(Code, i) \notin {"JMP", "CALL", "FAIL"} \cup Returns

LEMMA FallThrough ==
  ASSUME NEW i, Explored(i), i \notin boundary, get_next(Code, i) # Null
  PROVE  FallsThrough(i)
BY DEF Explored, Stopping, FallsThrough, Succ, ControlFlow, Code

LEMMA PairsAre ==
  PairsFallThrough <=> \A k \in DOMAIN double_occurencies : FallsThrough(double_occurencies[k])
BY DEF PairsFallThrough, FallsThrough

LEMMA SameCode ==
  ASSUME UNCHANGED file
  PROVE  /\ Code' = Code /\ MaybeOffset' = MaybeOffset
         /\ \A i : FallsThrough(i)' <=> FallsThrough(i)
BY DEF Code, MaybeOffset, FallsThrough, Succ

-----------------------------------------------------------------------------
(* A code section: bytes at offsets that leave none out.                    *)
IsCode(c) == /\ DOMAIN c \subseteq Nat
             /\ \A i \in DOMAIN c : 0 .. i \subseteq DOMAIN c /\ c[i] \in 0 .. 255

(* ReachedFrom computes the least set of offsets that holds the entries and  *)
(* what its members lead to.                                               *)
More(c, S)   == S \cup UNION {ControlFlow(c, i) : i \in S}
Shut(c, S)   == \A i \in S : ControlFlow(c, i) \subseteq S
LeastShut(c, S) == {i \in Offsets(c) :
                      \A T \in SUBSET Offsets(c) : S \subseteq T /\ Shut(c, T) => i \in T}
Grows(c, g)  == g = [S \in SUBSET Offsets(c) |-> IF More(c, S) = S THEN S ELSE g[More(c, S)]]

LEMMA FlowStaysInside ==
  ASSUME NEW c, IsCode(c), NEW i
  PROVE  ControlFlow(c, i) \subseteq Offsets(c)
BY DEF ControlFlow, get_next, OffsetOrNull

LEMMA ReachedIsLeast ==
  ASSUME NEW c, IsCode(c), IsFiniteSet(Offsets(c)), NEW E \in SUBSET Offsets(c)
  PROVE  ReachedFrom(c, E) = LeastShut(c, E)
<1> DEFINE O == Offsets(c)
           flow == [S \in SUBSET O |-> More(c, S)]
           grow == CHOOSE g : Grows(c, g)
<1>1. Enlarges(O, flow)
  <2>1. \A S \in SUBSET O : flow[S] = More(c, S)
    OBVIOUS
  <2>2. \A S \in SUBSET O : More(c, S) \in SUBSET O /\ S \subseteq More(c, S)
    BY FlowStaysInside DEF More
  <2>3. \A S, T \in SUBSET O : S \subseteq T => More(c, S) \subseteq More(c, T)
    BY DEF More
  <2>4. flow \in [SUBSET O -> SUBSET O]
    BY <2>2
  <2> HIDE DEF flow, O
  <2> QED
    BY <2>1, <2>2, <2>3, <2>4 DEF Enlarges
<1>2. \A g : Growing(O, flow, g) <=> Grows(c, g)
  BY DEF Growing, Grows
<1>3. ReachedFrom(c, E) = grow[E]
  BY DEF ReachedFrom, Grows, More
<1>4. LeastClosed(O, flow, E) = LeastShut(c, E)
  <2>1. \A T \in SUBSET O : flow[T] = T <=> Shut(c, T)
    BY DEF More, Shut
  <2> HIDE DEF flow
  <2> QED
    BY <2>1 DEF LeastClosed, LeastShut
<1> HIDE DEF flow
<1>5. Growing(O, flow, grow)
  BY <1>1, <1>2, GrowingExists
<1> HIDE DEF grow
<1> QED
  BY <1>1, <1>3, <1>4, <1>5, GrowingIsLeast

-----------------------------------------------------------------------------
(***************************************************************************)
(* Comparing instructions.  Instructions that lie whole in the code and are *)
(* as long as their arguments are ordered by their bytes: where one ends    *)
(* before it differs from the other, it ends there as well.                 *)
(***************************************************************************)
Captures(c, i) == Op(c, i) = "CLOSURE" /\ Complete(c, i) => Arg(c, i, 1) >= 0
Instruction(c, i) == i \in Offsets(c) /\ Whole(c, i) /\ Captures(c, i)

LEMMA ArgsLengths ==
  ASSUME NEW op
  PROVE  ArgsLength(op) \in {0, 1, 2} /\ (op = "CLOSURE" => ArgsLength(op) = 2)
BY DEF ArgsLength, TwoArgs

LEMMA ArgIsInteger ==
  ASSUME NEW c, IsCode(c), NEW i \in Nat, NEW k \in {0, 1}, i + 4 * (k + 1) \in DOMAIN c
  PROVE  Arg(c, i, k) \in Int
<1>1. i + 4 * (k + 1) \in Nat /\ i + 1 + 4 * k \in Nat
  OBVIOUS
<1>2. \A d \in 0 .. 3 : i + 1 + 4 * k + d \in 0 .. i + 4 * (k + 1)
  OBVIOUS
<1>3. \A d \in 0 .. 3 : i + 1 + 4 * k + d \in DOMAIN c
  BY <1>2 DEF IsCode
<1> DEFINE a == i + 1 + 4 * k
<1>4. /\ a + 0 \in DOMAIN c /\ a + 1 \in DOMAIN c /\ a + 2 \in DOMAIN c /\ a + 3 \in DOMAIN c
      /\ a + 0 = a
  BY <1>1, <1>3
<1> HIDE DEF a
<1>5. c[a] \in Int /\ c[a + 1] \in Int /\ c[a + 2] \in Int /\ c[a + 3] \in Int
  BY <1>4 DEF IsCode
<1>6. Int32(c, a) \in Int
  BY <1>5 DEF Int32, Signed
<1> QED
  BY <1>6 DEF Arg, a

LEMMA Sizes ==
  ASSUME NEW c, IsCode(c), NEW i, Instruction(c, i)
  PROVE  /\ i \in Nat /\ SizeAt(c, i) \in Nat /\ SizeAt(c, i) > 0
         /\ SizeAt(c, i) >= 1 + 4 * ArgsLength(Op(c, i))
         /\ \A k \in 0 .. SizeAt(c, i) - 1 : i + k \in DOMAIN c /\ c[i + k] \in 0 .. 255
<1> DEFINE n == ArgsLength(Op(c, i))
<1>1. i \in Nat /\ i \in DOMAIN c
  BY DEF Instruction, Offsets, IsCode
<1>2. n \in {0, 1, 2} /\ (Op(c, i) = "CLOSURE" => n = 2)
  BY ArgsLengths
<1>3. i + 4 * n \in DOMAIN c
  BY DEF Instruction, Whole, Complete, Offsets
<1>4. Op(c, i) = "CLOSURE" => Arg(c, i, 1) \in Int /\ Arg(c, i, 1) >= 0
  <2> SUFFICES ASSUME Op(c, i) = "CLOSURE" PROVE Arg(c, i, 1) \in Int /\ Arg(c, i, 1) >= 0
    OBVIOUS
  <2>1. i + 4 * (1 + 1) \in DOMAIN c
    BY <1>2, <1>3
  <2>2. Arg(c, i, 1) \in Int
    BY <1>1, <2>1, ArgIsInteger
  <2> QED
    BY <2>2 DEF Instruction, Captures, Whole
<1>5. SizeAt(c, i) = 1 + 4 * n + (IF Op(c, i) = "CLOSURE" THEN 5 * Arg(c, i, 1) ELSE 0)
  BY DEF SizeAt
<1> HIDE DEF n
<1>6. SizeAt(c, i) \in Nat /\ SizeAt(c, i) > 0 /\ SizeAt(c, i) >= 1 + 4 * n
  BY <1>2, <1>4, <1>5
<1>7. i + SizeAt(c, i) - 1 \in DOMAIN c
  BY DEF Instruction, Whole, Offsets
<1>8. ASSUME NEW k \in 0 .. SizeAt(c, i) - 1 PROVE i + k \in DOMAIN c /\ c[i + k] \in 0 .. 255
  <2>1. i + k \in 0 .. i + SizeAt(c, i) - 1
    BY <1>1, <1>6
  <2> QED
    BY <1>7, <2>1 DEF IsCode
<1> QED
  BY <1>1, <1>6, <1>8 DEF n

LEMMA ByteIsInteger ==
  ASSUME NEW c, IsCode(c), NEW i, Instruction(c, i), NEW k \in 0 .. SizeAt(c, i) - 1
  PROVE  c[i + k] \in Int
<1>1. c[i + k] \in 0 .. 255
  BY Sizes
<1> QED
  BY <1>1

(* What agrees with an instruction over the instruction's length is as long. *)
LEMMA AgreeingSizes ==
  ASSUME NEW c, IsCode(c), NEW i, NEW j, Instruction(c, i), Instruction(c, j),
         AgreeTo(c, i, j, SizeAt(c, i))
  PROVE  SizeAt(c, j) = SizeAt(c, i)
<1> DEFINE n == SizeAt(c, i)
<1>1. i \in Nat /\ j \in Nat /\ n \in Nat /\ n > 0 /\ n >= 1 + 4 * ArgsLength(Op(c, i))
  BY Sizes
<1>2. \A k \in 0 .. n - 1 : c[i + k] = c[j + k]
  BY DEF AgreeTo
<1> HIDE DEF n
<1>3. c[i] = c[j]
  <2>1. 0 \in 0 .. n - 1
    BY <1>1
  <2>2. c[i + 0] = c[j + 0]
    BY <1>2, <2>1
  <2> QED
    BY <1>1, <2>2
<1>4. Op(c, i) = Op(c, j)
  BY <1>3 DEF Op
<1>5. CASE Op(c, i) = "CLOSURE"
  <2>1. n >= 9
    BY <1>1, <1>5, ArgsLengths
  <2>2. \A k \in 5 .. 8 : k \in 0 .. n - 1
    BY <1>1, <2>1
  <2>3. c[i + 5] = c[j + 5] /\ c[i + 6] = c[j + 6] /\ c[i + 7] = c[j + 7] /\ c[i + 8] = c[j + 8]
    BY <1>2, <2>2
  <2>4. /\ i + 1 + 4 * 1 = i + 5 /\ (i + 5) + 1 = i + 6 /\ (i + 5) + 2 = i + 7 /\ (i + 5) + 3 = i + 8
        /\ j + 1 + 4 * 1 = j + 5 /\ (j + 5) + 1 = j + 6 /\ (j + 5) + 2 = j + 7 /\ (j + 5) + 3 = j + 8
    BY <1>1
  <2>5. Int32(c, i + 5) = Int32(c, j + 5)
    BY <2>3, <2>4 DEF Int32
  <2>6. Arg(c, i, 1) = Arg(c, j, 1)
    BY <2>4, <2>5 DEF Arg
  <2> QED
    BY <1>4, <2>6 DEF SizeAt
<1>6. CASE Op(c, i) # "CLOSURE"
  BY <1>4, <1>6 DEF SizeAt
<1> QED
  BY <1>5, <1>6

LEMMA AgreeIsEquivalence ==
  /\ \A c, i, n : AgreeTo(c, i, i, n)
  /\ \A c, i, j, n : AgreeTo(c, i, j, n) <=> AgreeTo(c, j, i, n)
  /\ \A c, i, j, k, n : AgreeTo(c, i, j, n) /\ AgreeTo(c, j, k, n) => AgreeTo(c, i, k, n)
BY DEF AgreeTo

LEMMA AgreeShorter ==
  ASSUME NEW c, NEW i, NEW j, NEW m \in Nat, NEW n \in Nat, m <= n, AgreeTo(c, i, j, n)
  PROVE  AgreeTo(c, i, j, m)
BY DEF AgreeTo

(* Where two instructions first differ, if they do: within both.            *)
LEMMA FirstDifference ==
  ASSUME NEW c, IsCode(c), NEW i, NEW j, Instruction(c, i), Instruction(c, j), ~ Same(c, i, j)
  PROVE  \E k \in Nat : /\ k < SizeAt(c, i) /\ k < SizeAt(c, j)
                        /\ AgreeTo(c, i, j, k) /\ c[i + k] # c[j + k]
<1> DEFINE D == {k \in 0 .. SizeAt(c, i) - 1 : c[i + k] # c[j + k]}
<1>1. SizeAt(c, i) \in Nat /\ SizeAt(c, j) \in Nat
  BY Sizes
<1>2. D \in SUBSET Nat /\ D # {}
  BY <1>1 DEF Same, AgreeTo
<1>3. PICK k \in D : \A m \in D : k <= m
  BY <1>2, LeastNatural
<1>4. k \in Nat /\ k < SizeAt(c, i) /\ c[i + k] # c[j + k]
  BY <1>1, <1>3
<1>5. AgreeTo(c, i, j, k)
  BY <1>1, <1>3 DEF AgreeTo
<1>6. k < SizeAt(c, j)
  <2> SUFFICES ASSUME SizeAt(c, j) <= k PROVE FALSE
    BY <1>1, <1>4
  <2>1. AgreeTo(c, j, i, SizeAt(c, j))
    BY <1>1, <1>4, <1>5, AgreeShorter, AgreeIsEquivalence
  <2>2. SizeAt(c, i) = SizeAt(c, j)
    BY <2>1, AgreeingSizes
  <2> QED
    BY <1>1, <1>4, <2>2
<1> QED
  BY <1>4, <1>5, <1>6

(* Instruction::cmp orders instructions of any lengths, equal ones alike.    *)
LEMMA SameIsEquivalence ==
  ASSUME NEW c, IsCode(c), NEW i, NEW j, NEW k,
         Instruction(c, i), Instruction(c, j), Instruction(c, k)
  PROVE  /\ Same(c, i, i)
         /\ Same(c, i, j) => Same(c, j, i)
         /\ Same(c, i, j) /\ Same(c, j, k) => Same(c, i, k)
         /\ Same(c, i, j) => SizeAt(c, i) = SizeAt(c, j)
BY AgreeingSizes, AgreeIsEquivalence DEF Same

LEMMA PrecedesExcludes ==
  ASSUME NEW c, IsCode(c), NEW i, NEW j, Instruction(c, i), Instruction(c, j), Precedes(c, i, j)
  PROVE  ~ Same(c, i, j) /\ ~ Precedes(c, j, i)
<1>1. PICK k \in 0 .. SizeAt(c, i) - 1 : AgreeTo(c, i, j, k) /\ c[i + k] < c[j + k]
  BY DEF Precedes
<1>2. SizeAt(c, i) \in Nat /\ SizeAt(c, j) \in Nat
  BY Sizes
<1>3. c[i + k] \in Int
  BY ByteIsInteger
<1>4. c[i + k] # c[j + k]
  BY <1>1, <1>3
<1>5. ~ Same(c, i, j)
  BY <1>1, <1>4 DEF Same, AgreeTo
<1>6. k < SizeAt(c, j)
  <2> SUFFICES ASSUME SizeAt(c, j) <= k PROVE FALSE
    BY <1>2
  <2>1. AgreeTo(c, j, i, SizeAt(c, j))
    BY <1>1, <1>2, AgreeShorter, AgreeIsEquivalence
  <2>2. SizeAt(c, i) = SizeAt(c, j)
    BY <2>1, AgreeingSizes
  <2> QED
    BY <1>2, <2>2
<1>7. c[j + k] \in Int
  <2>1. k \in 0 .. SizeAt(c, j) - 1
    BY <1>2, <1>6
  <2> QED
    BY <2>1, ByteIsInteger
<1>8. ASSUME Precedes(c, j, i) PROVE FALSE
  <2>1. PICK m \in 0 .. SizeAt(c, j) - 1 : AgreeTo(c, j, i, m) /\ c[j + m] < c[i + m]
    BY <1>8 DEF Precedes
  <2>2. CASE m < k
    <3>1. c[i + m] = c[j + m]
      BY <1>1, <1>2, <2>2 DEF AgreeTo
    <3>2. c[j + m] \in Int
      BY ByteIsInteger
    <3> QED
      BY <2>1, <3>1, <3>2
  <2>3. CASE k < m
    <3>1. c[i + k] = c[j + k]
      BY <2>1, <1>2, <2>3 DEF AgreeTo
    <3> QED
      BY <1>4, <3>1
  <2>4. CASE k = m
    BY <1>1, <1>3, <1>7, <2>1, <2>4
  <2> QED
    BY <1>2, <2>2, <2>3, <2>4
<1> QED
  BY <1>5, <1>8

LEMMA PrecedesOrSame ==
  ASSUME NEW c, IsCode(c), NEW i, NEW j, Instruction(c, i), Instruction(c, j), ~ Same(c, i, j)
  PROVE  Precedes(c, i, j) \/ Precedes(c, j, i)
<1>1. PICK k \in Nat : /\ k < SizeAt(c, i) /\ k < SizeAt(c, j)
                       /\ AgreeTo(c, i, j, k) /\ c[i + k] # c[j + k]
  BY FirstDifference
<1>2. SizeAt(c, i) \in Nat /\ SizeAt(c, j) \in Nat
  BY Sizes
<1>3. k \in 0 .. SizeAt(c, i) - 1 /\ k \in 0 .. SizeAt(c, j) - 1
  BY <1>1, <1>2
<1>4. c[i + k] \in Int /\ c[j + k] \in Int
  BY <1>3, ByteIsInteger
<1>5. AgreeTo(c, j, i, k)
  BY <1>1, AgreeIsEquivalence
<1>6. c[i + k] < c[j + k] \/ c[j + k] < c[i + k]
  BY <1>1, <1>4
<1> QED
  BY <1>1, <1>3, <1>5, <1>6 DEF Precedes

LEMMA PrecedesIsTransitive ==
  ASSUME NEW c, IsCode(c), NEW i, NEW j, NEW l,
         Instruction(c, i), Instruction(c, j), Instruction(c, l),
         Precedes(c, i, j), Precedes(c, j, l)
  PROVE  Precedes(c, i, l)
<1>1. PICK k \in 0 .. SizeAt(c, i) - 1 : AgreeTo(c, i, j, k) /\ c[i + k] < c[j + k]
  BY DEF Precedes
<1>2. PICK m \in 0 .. SizeAt(c, j) - 1 : AgreeTo(c, j, l, m) /\ c[j + m] < c[l + m]
  BY DEF Precedes
<1>3. SizeAt(c, i) \in Nat /\ SizeAt(c, j) \in Nat /\ k \in Nat /\ m \in Nat
  BY Sizes
<1>4. c[i + k] \in Int /\ c[j + m] \in Int
  BY ByteIsInteger
<1>5. CASE k < m
  <2>1. c[j + k] = c[l + k]
    BY <1>2, <1>3, <1>5 DEF AgreeTo
  <2>2. AgreeTo(c, i, l, k)
    BY <1>1, <1>2, <1>3, <1>5, AgreeShorter, AgreeIsEquivalence
  <2> QED
    BY <1>1, <2>1, <2>2 DEF Precedes
<1>6. CASE m < k
  <2>1. c[i + m] = c[j + m]
    BY <1>1, <1>3, <1>6 DEF AgreeTo
  <2>2. AgreeTo(c, i, l, m)
    BY <1>1, <1>2, <1>3, <1>6, AgreeShorter, AgreeIsEquivalence
  <2>3. m \in 0 .. SizeAt(c, i) - 1
    BY <1>3, <1>6
  <2> QED
    BY <1>2, <2>1, <2>2, <2>3 DEF Precedes
<1>7. CASE k = m
  <2>1. AgreeTo(c, i, l, k)
    BY <1>1, <1>2, <1>7, AgreeIsEquivalence
  <2>2. c[l + k] \in Int
    <3>1. ~ Precedes(c, l, j) /\ ~ Same(c, j, l)
      BY PrecedesExcludes
    <3>2. SizeAt(c, l) \in Nat
      BY Sizes
    <3>3. ASSUME SizeAt(c, l) <= m PROVE FALSE
      <4>1. AgreeTo(c, l, j, SizeAt(c, l))
        BY <1>2, <1>3, <3>2, <3>3, AgreeShorter, AgreeIsEquivalence
      <4>2. SizeAt(c, j) = SizeAt(c, l)
        BY <4>1, AgreeingSizes
      <4> QED
        BY <1>3, <3>2, <3>3, <4>2
    <3>4. k \in 0 .. SizeAt(c, l) - 1
      BY <1>3, <1>7, <3>2, <3>3
    <3> QED
      BY <3>4, ByteIsInteger
  <2>3. c[i + k] < c[l + k]
    BY <1>1, <1>2, <1>4, <1>7, <2>2
  <2> QED
    BY <2>1, <2>3 DEF Precedes
<1> QED
  BY <1>3, <1>5, <1>6, <1>7


LEMMA CodeIsCode ==
  ASSUME file \in DOMAIN Files
  PROVE  IsCode(Code) /\ IsFiniteSet(Offsets(Code))
BY FilesAssumption DEF IsCode, Code, Offsets

LEMMA LedIsReached ==
  ASSUME file \in DOMAIN Files, Entries(file) \subseteq Offsets(Code)
  PROVE  \A i : i \in Reached <=> Explore!Leads(file, i)
<1> DEFINE O == Offsets(Code)
           E == Entries(file)
<1>1. IsCode(Code) /\ IsFiniteSet(O)
  BY CodeIsCode
<1>2. Reached = LeastShut(Code, E)
  BY <1>1, ReachedIsLeast DEF Reached
<1>3. \A i : Succ(file, i) \subseteq O
  BY <1>1, FlowStaysInside DEF Succ, Code
<1>4. \A i : Succ(file, i) = ControlFlow(Code, i)
  BY DEF Succ, Code
<1>5. ASSUME NEW i, i \in Reached PROVE Explore!Leads(file, i)
  <2>1. i \in LeastShut(Code, E)
    BY <1>2, <1>5
  <2> SUFFICES ASSUME NEW S, Explore!Closed(file, S) PROVE i \in S
    BY DEF Explore!Leads
  <2> DEFINE T == S \cap O
  <2>2. T \in SUBSET O /\ E \subseteq T
    BY DEF Explore!Closed
  <2>3. Shut(Code, T)
    BY <1>3, <1>4 DEF Shut, Explore!Closed
  <2>4. i \in T
    BY <2>1, <2>2, <2>3 DEF LeastShut
  <2> QED
    BY <2>4
<1>6. ASSUME NEW i, Explore!Leads(file, i) PROVE i \in Reached
  <2>1. Explore!Closed(file, O)
    BY <1>3 DEF Explore!Closed
  <2>2. i \in O
    BY <1>6, <2>1 DEF Explore!Leads
  <2>3. ASSUME NEW T \in SUBSET O, E \subseteq T, Shut(Code, T) PROVE i \in T
    <3>1. Explore!Closed(file, T)
      BY <1>4, <2>3 DEF Explore!Closed, Shut
    <3> QED
      BY <1>6, <3>1 DEF Explore!Leads
  <2>4. i \in LeastShut(Code, E)
    BY <2>2, <2>3 DEF LeastShut
  <2> QED
    BY <1>2, <2>4
<1> QED
  BY <1>5, <1>6

MarkedNow == phase \in {"count", "sort", "print"} => visited = Reached

LEMMA MarkedIsReached ==
  ASSUME MarkInv, Marked
  PROVE  MarkedNow
<1> SUFFICES ASSUME phase \in {"count", "sort", "print"} PROVE visited = Reached
  BY DEF MarkedNow
<1>1. /\ taken = Len(Pubs) /\ file \in DOMAIN Files /\ visited \subseteq Offsets(Code)
      /\ \A k \in 1 .. taken : Pubs[k] \in visited
  BY DEF MarkInv, MarkTyped, Ends
<1>2. Entries(file) = {Pubs[k] : k \in 1 .. Len(Pubs)}
  BY <1>1, FileFacts, WaitingIs DEF Entries, Pubs
<1>3. Entries(file) \subseteq Offsets(Code)
  BY <1>1, <1>2
<1> QED
  BY <1>1, <1>3, LedIsReached DEF Marked

(* When counting starts, the instructions that will be counted are those     *)
(* that the public symbols lead to, as ReachedFrom computes them.           *)
THEOREM MarkedIsReachableHolds == Spec /\ Aligned => []MarkedIsReachable
<1>1. MarkInv /\ Marked => MarkedIsReachable
  BY MarkedIsReached DEF MarkedNow, MarkedIsReachable
<1> QED
  BY <1>1, MarkHolds, MarkingExact, PTL

-----------------------------------------------------------------------------
LEMMA EmptyFirst ==
  ASSUME NEW D, NEW n \in Nat, NEW f \in [1 .. n -> D]
  PROVE  <<>> \o f = f
<1>1. ASSUME NEW x, x \in [1 .. n -> D] PROVE x \in Seq(D)
  BY <1>1
<1> QED
  BY <1>1, ConcatEmptySeq

(* What std::sort makes of s.                                               *)
Strict(R, S) ==
  /\ \A x, y \in S : <<x, y>> \in R => <<y, x>> \notin R
  /\ \A x, y, z \in S : <<x, y>> \in R => <<x, z>> \in R \/ <<z, y>> \in R

Sorted(s, t, R) ==
  /\ Rearranged(s, t)
  /\ \A j, k \in 1 .. Len(t) : j < k => <<t[k], t[j]>> \notin R

AheadOf(s, R, i) == {j \in DOMAIN s : <<s[j], s[i]>> \in R \/ (<<s[i], s[j]>> \notin R /\ j < i)}
SortOf(s, t, R) ==
  t = <<>> \o ByRank(s, <<>> \o [i \in 1 .. Len(s) |-> Cardinality(AheadOf(s, R, i)) + 1])

LEMMA SortedBy ==
  ASSUME NEW D, NEW s \in Seq(D), NEW R, Strict(R, ToSet(s)), NEW t, SortOf(s, t, R)
  PROVE  t \in Seq(D) /\ Sorted(s, t, R)
<1> DEFINE n == Len(s)
           B == {p \in (1 .. n) \X (1 .. n) : <<s[p[1]], s[p[2]]>> \in R}
<1>1. n \in Nat /\ DOMAIN s = 1 .. n /\ ToSet(s) = {s[k] : k \in 1 .. n}
  BY DEF ToSet
<1>2. \A i, j \in 1 .. n : <<i, j>> \in B <=> <<s[i], s[j]>> \in R
  OBVIOUS
<1> HIDE DEF B, n
<1>3. WeakOrder(B, n)
  <2>1. \A i \in 1 .. n : s[i] \in ToSet(s)
    BY <1>1
  <2> QED
    BY <1>2, <2>1 DEF WeakOrder, Strict
<1>4. ASSUME NEW i \in 1 .. n
      PROVE  AheadOf(s, R, i) = Ahead(Tied(B, n), n, i)
  <2>1. \A j \in 1 .. n : <<j, i>> \in Tied(B, n) <=>
                             <<j, i>> \in B \/ (<<i, j>> \notin B /\ j < i)
    BY DEF Tied
  <2>2. \A j \in 1 .. n : j \in Ahead(Tied(B, n), n, i) <=> j \in AheadOf(s, R, i)
    BY <1>1, <1>2, <2>1 DEF Ahead, AheadOf
  <2>3. \A j : j \in Ahead(Tied(B, n), n, i) \/ j \in AheadOf(s, R, i) => j \in 1 .. n
    BY <1>1 DEF Ahead, AheadOf
  <2> QED
    BY <2>2, <2>3
<1>5. [i \in 1 .. n |-> Cardinality(AheadOf(s, R, i)) + 1] = Ranks(B, n)
  BY <1>4 DEF Ranks
<1>6. <<>> \o Ranks(B, n) = Ranks(B, n)
  BY <1>1, <1>3, RanksAre, EmptyFirst
<1>7. t = <<>> \o ByRank(s, Ranks(B, n))
  BY <1>5, <1>6 DEF SortOf, n
<1>8. ByRank(s, Ranks(B, n)) \in Seq(D) /\ Arranges(s, ByRank(s, Ranks(B, n)), B)
  BY <1>3, ArrangedBy DEF n
<1>9. t \in Seq(D) /\ Arranges(s, t, B)
  BY <1>7, <1>8, ConcatEmptySeq
<1>10. Len(t) = Len(s)
  BY <1>9 DEF Arranges
<1>11. /\ Rearranged(s, t)
       /\ \A j, k \in 1 .. Len(t) : j < k =>
              \E a, b \in 1 .. Len(s) : t[j] = s[a] /\ t[k] = s[b] /\ <<b, a>> \notin B
  <2>1. WeakOrder(B, Len(s))
    BY <1>3 DEF n
  <2> QED
    BY <2>1, <1>9, ArrangedFacts
<1>12. ASSUME NEW j \in 1 .. Len(t), NEW k \in 1 .. Len(t), j < k PROVE <<t[k], t[j]>> \notin R
  <2>1. PICK a, b \in 1 .. Len(s) : t[j] = s[a] /\ t[k] = s[b] /\ <<b, a>> \notin B
    BY <1>11, <1>12
  <2> QED
    BY <1>2, <2>1 DEF n
<1> QED
  BY <1>9, <1>10, <1>11, <1>12 DEF Sorted

(* The three orders.                                                        *)
InstrOrder == {p \in Offsets(Code) \X Offsets(Code) : InstrBefore(p[1], p[2])}
PairOrder  == {p \in Offsets(Code) \X Offsets(Code) : PairBefore(p[1], p[2])}
RowOrder   == {p \in (Offsets(Code) \X (Nat \ {0})) \X (Offsets(Code) \X (Nat \ {0})) :
                 MoreOften(p[1], p[2])}

LEMMA SortsInstr ==
  ASSUME NEW s \in Seq(Offsets(Code)), NEW t, t \in Sortings(s, InstrBefore)
  PROVE  SortOf(s, t, InstrOrder)
<1>1. \A i, j \in DOMAIN s : InstrBefore(s[i], s[j]) <=> <<s[i], s[j]>> \in InstrOrder
  BY DEF InstrOrder
<1> DEFINE A(i) == {j \in DOMAIN s : InstrBefore(s[j], s[i]) \/ (~ InstrBefore(s[i], s[j]) /\ j < i)}
<1>2. \A i \in DOMAIN s : A(i) = AheadOf(s, InstrOrder, i)
  <2> SUFFICES ASSUME NEW i \in DOMAIN s, NEW j \in DOMAIN s
               PROVE  j \in A(i) <=> j \in AheadOf(s, InstrOrder, i)
    BY DEF AheadOf
  <2> QED
    BY <1>1 DEF AheadOf
<1>3. \E place \in {<<>> \o [i \in 1 .. Len(s) |-> Cardinality(A(i)) + 1]} :
        t = <<>> \o [k \in 1 .. Len(s) |-> s[CHOOSE i \in DOMAIN s : place[i] = k]]
  BY DEF Sortings
<1>4. DOMAIN s = 1 .. Len(s)
  OBVIOUS
<1> HIDE DEF A
<1>5. [i \in 1 .. Len(s) |-> Cardinality(A(i)) + 1]
      = [i \in 1 .. Len(s) |-> Cardinality(AheadOf(s, InstrOrder, i)) + 1]
  BY <1>2, <1>4
<1>6. t = <<>> \o ByRank(s, <<>> \o [i \in 1 .. Len(s) |-> Cardinality(A(i)) + 1])
  <2> DEFINE rank == <<>> \o [i \in 1 .. Len(s) |-> Cardinality(A(i)) + 1]
  <2>1. \E place \in {rank} :
          t = <<>> \o [k \in 1 .. Len(s) |-> s[CHOOSE i \in DOMAIN s : place[i] = k]]
    BY <1>3
  <2> HIDE DEF rank
  <2>2. PICK place \in {rank} :
          t = <<>> \o [k \in 1 .. Len(s) |-> s[CHOOSE i \in DOMAIN s : place[i] = k]]
    BY <2>1
  <2>3. t = <<>> \o ByRank(s, place) /\ place = rank
    BY <2>2 DEF ByRank
  <2> QED
    BY <2>3 DEF rank
<1> QED
  BY <1>5, <1>6 DEF SortOf

LEMMA SortsPairs ==
  ASSUME NEW s \in Seq(Offsets(Code)), NEW t, t \in Sortings(s, PairBefore)
  PROVE  SortOf(s, t, PairOrder)
<1>1. \A i, j \in DOMAIN s : PairBefore(s[i], s[j]) <=> <<s[i], s[j]>> \in PairOrder
  BY DEF PairOrder
<1> DEFINE A(i) == {j \in DOMAIN s : PairBefore(s[j], s[i]) \/ (~ PairBefore(s[i], s[j]) /\ j < i)}
<1>2. \A i \in DOMAIN s : A(i) = AheadOf(s, PairOrder, i)
  <2> SUFFICES ASSUME NEW i \in DOMAIN s, NEW j \in DOMAIN s
               PROVE  j \in A(i) <=> j \in AheadOf(s, PairOrder, i)
    BY DEF AheadOf
  <2> QED
    BY <1>1 DEF AheadOf
<1>3. \E place \in {<<>> \o [i \in 1 .. Len(s) |-> Cardinality(A(i)) + 1]} :
        t = <<>> \o [k \in 1 .. Len(s) |-> s[CHOOSE i \in DOMAIN s : place[i] = k]]
  BY DEF Sortings
<1>4. DOMAIN s = 1 .. Len(s)
  OBVIOUS
<1> HIDE DEF A
<1>5. [i \in 1 .. Len(s) |-> Cardinality(A(i)) + 1]
      = [i \in 1 .. Len(s) |-> Cardinality(AheadOf(s, PairOrder, i)) + 1]
  BY <1>2, <1>4
<1>6. t = <<>> \o ByRank(s, <<>> \o [i \in 1 .. Len(s) |-> Cardinality(A(i)) + 1])
  <2> DEFINE rank == <<>> \o [i \in 1 .. Len(s) |-> Cardinality(A(i)) + 1]
  <2>1. \E place \in {rank} :
          t = <<>> \o [k \in 1 .. Len(s) |-> s[CHOOSE i \in DOMAIN s : place[i] = k]]
    BY <1>3
  <2> HIDE DEF rank
  <2>2. PICK place \in {rank} :
          t = <<>> \o [k \in 1 .. Len(s) |-> s[CHOOSE i \in DOMAIN s : place[i] = k]]
    BY <2>1
  <2>3. t = <<>> \o ByRank(s, place) /\ place = rank
    BY <2>2 DEF ByRank
  <2> QED
    BY <2>3 DEF rank
<1> QED
  BY <1>5, <1>6 DEF SortOf

LEMMA SortsRows ==
  ASSUME NEW s \in Counting(Offsets(Code)), NEW t, t \in Sortings(s, MoreOften)
  PROVE  SortOf(s, t, RowOrder)
<1>1. \A i, j \in DOMAIN s : MoreOften(s[i], s[j]) <=> <<s[i], s[j]>> \in RowOrder
  BY DEF RowOrder, Counting
<1> DEFINE A(i) == {j \in DOMAIN s : MoreOften(s[j], s[i]) \/ (~ MoreOften(s[i], s[j]) /\ j < i)}
<1>2. \A i \in DOMAIN s : A(i) = AheadOf(s, RowOrder, i)
  <2> SUFFICES ASSUME NEW i \in DOMAIN s, NEW j \in DOMAIN s
               PROVE  j \in A(i) <=> j \in AheadOf(s, RowOrder, i)
    BY DEF AheadOf
  <2> QED
    BY <1>1 DEF AheadOf
<1>3. \E place \in {<<>> \o [i \in 1 .. Len(s) |-> Cardinality(A(i)) + 1]} :
        t = <<>> \o [k \in 1 .. Len(s) |-> s[CHOOSE i \in DOMAIN s : place[i] = k]]
  BY DEF Sortings
<1>4. DOMAIN s = 1 .. Len(s)
  BY DEF Counting
<1> HIDE DEF A
<1>5. [i \in 1 .. Len(s) |-> Cardinality(A(i)) + 1]
      = [i \in 1 .. Len(s) |-> Cardinality(AheadOf(s, RowOrder, i)) + 1]
  BY <1>2, <1>4
<1>6. t = <<>> \o ByRank(s, <<>> \o [i \in 1 .. Len(s) |-> Cardinality(A(i)) + 1])
  <2> DEFINE rank == <<>> \o [i \in 1 .. Len(s) |-> Cardinality(A(i)) + 1]
  <2>1. \E place \in {rank} :
          t = <<>> \o [k \in 1 .. Len(s) |-> s[CHOOSE i \in DOMAIN s : place[i] = k]]
    BY <1>3
  <2> HIDE DEF rank
  <2>2. PICK place \in {rank} :
          t = <<>> \o [k \in 1 .. Len(s) |-> s[CHOOSE i \in DOMAIN s : place[i] = k]]
    BY <2>1
  <2>3. t = <<>> \o ByRank(s, place) /\ place = rank
    BY <2>2 DEF ByRank
  <2> QED
    BY <2>3 DEF rank
<1> QED
  BY <1>5, <1>6 DEF SortOf

AddRow(size, s, rows, k) ==
  IF k > 1 /\ (IF size = 1 THEN InstrSame(s[k - 1], s[k]) ELSE PairSame(s[k - 1], s[k]))
    THEN [rows EXCEPT ![Len(rows)][2] = @ + 1]
    ELSE Append(rows, <<s[k], 1>>)

Index(s) == [k \in 1 .. Len(s) |-> k]
RowIter(size, s) ==
  CHOOSE it : it = [S \in SUBSET (DOMAIN Index(s)) |->
                      IF S = {} THEN <<>>
                      ELSE AddRow(size, s, it[S \ {Max(S)}], Index(s)[Max(S)])]

LEMMA RowsIter ==
  ASSUME NEW s, NEW size
  PROVE  Rows(size, s) = RowIter(size, s)[DOMAIN Index(s)]
BY DEF Rows, FoldLeft, MapThenFoldSet, RowIter, AddRow, Index

LEMMA RowsAre ==
  ASSUME NEW size \in {1, 2}, NEW D, NEW s \in Seq(D), NEW Q, Alike(Q, Len(s)),
         \A i, j \in 1 .. Len(s) :
           <<i, j>> \in Q <=> IF size = 1 THEN InstrSame(s[i], s[j]) ELSE PairSame(s[i], s[j])
  PROVE  /\ Rows(size, s) \in Counting(D)
         /\ \E of : Counts(s, Q, Len(s), Rows(size, s), of)
<1> DEFINE n == Len(s)
           g == [p \in Counting(D) \X (1 .. n) |-> AddTo(s, Q, p[1], p[2])]
<1>1. n \in Nat /\ DOMAIN Index(s) = 1 .. n /\ \A k \in 1 .. n : Index(s)[k] = k
  BY DEF Index
<1>2. ASSUME NEW rows \in Counting(D), NEW k \in 1 .. n
      PROVE  AddTo(s, Q, rows, k) = AddRow(size, s, rows, k) /\ AddTo(s, Q, rows, k) \in Counting(D)
  <2>1. k > 1 => k - 1 \in 1 .. n
    BY <1>1
  <2>2. AddTo(s, Q, rows, k) = AddRow(size, s, rows, k)
    BY <2>1 DEF AddTo, AddRow
  <2> SUFFICES AddTo(s, Q, rows, k) \in Counting(D)
    BY <2>2
  <2>3. CASE k > 1 /\ <<k - 1, k>> \in Q
    <3>1. CASE rows = <<>>
      <4>1. [rows EXCEPT ![Len(rows)][2] = @ + 1] = <<>>
        BY <3>1
      <4>2. <<>> \in Counting(D)
        BY EmptySeq DEF Counting
      <4> QED
        BY <2>3, <4>1, <4>2 DEF AddTo
    <3>2. CASE rows # <<>>
      <4> DEFINE m == Len(rows)
                 v == [rows[m] EXCEPT ![2] = @ + 1]
      <4>1. m \in 1 .. m /\ rows[m] \in D \X (Nat \ {0})
        BY <3>2 DEF Counting
      <4>2. v \in D \X (Nat \ {0})
        BY <4>1
      <4>3. AddTo(s, Q, rows, k) = [rows EXCEPT ![m] = v]
        BY <2>3 DEF AddTo
      <4> HIDE DEF v
      <4> QED
        BY <4>1, <4>2, <4>3, ExceptSeq DEF Counting
    <3> QED
      BY <3>1, <3>2
  <2>4. CASE ~ (k > 1 /\ <<k - 1, k>> \in Q)
    <3>1. s[k] \in D
      OBVIOUS
    <3>2. <<s[k], 1>> \in D \X (Nat \ {0})
      BY <3>1
    <3>3. AddTo(s, Q, rows, k) = Append(rows, <<s[k], 1>>)
      BY <2>4 DEF AddTo
    <3> QED
      BY <3>2, <3>3, AppendProperties DEF Counting
  <2> QED
    BY <2>3, <2>4
<1>3. g \in [Counting(D) \X (1 .. n) -> Counting(D)]
  BY <1>2
<1>4. \A rows \in Counting(D), k \in 1 .. n : g[<<rows, k>>] = AddTo(s, Q, rows, k)
  OBVIOUS
<1> HIDE DEF g
<1>5. <<>> \in Counting(D)
  BY EmptySeq DEF Counting
<1>6. PICK it0 \in [SUBSET (1 .. n) -> Counting(D)] : Folds(it0, <<>>, g, n)
  BY <1>1, <1>3, <1>5, FoldExists
<1> DEFINE F(it) == [S \in SUBSET (DOMAIN Index(s)) |->
                      IF S = {} THEN <<>>
                      ELSE AddRow(size, s, it[S \ {Max(S)}], Index(s)[Max(S)])]
<1>7. it0 = F(it0)
  <2>1. ASSUME NEW S \in SUBSET (1 .. n), S # {}
        PROVE  it0[S] = AddRow(size, s, it0[S \ {Max(S)}], Index(s)[Max(S)])
    <3>1. Max(S) \in S
      BY <1>1, <2>1, MaxIsMember
    <3>2. Max(S) \in 1 .. n /\ S \ {Max(S)} \in SUBSET (1 .. n)
      BY <3>1
    <3>3. it0[S \ {Max(S)}] \in Counting(D)
      BY <3>2
    <3>4. it0[S] = g[<<it0[S \ {Max(S)}], Max(S)>>]
      BY <1>6, <2>1 DEF Folds
    <3> QED
      BY <1>1, <1>2, <1>4, <3>2, <3>3, <3>4
  <2>2. it0[{}] = <<>> /\ {} \in SUBSET (1 .. n)
    BY <1>6 DEF Folds
  <2> QED
    BY <1>1, <2>1, <2>2
<1> DEFINE it == RowIter(size, s)
<1>8. it = F(it)
  BY <1>7 DEF RowIter
<1> HIDE DEF it
<1>8a. \A S \in SUBSET (1 .. n) :
         it[S] = IF S = {} THEN <<>> ELSE AddRow(size, s, it[S \ {Max(S)}], Index(s)[Max(S)])
  BY <1>1, <1>8
<1> HIDE DEF F
<1>9. it[1 .. 0] = <<>>
  <2>1. 1 .. 0 = {} /\ {} \in SUBSET (1 .. n)
    OBVIOUS
  <2> QED
    BY <1>8a, <2>1
<1>10. ASSUME NEW k \in 0 .. n - 1
       PROVE  it[1 .. k + 1] = AddRow(size, s, it[1 .. k], k + 1)
  <2>1. 1 .. k + 1 \in SUBSET (1 .. n) /\ k + 1 \in 1 .. k + 1 /\ k \in Nat /\ k + 1 \in 1 .. n
    BY <1>1
  <2>2. Max(1 .. k + 1) = k + 1
    BY <2>1, LastIsMax
  <2>3. (1 .. k + 1) \ {k + 1} = 1 .. k
    OBVIOUS
  <2>4. 1 .. k + 1 # {}
    BY <2>1
  <2>5. it[1 .. k + 1] = AddRow(size, s, it[(1 .. k + 1) \ {k + 1}], Index(s)[k + 1])
    BY <1>8a, <2>1, <2>2, <2>4
  <2> QED
    BY <1>1, <2>1, <2>3, <2>5
<1>11. ASSUME NEW k \in 0 .. n - 1
       PROVE  it[1 .. k + 1] = AddTo(s, Q, it[1 .. k], k + 1)
  <2>1. k + 1 > 1 => (k + 1) - 1 \in 1 .. n /\ k + 1 \in 1 .. n
    BY <1>1
  <2>2. AddTo(s, Q, it[1 .. k], k + 1) = AddRow(size, s, it[1 .. k], k + 1)
    BY <2>1 DEF AddTo, AddRow
  <2> QED
    BY <1>10, <2>2
<1>12. /\ it[1 .. n] \in Counting(D)
       /\ \E of : Counts(s, Q, n, it[1 .. n], of)
  BY <1>9, <1>11, RowsCount
<1>13. Rows(size, s) = it[1 .. n]
  BY <1>1, RowsIter DEF it
<1> QED
  BY <1>12, <1>13

-----------------------------------------------------------------------------
(* The comparators are what std::sort requires, over instructions that lie   *)
(* whole in the code, and equal contents are what neither puts first.       *)
Comparable(S) ==
  /\ \A i, j \in S : Precedes(Code, i, j) => ~ Precedes(Code, j, i)
  /\ \A i, j \in S : Same(Code, i, j) <=> ~ Precedes(Code, i, j) /\ ~ Precedes(Code, j, i)
  /\ \A i, j, k \in S : Precedes(Code, i, j) => Precedes(Code, i, k) \/ Precedes(Code, k, j)

LEMMA InstructionsCompare ==
  ASSUME file \in DOMAIN Files, NEW S, \A i \in S : Instruction(Code, i)
  PROVE  Comparable(S)
<1>1. IsCode(Code)
  BY CodeIsCode
<1>2. \A i, j \in S : Precedes(Code, i, j) => ~ Same(Code, i, j) /\ ~ Precedes(Code, j, i)
  BY <1>1, PrecedesExcludes
<1>3. \A i, j \in S : ~ Same(Code, i, j) => Precedes(Code, i, j) \/ Precedes(Code, j, i)
  BY <1>1, PrecedesOrSame
<1>4. \A i, j, k \in S : Precedes(Code, i, j) /\ Precedes(Code, j, k) => Precedes(Code, i, k)
  BY <1>1, PrecedesIsTransitive
<1>5. \A i, j, k \in S : /\ Same(Code, i, j) => Same(Code, j, i)
                         /\ Same(Code, i, j) /\ Same(Code, j, k) => Same(Code, i, k)
  BY <1>1, SameIsEquivalence
<1>6. \A i, j \in S : Same(Code, i, j) <=> ~ Precedes(Code, i, j) /\ ~ Precedes(Code, j, i)
  BY <1>2, <1>3, <1>5
<1>7. ASSUME NEW i \in S, NEW j \in S, NEW k \in S, Precedes(Code, i, j)
      PROVE  Precedes(Code, i, k) \/ Precedes(Code, k, j)
  <2> SUFFICES ASSUME ~ Precedes(Code, i, k), ~ Precedes(Code, k, j) PROVE FALSE
    OBVIOUS
  <2>1. ~ Precedes(Code, k, i)
    BY <1>4, <1>7
  <2>2. ~ Precedes(Code, j, k)
    BY <1>4, <1>7
  <2>3. Same(Code, i, k) /\ Same(Code, k, j)
    BY <1>6, <2>1, <2>2
  <2>4. Same(Code, i, j)
    BY <1>5, <2>3
  <2> QED
    BY <1>2, <1>7, <2>4
<1> QED
  BY <1>2, <1>6, <1>7 DEF Comparable

LEMMA InstrStrict ==
  ASSUME file \in DOMAIN Files, NEW S \in SUBSET Offsets(Code), \A i \in S : Instruction(Code, i)
  PROVE  /\ Strict(InstrOrder, S)
         /\ \A i, j \in S : InstrSame(i, j) <=> <<i, j>> \notin InstrOrder /\ <<j, i>> \notin InstrOrder
<1>1. Comparable(S)
  BY InstructionsCompare
<1>2. \A i, j \in S : <<i, j>> \in InstrOrder <=> Precedes(Code, j, i)
  BY DEF InstrOrder, InstrBefore
<1>3. \A i, j \in S : InstrSame(i, j) <=> <<i, j>> \notin InstrOrder /\ <<j, i>> \notin InstrOrder
  BY <1>1, <1>2 DEF InstrSame, Comparable
<1> QED
  BY <1>1, <1>2, <1>3 DEF Strict, Comparable

LEMMA PairStrict ==
  ASSUME file \in DOMAIN Files, NEW S \in SUBSET Offsets(Code),
         \A i \in S : Instruction(Code, i) /\ Instruction(Code, get_next(Code, i))
  PROVE  /\ Strict(PairOrder, S)
         /\ \A i, j \in S : PairSame(i, j) <=> <<i, j>> \notin PairOrder /\ <<j, i>> \notin PairOrder
<1> DEFINE N(i) == get_next(Code, i)
           P(i, j) == Precedes(Code, i, j)
           E(i, j) == Same(Code, i, j)
           T == {N(i) : i \in S}
<1>1. Comparable(S) /\ Comparable(T)
  BY InstructionsCompare
<1>2. /\ \A i, j \in S : P(i, j) => ~ P(j, i)
      /\ \A i, j \in S : E(i, j) <=> ~ P(i, j) /\ ~ P(j, i)
      /\ \A i, j, k \in S : P(i, j) => P(i, k) \/ P(k, j)
  BY <1>1 DEF Comparable
<1>3. /\ \A i, j \in T : P(i, j) => ~ P(j, i)
      /\ \A i, j \in T : E(i, j) <=> ~ P(i, j) /\ ~ P(j, i)
      /\ \A i, j, k \in T : P(i, j) => P(i, k) \/ P(k, j)
  BY <1>1 DEF Comparable
<1>4. \A i \in S : N(i) \in T
  OBVIOUS
<1>5. \A i, j \in S : <<i, j>> \in PairOrder <=> P(j, i) \/ (E(j, i) /\ P(N(j), N(i)))
  BY DEF PairOrder, PairBefore, InstrBefore, InstrSame
<1>6. \A i, j \in S : PairSame(i, j) <=> E(i, j) /\ E(N(i), N(j))
  BY DEF PairSame, InstrSame
<1> HIDE DEF N, P, E, T
<1>7. ASSUME NEW i \in S, NEW j \in S
      PROVE  PairSame(i, j) <=> <<i, j>> \notin PairOrder /\ <<j, i>> \notin PairOrder
  BY <1>2, <1>3, <1>4, <1>5, <1>6
<1>8. ASSUME NEW i \in S, NEW j \in S, <<i, j>> \in PairOrder
      PROVE  <<j, i>> \notin PairOrder
  BY <1>2, <1>3, <1>4, <1>5, <1>8
<1>9. ASSUME NEW i \in S, NEW j \in S, NEW k \in S, <<i, j>> \in PairOrder
      PROVE  <<i, k>> \in PairOrder \/ <<k, j>> \in PairOrder
  <2>1. CASE P(j, i)
    BY <1>2, <1>3, <1>4, <1>5, <2>1
  <2>2. CASE E(j, i) /\ P(N(j), N(i))
    <3>1. P(N(j), N(k)) \/ P(N(k), N(i))
      BY <1>3, <1>4, <2>2
    <3>2. P(j, k) \/ P(k, i) \/ (E(j, k) /\ E(k, i))
      BY <1>2, <2>2
    <3> QED
      BY <1>5, <3>1, <3>2
  <2> QED
    BY <1>5, <1>9, <2>1, <2>2
<1> QED
  BY <1>7, <1>8, <1>9 DEF Strict

LEMMA RowStrict ==
  ASSUME NEW S \in SUBSET (Offsets(Code) \X (Nat \ {0}))
  PROVE  Strict(RowOrder, S)
<1>1. \A r, s \in S : <<r, s>> \in RowOrder <=> r[2] > s[2]
  BY DEF RowOrder, MoreOften
<1>2. \A r \in S : r[2] \in Nat
  OBVIOUS
<1> QED
  BY <1>1, <1>2 DEF Strict

(* What sort_occurencies makes of a list: rows that count it, in order.      *)
Ranked(rows, u) ==
  /\ u \in Counting(Offsets(Code)) /\ rows \in Counting(Offsets(Code))
  /\ Rearranged(rows, u)
  /\ \A j, k \in 1 .. Len(u) : j < k => u[j][2] >= u[k][2]

LEMMA RowsRank ==
  ASSUME NEW rows \in Counting(Offsets(Code)), NEW u, u \in Sortings(rows, MoreOften)
  PROVE  Ranked(rows, u)
<1> DEFINE D == Offsets(Code) \X (Nat \ {0})
<1>1. SortOf(rows, u, RowOrder)
  BY SortsRows
<1>2. rows \in Seq(D)
  BY DEF Counting
<1>3. ToSet(rows) \in SUBSET D
  BY <1>2, WaitingIs
<1> HIDE DEF D
<1>4. Strict(RowOrder, ToSet(rows))
  BY <1>3, RowStrict DEF D
<1>5. u \in Seq(D) /\ Sorted(rows, u, RowOrder)
  BY <1>1, <1>2, <1>4, SortedBy
<1>6. ASSUME NEW j \in 1 .. Len(u), NEW k \in 1 .. Len(u), j < k PROVE u[j][2] >= u[k][2]
  <2>1. <<u[k], u[j]>> \notin RowOrder
    BY <1>5, <1>6 DEF Sorted
  <2>2. u[j] \in D /\ u[k] \in D
    BY <1>5
  <2>3. u[j][2] \in Nat /\ u[k][2] \in Nat
    BY <2>2 DEF D
  <2>4. ~ (u[k][2] > u[j][2])
    BY <2>1, <2>2 DEF RowOrder, MoreOften, D
  <2> QED
    BY <2>3, <2>4
<1> QED
  BY <1>5, <1>6 DEF Ranked, Sorted, Counting, D

(* A list, sorted and counted.                                              *)
Alikes(size, s) ==
  {p \in (1 .. Len(s)) \X (1 .. Len(s)) :
     IF size = 1 THEN InstrSame(s[p[1]], s[p[2]]) ELSE PairSame(s[p[1]], s[p[2]])}
Grouped(size, s, rows) ==
  /\ rows \in Counting(Offsets(Code))
  /\ \E of : Counts(s, Alikes(size, s), Len(s), rows, of)

LEMMA SortedAlike ==
  ASSUME NEW size \in {1, 2}, NEW t \in Seq(Offsets(Code)), NEW R, Strict(R, ToSet(t)),
         \A j, k \in 1 .. Len(t) : j < k => <<t[k], t[j]>> \notin R,
         \A x, y \in ToSet(t) :
           (IF size = 1 THEN InstrSame(x, y) ELSE PairSame(x, y)) <=>
           <<x, y>> \notin R /\ <<y, x>> \notin R
  PROVE  Grouped(size, t, Rows(size, t))
<1> DEFINE n == Len(t)
           B == {p \in (1 .. n) \X (1 .. n) : <<t[p[1]], t[p[2]]>> \in R}
           Q == Alikes(size, t)
<1>1. n \in Nat /\ \A i \in 1 .. n : t[i] \in ToSet(t)
  BY WaitingIs
<1>2. \A i, j \in 1 .. n : <<i, j>> \in B <=> <<t[i], t[j]>> \in R
  OBVIOUS
<1>3. \A i, j \in 1 .. n :
        <<i, j>> \in Q <=> IF size = 1 THEN InstrSame(t[i], t[j]) ELSE PairSame(t[i], t[j])
  BY DEF Alikes
<1> HIDE DEF B, Q
<1>4. WeakOrder(B, n)
  BY <1>1, <1>2 DEF WeakOrder, Strict
<1>5. \A i, j \in 1 .. n : <<i, j>> \in Q <=> <<i, j>> \notin B /\ <<j, i>> \notin B
  BY <1>1, <1>2, <1>3
<1>6. \A j, k \in 1 .. n : j < k => <<k, j>> \notin B
  BY <1>2
<1>7. Alike(Q, n)
  BY <1>1, <1>4, <1>5, <1>6, InOrderAlike
<1>8. /\ Rows(size, t) \in Counting(Offsets(Code))
      /\ \E of : Counts(t, Q, n, Rows(size, t), of)
  BY <1>3, <1>7, RowsAre
<1> QED
  BY <1>8 DEF Grouped, Q

(* What sort_occurencies is given: instructions, and pairs of them.          *)
Sortable == /\ file \in DOMAIN Files
            /\ occurencies \in Seq(Offsets(Code)) /\ double_occurencies \in Seq(Offsets(Code))
            /\ \A i \in ToSet(occurencies) : Instruction(Code, i)
            /\ \A i \in ToSet(double_occurencies) :
                 Instruction(Code, i) /\ Instruction(Code, get_next(Code, i))

LEMMA SortMakes ==
  ASSUME Sortable, Sort, ~ Stop("wild")
  PROVE  /\ phase' = "print" /\ UNCHANGED <<marking, at, prev, printed>>
         /\ occurencies' \in Seq(Offsets(Code)) /\ Rearranged(occurencies, occurencies')
         /\ double_occurencies' \in Seq(Offsets(Code))
         /\ Rearranged(double_occurencies, double_occurencies')
         /\ \E rows : Grouped(1, occurencies', rows) /\ Ranked(rows, occurencies_u')
         /\ \E rows : Ranked(rows, double_occurencies_u')
<1>1. /\ occurencies' \in Sortings(occurencies, InstrBefore)
      /\ double_occurencies' \in Sortings(double_occurencies, PairBefore)
      /\ \E rows \in {Rows(1, occurencies')} : occurencies_u' \in Sortings(rows, MoreOften)
      /\ \E rows \in {Rows(2, double_occurencies')} :
           double_occurencies_u' \in Sortings(rows, MoreOften)
      /\ phase' = "print" /\ UNCHANGED <<marking, at, prev, printed>>
  BY DEF Sort
<1> DEFINE s1 == occurencies
           t1 == occurencies'
           s2 == double_occurencies
           t2 == double_occurencies'
           O  == Offsets(Code)
<1>2. s1 \in Seq(O) /\ s2 \in Seq(O) /\ ToSet(s1) \in SUBSET O /\ ToSet(s2) \in SUBSET O
  BY WaitingIs DEF Sortable
<1>3. /\ Strict(InstrOrder, ToSet(s1))
      /\ \A i, j \in ToSet(s1) :
           InstrSame(i, j) <=> <<i, j>> \notin InstrOrder /\ <<j, i>> \notin InstrOrder
  BY <1>2, InstrStrict DEF Sortable
<1>4. /\ Strict(PairOrder, ToSet(s2))
      /\ \A i, j \in ToSet(s2) :
           PairSame(i, j) <=> <<i, j>> \notin PairOrder /\ <<j, i>> \notin PairOrder
  BY <1>2, PairStrict DEF Sortable
<1>5. SortOf(s1, t1, InstrOrder)
  BY <1>1, <1>2, SortsInstr
<1>6. SortOf(s2, t2, PairOrder)
  BY <1>1, <1>2, SortsPairs
<1>7. t1 \in Seq(O) /\ Sorted(s1, t1, InstrOrder)
  BY <1>2, <1>3, <1>5, SortedBy
<1>8. t2 \in Seq(O) /\ Sorted(s2, t2, PairOrder)
  BY <1>2, <1>4, <1>6, SortedBy
<1>9. Rearranged(s1, t1) /\ Rearranged(s2, t2) /\ ToSet(t1) = ToSet(s1) /\ ToSet(t2) = ToSet(s2)
  BY <1>7, <1>8 DEF Sorted, Rearranged
<1>10. Grouped(1, t1, Rows(1, t1))
  BY <1>3, <1>7, <1>9, SortedAlike DEF Sorted
<1>11. Grouped(2, t2, Rows(2, t2))
  BY <1>4, <1>8, <1>9, SortedAlike DEF Sorted
<1>12. Ranked(Rows(1, t1), occurencies_u')
  BY <1>1, <1>10, RowsRank DEF Grouped
<1>13. Ranked(Rows(2, t2), double_occurencies_u')
  BY <1>1, <1>11, RowsRank DEF Grouped
<1> QED
  BY <1>1, <1>7, <1>8, <1>9, <1>10, <1>12, <1>13

-----------------------------------------------------------------------------
(***************************************************************************)
(* Counting.  While instructions are listed, prev is marked, is no boundary, *)
(* and is the instruction before the one looked at; that it was followed,   *)
(* and how, is known from marking.  Whatever has arguments and lies in a     *)
(* pair is listed as well, so that sorting knows it to be whole.            *)
(***************************************************************************)

(* No closure that is reached is followed by a negative number of captures,  *)
(* which the code would take for a size near 2^64.                          *)
CapturesCounted == \A i \in Reached : Captures(Code, i)

Listed(i) == HasArgs(i) => i \in ToSet(occurencies)
Paired(i) == /\ i \in visited /\ get_next(Code, i) \in visited
             /\ Listed(i) /\ Listed(get_next(Code, i))
             /\ FallsThrough(i)

Sorting == phase \in {"print", "done"}

RankedNow ==
  /\ \A i \in ToSet(occurencies) : Instruction(Code, i)
  /\ \E rows : Grouped(1, occurencies, rows) /\ Ranked(rows, occurencies_u)
  /\ \E rows : Ranked(rows, double_occurencies_u)

ListTyped ==
  /\ at \in MaybeOffset /\ prev \in MaybeOffset
  /\ occurencies \in Seq(Offsets(Code)) /\ double_occurencies \in Seq(Offsets(Code))

ListInv ==
  /\ ListTyped
  /\ phase \in {"seed", "mark"} =>
       prev = Null /\ occurencies = <<>> /\ double_occurencies = <<>>
  /\ ~ Sorting => occurencies_u = <<>> /\ double_occurencies_u = <<>> /\ printed = <<>>
  /\ \A i \in ToSet(occurencies) : i \in visited /\ HasArgs(i)
  /\ \A i \in ToSet(double_occurencies) : Paired(i)
  /\ phase = "count" /\ prev # Null =>
       /\ prev \in visited /\ prev \notin boundary /\ at = get_next(Code, prev)
       /\ Listed(prev)
  /\ Sorting => RankedNow

LEMMA PlainIsWhole ==
  ASSUME file \in DOMAIN Files, NEW i \in Offsets(Code), ~ HasArgs(i)
  PROVE  Instruction(Code, i)
<1>1. ArgsLength(Op(Code, i)) = 0
  BY ArgsLengths DEF HasArgs
<1>2. Op(Code, i) # "CLOSURE"
  BY <1>1, ArgsLengths
<1>3. i + 4 * 0 = i /\ i + 1 - 1 = i
  BY FileFacts
<1> QED
  BY <1>1, <1>2, <1>3 DEF Instruction, Captures, Whole, Complete, SizeAt

(* What the lists say is about the file and what is marked.                  *)
LEMMA SameLists ==
  ASSUME UNCHANGED <<file, visited>>, ToSet(occurencies)' = ToSet(occurencies)
  PROVE  /\ Code' = Code /\ MaybeOffset' = MaybeOffset
         /\ \A i : HasArgs(i)' <=> HasArgs(i)
         /\ \A i : Listed(i)' <=> Listed(i)
         /\ \A i : Paired(i)' <=> Paired(i)
BY SameCode DEF Code, MaybeOffset, HasArgs, Listed, Paired

LEMMA SameRanks ==
  ASSUME RankedNow, UNCHANGED <<file, occurencies, occurencies_u, double_occurencies_u>>
  PROVE  RankedNow'
BY DEF RankedNow, Grouped, Ranked, Alikes, InstrSame, PairSame, Code

(* Before counting, nothing is listed.                                      *)
LEMMA NothingListed ==
  ASSUME ListInv, UNCHANGED <<file, prev, occurencies, double_occurencies, ranking>>,
         phase \in {"seed", "mark"}, ~ Sorting', at' \in MaybeOffset
  PROVE  ListInv'
<1>1. /\ prev = Null /\ occurencies = <<>> /\ double_occurencies = <<>>
      /\ occurencies_u = <<>> /\ double_occurencies_u = <<>> /\ printed = <<>>
      /\ ListTyped
  BY DEF ListInv, Sorting
<1>2. /\ prev' = Null /\ occurencies' = <<>> /\ double_occurencies' = <<>>
      /\ occurencies_u' = <<>> /\ double_occurencies_u' = <<>> /\ printed' = <<>>
  BY <1>1 DEF ranking
<1>3. ToSet(occurencies') = {} /\ ToSet(double_occurencies') = {}
  BY <1>2, NoneWaits
<1>4. ListTyped'
  BY <1>1, SameCode DEF ListTyped
<1> QED
  BY <1>2, <1>3, <1>4 DEF ListInv

(* The lists stay as they are.                                              *)
LEMMA ListsStay ==
  ASSUME ListInv, UNCHANGED <<file, visited, boundary, counting, occurencies_u, double_occurencies_u>>,
         printed' = printed \/ Sorting,
         Sorting' <=> Sorting, phase' \in {"seed", "mark"} => phase \in {"seed", "mark"},
         phase' = "count" => phase = "count"
  PROVE  ListInv'
<1>1. /\ UNCHANGED <<at, prev, occurencies, double_occurencies>>
      /\ ToSet(occurencies)' = ToSet(occurencies)
  BY DEF counting
<1>2. ListTyped'
  BY <1>1, SameCode DEF ListInv, ListTyped
<1>3. Sorting' => RankedNow'
  BY <1>1, SameRanks DEF ListInv
<1>4. /\ phase' \in {"seed", "mark"} =>
            prev' = Null /\ occurencies' = <<>> /\ double_occurencies' = <<>>
      /\ ~ Sorting' => occurencies_u' = <<>> /\ double_occurencies_u' = <<>> /\ printed' = <<>>
  BY <1>1 DEF ListInv
<1>5. /\ \A i \in ToSet(occurencies') : i \in visited' /\ HasArgs(i)'
      /\ \A i \in ToSet(double_occurencies') : Paired(i)'
  BY <1>1, SameLists DEF ListInv
<1>6. phase' = "count" /\ prev' # Null =>
        /\ prev' \in visited' /\ prev' \notin boundary' /\ at' = get_next(Code, prev)'
        /\ Listed(prev)'
  BY <1>1, SameLists DEF ListInv, Listed, Code
<1> QED
  BY <1>2, <1>3, <1>4, <1>5, <1>6 DEF ListInv

LEMMA SkipLists ==
  ASSUME ListInv, SkipByte, UNCHANGED file
  PROVE  ListInv'
<1>1. /\ phase = "count" /\ prev' = Null /\ at' = get_next_inc(Code, at)
      /\ UNCHANGED <<file, phase, visited, boundary, occurencies, double_occurencies,
                     occurencies_u, double_occurencies_u, printed>>
  BY DEF SkipByte, marking, ranking
<1>2. /\ at' \in MaybeOffset /\ prev' \in MaybeOffset
  BY <1>1 DEF get_next_inc, OffsetOrNull, MaybeOffset
<1>3. ~ Sorting /\ ~ Sorting' /\ ToSet(occurencies)' = ToSet(occurencies)
  BY <1>1 DEF Sorting
<1>4. ListTyped'
  BY <1>1, <1>2, SameCode DEF ListInv, ListTyped
<1>5. /\ \A i \in ToSet(occurencies') : i \in visited' /\ HasArgs(i)'
      /\ \A i \in ToSet(double_occurencies') : Paired(i)'
  BY <1>1, <1>3, SameLists DEF ListInv
<1> QED
  BY <1>1, <1>3, <1>4, <1>5 DEF ListInv

LEMMA CountLists ==
  ASSUME ListInv, MarkInv, CountInstruction, UNCHANGED file
  PROVE  ListInv'
<1>1. CASE Stop("wild")
  <2>1. /\ UNCHANGED <<marking, counting, ranking>> /\ phase = "count" /\ phase' = "wild"
    BY <1>1 DEF CountInstruction, Stop
  <2> QED
    BY <2>1, ListsStay DEF marking, ranking, Sorting
<1>2. CASE ~ Stop("wild")
  <2>1. /\ phase = "count" /\ at \in visited /\ phase' = phase
        /\ UNCHANGED <<file, visited, boundary, occurencies_u, double_occurencies_u, printed>>
        /\ occurencies' = IF HasArgs(at) THEN Append(occurencies, at) ELSE occurencies
        /\ \/ double_occurencies' = double_occurencies
           \/ prev # Null /\ double_occurencies' = Append(double_occurencies, prev)
        /\ prev' = (IF at \in boundary THEN Null ELSE at)
        /\ at' = get_next(Code, at)
    BY <1>2 DEF CountInstruction, marking, ranking, BeginsPair
  <2>2. at \in Offsets(Code) /\ at # Null
    BY <2>1, MarkFacts
  <2>3. at' \in MaybeOffset /\ prev' \in MaybeOffset
    BY <2>1, <2>2 DEF get_next, OffsetOrNull, MaybeOffset
  <2>4. /\ occurencies \in Seq(Offsets(Code)) /\ double_occurencies \in Seq(Offsets(Code))
        /\ prev \in MaybeOffset
    BY DEF ListInv, ListTyped
  <2>5. occurencies' \in Seq(Offsets(Code)) /\ double_occurencies' \in Seq(Offsets(Code))
    BY <2>1, <2>2, <2>4 DEF MaybeOffset
  <2>6. ToSet(occurencies') = ToSet(occurencies) \cup (IF HasArgs(at) THEN {at} ELSE {})
    <3>1. CASE HasArgs(at)
      BY <2>1, <2>2, <2>4, <3>1, ToSetAppend
    <3>2. CASE ~ HasArgs(at)
      BY <2>1, <3>2
    <3> QED
      BY <3>1, <3>2
  <2>6a. ASSUME NEW i \in ToSet(double_occurencies')
         PROVE  i \in ToSet(double_occurencies) \/ (prev # Null /\ i = prev)
    <3>1. CASE double_occurencies' = double_occurencies
      BY <2>6a, <3>1
    <3>2. CASE prev # Null /\ double_occurencies' = Append(double_occurencies, prev)
      <4>1. prev \in Offsets(Code)
        BY <2>4, <3>2 DEF MaybeOffset
      <4> QED
        BY <2>4, <2>6a, <3>2, <4>1, ToSetAppend
    <3> QED
      BY <2>1, <3>1, <3>2
  <2>7. Code' = Code /\ (\A i : HasArgs(i)' <=> HasArgs(i)) /\ \A i : FallsThrough(i)' <=> FallsThrough(i)
    BY <2>1, SameCode DEF HasArgs
  <2>8. \A i : Listed(i) => Listed(i)'
    BY <2>6, <2>7 DEF Listed
  <2>9. \A i : i = at => Listed(i)'
    BY <2>6, <2>7 DEF Listed
  <2>10. \A i : Paired(i) => Paired(i)'
    BY <2>1, <2>7, <2>8 DEF Paired
  <2>11. ASSUME NEW i, i = prev, prev # Null PROVE Paired(i)'
    <3>1. i \in visited /\ i \notin boundary /\ at = get_next(Code, i) /\ Listed(i)
      BY <2>1, <2>11 DEF ListInv
    <3>2. Frontier = {}
      BY <2>1, NoneWaits DEF MarkInv, Frontier, Waiting
    <3>3. Explored(i)
      BY <3>1, <3>2 DEF MarkInv
    <3>4. FallsThrough(i)
      BY <2>2, <3>1, <3>3, FallThrough
    <3>5. /\ i \in visited' /\ get_next(Code, i)' \in visited' /\ Listed(i)'
          /\ FallsThrough(i)' /\ get_next(Code, i)' = get_next(Code, i)
      BY <2>1, <2>7, <2>8, <3>1, <3>4
    <3>6. Listed(get_next(Code, i))'
      BY <2>9, <3>1, <3>5
    <3> QED
      BY <3>5, <3>6 DEF Paired
  <2>12. /\ \A i \in ToSet(occurencies') : i \in visited' /\ HasArgs(i)'
         /\ \A i \in ToSet(double_occurencies') : Paired(i)'
    <3>1. \A i \in ToSet(occurencies') : i \in visited' /\ HasArgs(i)'
      BY <2>1, <2>6, <2>7 DEF ListInv
    <3>2. \A i \in ToSet(double_occurencies') : Paired(i)'
      BY <2>6a, <2>10, <2>11 DEF ListInv
    <3> QED
      BY <3>1, <3>2
  <2>13. ListTyped'
    BY <2>3, <2>5, <2>7, <2>1, SameCode DEF ListTyped
  <2>14. prev' # Null => /\ prev' \in visited' /\ prev' \notin boundary'
                         /\ at' = get_next(Code', prev') /\ Listed(prev)'
    <3>1. \A i : i = at => Listed(i)'
      BY <2>9
    <3> SUFFICES ASSUME prev' # Null PROVE prev' = at /\ Listed(prev)'
      BY <2>1, <2>7
    <3>2. prev' = at
      BY <2>1
    <3> QED
      BY <2>6, <2>7, <3>2 DEF Listed
  <2>15. ~ Sorting /\ ~ Sorting' /\ phase' \notin {"seed", "mark"}
    BY <2>1 DEF Sorting
  <2> QED
    BY <2>1, <2>12, <2>13, <2>14, <2>15 DEF ListInv
<1> QED
  BY <1>1, <1>2

(* What is sorted is whole: Sort sees to what has arguments.                 *)
LEMMA ListsSortable ==
  ASSUME ListInv, MarkInv, MarkedNow, CapturesCounted, Sort, ~ Stop("wild")
  PROVE  Sortable
<1>1. phase = "sort" /\ \A i \in ToSet(occurencies) : Whole(Code, i)
  BY DEF Sort
<1>2. file \in DOMAIN Files /\ visited \subseteq Offsets(Code) /\ visited = Reached
  BY <1>1, MarkFacts DEF MarkedNow
<1>3. \A i \in ToSet(occurencies) : Instruction(Code, i)
  BY <1>1, <1>2 DEF ListInv, Instruction, CapturesCounted
<1>4. ASSUME NEW i \in visited, Listed(i) PROVE Instruction(Code, i)
  BY <1>2, <1>3, <1>4, PlainIsWhole DEF Listed
<1>5. \A i \in ToSet(double_occurencies) :
        Instruction(Code, i) /\ Instruction(Code, get_next(Code, i))
  BY <1>4 DEF ListInv, Paired
<1> QED
  BY <1>2, <1>3, <1>5 DEF Sortable, ListInv, ListTyped

LEMMA SortLists ==
  ASSUME ListInv, MarkInv, MarkedNow, CapturesCounted, Sort, UNCHANGED file
  PROVE  ListInv'
<1>1. CASE Stop("wild")
  <2>1. /\ UNCHANGED <<marking, counting, ranking>> /\ phase = "sort" /\ phase' = "wild"
    BY <1>1 DEF Sort, Stop
  <2> QED
    BY <2>1, ListsStay DEF marking, ranking, Sorting
<1>2. CASE ~ Stop("wild")
  <2>1. Sortable /\ phase = "sort"
    BY <1>2, ListsSortable DEF Sort
  <2>2. /\ phase' = "print" /\ UNCHANGED <<marking, at, prev, printed>>
        /\ occurencies' \in Seq(Offsets(Code)) /\ Rearranged(occurencies, occurencies')
        /\ double_occurencies' \in Seq(Offsets(Code))
        /\ Rearranged(double_occurencies, double_occurencies')
        /\ \E rows : Grouped(1, occurencies', rows) /\ Ranked(rows, occurencies_u')
        /\ \E rows : Ranked(rows, double_occurencies_u')
    BY <1>2, <2>1, SortMakes
  <2>3. /\ ToSet(occurencies)' = ToSet(occurencies)
        /\ ToSet(double_occurencies)' = ToSet(double_occurencies)
        /\ UNCHANGED <<visited, at, prev>>
    BY <2>2 DEF Rearranged, marking
  <2>4. RankedNow'
    <3>1. \A i \in ToSet(occurencies') : Instruction(Code', i)
      BY <2>1, <2>3, SameCode DEF Sortable
    <3> QED
      BY <2>2, <3>1, SameCode DEF RankedNow, Grouped, Ranked, Alikes, InstrSame, PairSame
  <2>5. ListTyped'
    BY <2>2, <2>3, SameCode DEF ListInv, ListTyped
  <2>6. /\ \A i \in ToSet(occurencies') : i \in visited' /\ HasArgs(i)'
        /\ \A i \in ToSet(double_occurencies') : Paired(i)'
    BY <2>3, SameLists DEF ListInv
  <2>7. Sorting' /\ phase' \notin {"seed", "mark", "count"}
    BY <2>2 DEF Sorting
  <2> QED
    BY <2>4, <2>5, <2>6, <2>7 DEF ListInv
<1> QED
  BY <1>1, <1>2

LEMMA PrintLists ==
  ASSUME ListInv, PrintRow, UNCHANGED file
  PROVE  ListInv'
<1>1. /\ phase = "print" /\ phase' \in {"print", "done"}
      /\ UNCHANGED <<marking, counting, occurencies_u, double_occurencies_u>>
  BY DEF PrintRow, Stop, ranking
<1> QED
  BY <1>1, ListsStay DEF marking, Sorting

LEMMA StepLists ==
  ASSUME ListInv, MarkInv, MarkedNow, CapturesCounted, [Next]_vars
  PROVE  ListInv'
<1>1. CASE UNCHANGED vars
  <2>1. UNCHANGED <<file, phase, visited, boundary, counting, occurencies_u, double_occurencies_u, printed>>
    BY <1>1 DEF vars, marking, ranking
  <2> QED
    BY <2>1, ListsStay DEF Sorting
<1>2. CASE UNCHANGED file /\ \/ Seed \/ SeedsDone \/ Pop \/ MarkJump \/ MarkReturn \/ MarkCall
                             \/ MarkReference \/ Follow \/ BadTarget
  <2>1. /\ phase \in {"seed", "mark"} /\ UNCHANGED <<counting, ranking>>
        /\ phase' \in {"seed", "mark", "failed", "wild"}
    BY <1>2 DEF Seed, SeedsDone, Pop, MarkJump, MarkReturn, MarkCall, MarkReference, Follow,
                BadTarget, Marking, Stop
  <2>2. at' \in MaybeOffset
    BY <2>1 DEF ListInv, ListTyped, counting
  <2> QED
    BY <1>2, <2>1, <2>2, NothingListed DEF counting, Sorting
<1>3. CASE UNCHANGED file /\ MarkingDone
  <2>1. /\ phase = "mark" /\ phase' = "count" /\ at' = 0
        /\ UNCHANGED <<prev, occurencies, double_occurencies, ranking>>
    BY <1>3 DEF MarkingDone
  <2>2. 0 \in MaybeOffset
    BY MarkFacts, FileFacts DEF MaybeOffset
  <2> QED
    BY <1>3, <2>1, <2>2, NothingListed DEF Sorting
<1>4. CASE UNCHANGED file /\ CountingDone
  <2>1. phase = "count" /\ phase' = "sort" /\ UNCHANGED <<marking, counting, ranking>>
    BY <1>4 DEF CountingDone
  <2> QED
    BY <1>4, <2>1, ListsStay DEF marking, ranking, Sorting
<1> QED
  BY <1>1, <1>2, <1>3, <1>4, SkipLists, CountLists, SortLists, PrintLists DEF Next, Step, Ended

LEMMA InitLists ==
  ASSUME Init
  PROVE  ListInv
<1>1. ToSet(<<>>) = {}
  BY NoneWaits
<1> QED
  BY <1>1 DEF Init, ListInv, ListTyped, MaybeOffset, Sorting

LEMMA ListHolds == Spec /\ Aligned /\ CapturesCounted => [](ListInv /\ MarkInv /\ MarkedNow)
<1>1. Init => ListInv
  BY InitLists
<1>2. CapturesCounted /\ [Next]_vars /\ MarkInv => CapturesCounted'
  <2> SUFFICES ASSUME CapturesCounted, [Next]_vars PROVE CapturesCounted'
    OBVIOUS
  <2>1. UNCHANGED file
    BY DEF Next, vars, Ended
  <2> QED
    BY <2>1 DEF CapturesCounted, Reached, Code, Entries
<1>3. MarkInv /\ Marked => MarkedNow
  BY MarkedIsReached
<1>4. ListInv /\ MarkInv /\ MarkedNow /\ CapturesCounted /\ [Next]_vars => ListInv'
  BY StepLists
<1> QED
  BY <1>1, <1>2, <1>3, <1>4, MarkHolds, MarkingExact, PTL DEF Spec

(* count_occurencies pairs two instructions only when control goes from the  *)
(* first to the second and nowhere else, and sorting keeps those pairs.      *)
THEOREM PairsFollow == Spec /\ Aligned /\ CapturesCounted => []PairsFallThrough
<1>1. ListInv => PairsFallThrough
  <2> SUFFICES ASSUME ListInv PROVE PairsFallThrough
    OBVIOUS
  <2>1. \A k \in DOMAIN double_occurencies : double_occurencies[k] \in ToSet(double_occurencies)
    BY WaitingIs DEF ListInv, ListTyped
  <2>2. \A k \in DOMAIN double_occurencies : FallsThrough(double_occurencies[k])
    BY <2>1 DEF ListInv, Paired
  <2> QED
    BY <2>2, PairsAre
<1> QED
  BY <1>1, ListHolds, PTL

-----------------------------------------------------------------------------
(***************************************************************************)
(* Merging the rankings.  What was printed last counts no less than what    *)
(* comes next in either.                                                   *)
(***************************************************************************)
PrintedRows == [size : {1, 2}, at : Offsets(Code), count : Nat \ {0}]

(* n of the rows u are among those printed.                                  *)
Merged(p, u, n) ==
  /\ n \in 0 .. Len(u)
  /\ n < Len(u) /\ p # <<>> => p[Len(p)].count >= u[n + 1][2]


Falling(p) == \A k \in 1 .. Len(p) - 1 : p[k].count >= p[k + 1].count

PrintInv ==
  /\ printed \in Seq(PrintedRows)
  /\ Len(printed) = Printed(1) + Printed(2)
  /\ Merged(printed, occurencies_u, Printed(1))
  /\ Merged(printed, double_occurencies_u, Printed(2))
  /\ Falling(printed)
  /\ phase = "done" => /\ Printed(1) = Len(occurencies_u)
                       /\ Printed(2) = Len(double_occurencies_u)

Descending(u) ==
  /\ u \in Counting(Offsets(Code))
  /\ \A j, k \in 1 .. Len(u) : j < k => u[j][2] >= u[k][2]

LEMMA RankingsDescend ==
  ASSUME ListInv
  PROVE  Descending(occurencies_u) /\ Descending(double_occurencies_u)
<1>1. CASE Sorting
  BY <1>1 DEF ListInv, RankedNow, Ranked, Descending
<1>2. CASE ~ Sorting
  <2>1. <<>> \in Counting(Offsets(Code)) /\ Len(<<>>) = 0
    BY EmptySeq DEF Counting
  <2>2. Descending(<<>>)
    BY <2>1 DEF Descending
  <2> QED
    BY <1>2, <2>2 DEF ListInv
<1> QED
  BY <1>1, <1>2

LEMMA NonePrinted ==
  ASSUME printed = <<>>
  PROVE  Printed(1) = 0 /\ Printed(2) = 0
<1>1. \A z : {k \in DOMAIN printed : printed[k].size = z} = {}
  OBVIOUS
<1>2. Cardinality({}) = 0
  BY FS_EmptySet
<1> QED
  BY <1>1, <1>2 DEF Printed

LEMMA NothingMerged ==
  ASSUME printed = <<>>, phase # "done", Descending(occurencies_u), Descending(double_occurencies_u)
  PROVE  PrintInv
<1>1. Len(occurencies_u) \in Nat /\ Len(double_occurencies_u) \in Nat
  BY DEF Descending, Counting
<1>2. printed \in Seq(PrintedRows) /\ Len(printed) = 0
  OBVIOUS
<1> QED
  BY <1>1, <1>2, NonePrinted DEF PrintInv, Merged, Falling

LEMMA PrintOneMore ==
  ASSUME NEW z \in {1, 2}, NEW r \in PrintedRows, printed \in Seq(PrintedRows),
         printed' = Append(printed, r)
  PROVE  Printed(z)' = Printed(z) + (IF r.size = z THEN 1 ELSE 0) /\ Printed(z) \in Nat
<1> DEFINE n == Len(printed)
           S == {k \in 1 .. n : printed[k].size = z}
           T == {k \in 1 .. n + 1 : printed'[k].size = z}
<1>1. /\ n \in Nat /\ Len(printed') = n + 1 /\ printed'[n + 1] = r
      /\ \A k \in 1 .. n : printed'[k] = printed[k]
      /\ DOMAIN printed = 1 .. n /\ DOMAIN printed' = 1 .. n + 1
  OBVIOUS
<1>2. IsFiniteSet(1 .. n) /\ S \in SUBSET (1 .. n)
  BY <1>1, FS_Interval
<1>3. IsFiniteSet(S) /\ Cardinality(S) \in Nat
  BY <1>2, FS_Subset, FS_CardinalityType
<1>4. \A k : k \in 1 .. n + 1 <=> k \in 1 .. n \/ k = n + 1
  BY <1>1
<1>5. T = S \cup (IF r.size = z THEN {n + 1} ELSE {})
  BY <1>1, <1>4
<1>6. n + 1 \notin S
  BY <1>1
<1>7. Printed(z) = Cardinality(S) /\ Printed(z)' = Cardinality(T)
  BY <1>1 DEF Printed
<1> HIDE DEF S, T, n
<1>8. CASE r.size = z
  <2>1. Cardinality(T) = Cardinality(S) + 1
    BY <1>3, <1>5, <1>6, <1>8, FS_AddElement
  <2> QED
    BY <1>3, <1>7, <1>8, <2>1
<1>9. CASE r.size # z
  <2>1. T = S
    BY <1>5, <1>9
  <2> QED
    BY <1>3, <1>7, <1>9, <2>1
<1> QED
  BY <1>8, <1>9

(* The next row of u, which counts no less than the next of w, is printed.   *)
LEMMA MergeOne ==
  ASSUME NEW u, Descending(u), NEW w, Descending(w), NEW n \in Nat, n < Len(u), NEW m \in Nat,
         NEW p \in Seq(PrintedRows), Falling(p), Merged(p, u, n), Merged(p, w, m),
         m < Len(w) => u[n + 1][2] >= w[m + 1][2],
         NEW r \in PrintedRows, r.count = u[n + 1][2]
  PROVE  LET q == Append(p, r)
         IN  Merged(q, u, n + 1) /\ Merged(q, w, m) /\ Falling(q)
<1> DEFINE q == Append(p, r)
           c == Len(p)
<1>1. /\ c \in Nat /\ Len(q) = c + 1 /\ q[c + 1] = r /\ q # <<>>
      /\ \A k \in 1 .. c : q[k] = p[k]
  OBVIOUS
<1>2. Len(u) \in Nat /\ Len(w) \in Nat /\ n + 1 \in 1 .. Len(u)
  BY DEF Descending, Counting
<1>3. u[n + 1][2] \in Nat
  <2>1. u[n + 1] \in Offsets(Code) \X (Nat \ {0})
    BY <1>2 DEF Descending, Counting
  <2> QED
    BY <2>1
<1> HIDE DEF q, c
<1>4. Merged(q, u, n + 1)
  <2>1. n + 1 < Len(u) => n + 1 \in 1 .. Len(u) /\ n + 1 + 1 \in 1 .. Len(u) /\ n + 1 < n + 1 + 1
    BY <1>2
  <2>2. n + 1 < Len(u) => u[n + 1][2] >= u[n + 1 + 1][2]
    BY <2>1 DEF Descending
  <2> QED
    BY <1>1, <1>2, <2>2 DEF Merged
<1>5. Merged(q, w, m)
  BY <1>1, <1>2 DEF Merged
<1>6. Falling(q)
  <2> SUFFICES ASSUME NEW k \in 1 .. Len(q) - 1 PROVE q[k].count >= q[k + 1].count
    BY DEF Falling
  <2>1. k \in 1 .. c
    BY <1>1
  <2>2. CASE k = c
    <3>1. q[k] = p[Len(p)] /\ q[k + 1] = r /\ p # <<>>
      BY <1>1, <2>1, <2>2 DEF c
    <3>2. p[Len(p)].count >= u[n + 1][2]
      BY <3>1 DEF Merged
    <3> QED
      BY <3>1, <3>2
  <2>3. CASE k # c
    <3>1. k + 1 \in 1 .. c /\ k \in 1 .. Len(p) - 1
      BY <1>1, <2>1, <2>3 DEF c
    <3>2. q[k] = p[k] /\ q[k + 1] = p[k + 1]
      BY <1>1, <2>1, <3>1
    <3> QED
      BY <3>1, <3>2 DEF Falling
  <2> QED
    BY <2>2, <2>3
<1> QED
  BY <1>4, <1>5, <1>6 DEF q

LEMMA RowIsPrinted ==
  ASSUME NEW u, Descending(u), NEW n \in Nat, n < Len(u), NEW z \in {1, 2}
  PROVE  [size |-> z, at |-> u[n + 1][1], count |-> u[n + 1][2]] \in PrintedRows
<1>1. n + 1 \in 1 .. Len(u)
  BY DEF Descending, Counting
<1>2. u[n + 1] \in Offsets(Code) \X (Nat \ {0})
  BY <1>1 DEF Descending, Counting
<1> QED
  BY <1>2 DEF PrintedRows

LEMMA PrintMerges ==
  ASSUME ListInv, PrintInv, PrintRow, UNCHANGED file
  PROVE  PrintInv'
<1> DEFINE n == Printed(1)
           m == Printed(2)
           u == occurencies_u
           w == double_occurencies_u
           one == [size |-> 1, at |-> u[n + 1][1], count |-> u[n + 1][2]]
           two == [size |-> 2, at |-> w[m + 1][1], count |-> w[m + 1][2]]
<1>1. /\ Descending(u) /\ Descending(w) /\ Len(u) \in Nat /\ Len(w) \in Nat
      /\ printed \in Seq(PrintedRows) /\ Falling(printed) /\ Len(printed) = n + m
      /\ Merged(printed, u, n) /\ Merged(printed, w, m)
      /\ n \in Nat /\ m \in Nat /\ n <= Len(u) /\ m <= Len(w)
  BY RankingsDescend DEF PrintInv, Merged, Descending, Counting
<1>2. PrintedRows' = PrintedRows
  BY DEF PrintedRows, Code
<1>3. phase = "print"
  BY DEF PrintRow
<1>4. CASE ~ (n + 1 <= Len(u)) /\ ~ (m + 1 <= Len(w))
  <2>1. phase' = "done" /\ UNCHANGED <<occurencies_u, double_occurencies_u, printed>>
    BY <1>4 DEF PrintRow, Stop, ranking
  <2>2. n = Len(u) /\ m = Len(w)
    BY <1>1, <1>4
  <2>3. Printed(1)' = n /\ Printed(2)' = m
    BY <2>1 DEF Printed
  <2> HIDE DEF n, m
  <2> QED
    BY <1>1, <1>2, <2>1, <2>2, <2>3 DEF PrintInv
<1>5. CASE n + 1 <= Len(u) \/ m + 1 <= Len(w)
  <2>1. /\ phase' = "print" /\ UNCHANGED <<occurencies_u, double_occurencies_u>>
        /\ printed' = Append(printed,
              IF ~ (m + 1 <= Len(w)) \/ (n + 1 <= Len(u) /\ SingleFirst(n + 1, m + 1))
                THEN one ELSE two)
    BY <1>3, <1>5 DEF PrintRow
  <2>2. CASE ~ (m + 1 <= Len(w)) \/ (n + 1 <= Len(u) /\ SingleFirst(n + 1, m + 1))
    <3>1. printed' = Append(printed, one) /\ n < Len(u)
      BY <1>1, <1>5, <2>1, <2>2
    <3>2. one \in PrintedRows
      BY <1>1, <3>1, RowIsPrinted
    <3>3. m < Len(w) => u[n + 1][2] >= w[m + 1][2]
      <4> SUFFICES ASSUME m < Len(w) PROVE u[n + 1][2] >= w[m + 1][2]
        OBVIOUS
      <4>1. u[n + 1][2] > w[m + 1][2]
        BY <1>1, <2>2 DEF SingleFirst
      <4>2. n + 1 \in 1 .. Len(u) /\ m + 1 \in 1 .. Len(w)
        BY <1>1, <3>1
      <4>3. /\ u[n + 1] \in Offsets(Code) \X (Nat \ {0})
            /\ w[m + 1] \in Offsets(Code) \X (Nat \ {0})
        BY <1>1, <4>2 DEF Descending, Counting
      <4>4. u[n + 1][2] \in Nat /\ w[m + 1][2] \in Nat
        BY <4>3
      <4> QED
        BY <4>1, <4>4
    <3>4. one.count = u[n + 1][2] /\ one.size = 1
      OBVIOUS
    <3>5. Printed(1)' = n + 1 /\ Printed(2)' = m
      <4>1. Printed(1)' = n + (IF one.size = 1 THEN 1 ELSE 0)
        BY <1>1, <3>1, <3>2, PrintOneMore
      <4>2. Printed(2)' = m + (IF one.size = 2 THEN 1 ELSE 0)
        BY <1>1, <3>1, <3>2, PrintOneMore
      <4> HIDE DEF n, m, one
      <4> QED
        BY <1>1, <3>4, <4>1, <4>2
    <3> HIDE DEF n, m, u, w, one
    <3>6. Merged(printed', u, n + 1) /\ Merged(printed', w, m) /\ Falling(printed')
      BY <1>1, <3>1, <3>2, <3>3, <3>4, MergeOne
    <3>7. printed' \in Seq(PrintedRows) /\ Len(printed') = n + m + 1
      BY <1>1, <3>1, <3>2
    <3>8. n + m + 1 = (n + 1) + m
      BY <1>1
    <3> QED
      BY <1>2, <2>1, <3>5, <3>6, <3>7, <3>8 DEF PrintInv, u, w
  <2>3. CASE ~ (~ (m + 1 <= Len(w)) \/ (n + 1 <= Len(u) /\ SingleFirst(n + 1, m + 1)))
    <3>1. printed' = Append(printed, two) /\ m < Len(w)
      BY <1>1, <2>1, <2>3
    <3>2. two \in PrintedRows
      BY <1>1, <3>1, RowIsPrinted
    <3>3. n < Len(u) => w[m + 1][2] >= u[n + 1][2]
      <4> SUFFICES ASSUME n < Len(u) PROVE w[m + 1][2] >= u[n + 1][2]
        OBVIOUS
      <4>1. ~ (u[n + 1][2] > w[m + 1][2])
        BY <1>1, <2>3 DEF SingleFirst
      <4>2. n + 1 \in 1 .. Len(u) /\ m + 1 \in 1 .. Len(w)
        BY <1>1, <3>1
      <4>3. /\ u[n + 1] \in Offsets(Code) \X (Nat \ {0})
            /\ w[m + 1] \in Offsets(Code) \X (Nat \ {0})
        BY <1>1, <4>2 DEF Descending, Counting
      <4>4. u[n + 1][2] \in Nat /\ w[m + 1][2] \in Nat
        BY <4>3
      <4> QED
        BY <4>1, <4>4
    <3>4. two.count = w[m + 1][2] /\ two.size = 2
      OBVIOUS
    <3>5. Printed(1)' = n /\ Printed(2)' = m + 1
      <4>1. Printed(1)' = n + (IF two.size = 1 THEN 1 ELSE 0)
        BY <1>1, <3>1, <3>2, PrintOneMore
      <4>2. Printed(2)' = m + (IF two.size = 2 THEN 1 ELSE 0)
        BY <1>1, <3>1, <3>2, PrintOneMore
      <4> HIDE DEF n, m, two
      <4> QED
        BY <1>1, <3>4, <4>1, <4>2
    <3> HIDE DEF n, m, u, w, two
    <3>6. Merged(printed', w, m + 1) /\ Merged(printed', u, n) /\ Falling(printed')
      BY <1>1, <3>1, <3>2, <3>3, <3>4, MergeOne
    <3>7. printed' \in Seq(PrintedRows) /\ Len(printed') = n + m + 1
      BY <1>1, <3>1, <3>2
    <3>8. n + m + 1 = n + (m + 1)
      BY <1>1
    <3> QED
      BY <1>2, <2>1, <3>5, <3>6, <3>7, <3>8 DEF PrintInv, u, w
  <2> QED
    BY <2>2, <2>3
<1> QED
  BY <1>1, <1>4, <1>5

LEMMA StepPrints ==
  ASSUME ListInv, ListInv', PrintInv, [Next]_vars
  PROVE  PrintInv'
<1>1. CASE UNCHANGED vars
  <2>1. UNCHANGED <<file, phase, occurencies_u, double_occurencies_u, printed>>
    BY <1>1 DEF vars, ranking
  <2> QED
    BY <2>1 DEF PrintInv, Printed, PrintedRows, Code
<1>2. CASE Step /\ UNCHANGED file /\ phase # "print"
  <2>1. printed' = printed
    BY <1>2 DEF Step, Seed, SeedsDone, Pop, MarkJump, MarkReturn, MarkCall, MarkReference, Follow,
                BadTarget, MarkingDone, SkipByte, CountInstruction, CountingDone, Sort, PrintRow,
                Marking, Stop, ranking
  <2>2. phase \notin Ends
    BY <1>2 DEF Step, Seed, SeedsDone, Pop, MarkJump, MarkReturn, MarkCall, MarkReference, Follow,
                BadTarget, MarkingDone, SkipByte, CountInstruction, CountingDone, Sort, PrintRow,
                Marking, Ends
  <2>3. ~ Sorting
    BY <1>2, <2>2 DEF Sorting, Ends
  <2>4. printed' = <<>>
    BY <2>1, <2>3 DEF ListInv
  <2>5. phase' # "done"
    BY <1>2 DEF Step, Seed, SeedsDone, Pop, MarkJump, MarkReturn, MarkCall, MarkReference, Follow,
                BadTarget, MarkingDone, SkipByte, CountInstruction, CountingDone, Sort, PrintRow,
                Marking, Stop
  <2>6. Descending(occurencies_u)' /\ Descending(double_occurencies_u)'
    BY RankingsDescend, PTL
  <2>7. (printed = <<>> /\ phase # "done" /\ Descending(occurencies_u)
           /\ Descending(double_occurencies_u) => PrintInv)'
    BY NothingMerged, PTL
  <2> QED
    BY <2>4, <2>5, <2>6, <2>7
<1>3. CASE Step /\ UNCHANGED file /\ phase = "print"
  <2>1. PrintRow
    BY <1>3 DEF Step, Seed, SeedsDone, Pop, MarkJump, MarkReturn, MarkCall, MarkReference, Follow,
                BadTarget, MarkingDone, SkipByte, CountInstruction, CountingDone, Sort, Marking
  <2> QED
    BY <1>3, <2>1, PrintMerges
<1> QED
  BY <1>1, <1>2, <1>3 DEF Next, Ended

LEMMA PrintHolds == Spec /\ Aligned /\ CapturesCounted => []PrintInv
<1>1. Init => PrintInv
  <2> SUFFICES ASSUME Init PROVE PrintInv
    OBVIOUS
  <2>1. Descending(occurencies_u) /\ Descending(double_occurencies_u)
    BY InitLists, RankingsDescend
  <2> QED
    BY <2>1, NothingMerged DEF Init
<1>2. ListInv /\ ListInv' /\ PrintInv /\ [Next]_vars => PrintInv'
  BY StepPrints
<1> QED
  BY <1>1, <1>2, ListHolds, PTL DEF Spec

(* main prints the rows of both rankings, none twice and in the end all of   *)
(* them, and never one that occurs more often than one it has printed.      *)
THEOREM PrintsSorted == Spec /\ Aligned /\ CapturesCounted => []PrintedIsSorted
<1>1. PrintInv => PrintedIsSorted
  BY DEF PrintInv, PrintedIsSorted, Falling
<1> QED
  BY <1>1, PrintHolds, PTL

(* Lists, rows and what is printed name instructions of the code, with       *)
(* positive counts.                                                        *)
THEOREM AnalyserTyped == Spec /\ Aligned /\ CapturesCounted => []TypeOK
<1>1. MarkInv /\ ListInv /\ PrintInv => TypeOK
  <2> SUFFICES ASSUME MarkInv, ListInv, PrintInv PROVE TypeOK
    OBVIOUS
  <2>1. Descending(occurencies_u) /\ Descending(double_occurencies_u)
    BY RankingsDescend
  <2>2. worklist \in Seq(Nat)
    BY MarkFacts, FileFacts
  <2> QED
    BY <2>1, <2>2 DEF MarkInv, MarkTyped, ListInv, ListTyped, PrintInv, PrintedRows, TypeOK,
                      Descending, Counting, Phases
<1> QED
  BY <1>1, ListHolds, PrintHolds, PTL

-----------------------------------------------------------------------------
(***************************************************************************)
(* Counting everything.  Where no instruction that is reached lies inside    *)
(* another, count_occurencies passes none: what is listed is what lies       *)
(* before at.                                                              *)
(***************************************************************************)
Apart == \A i, j \in Reached : i < j => i + SizeAt(Code, i) <= j

Passed(i) == phase = "count" /\ at # Null => i < at

CoverInv == phase \in {"count", "sort", "print", "done"} =>
              /\ Distinct(occurencies)
              /\ ToSet(occurencies) = {i \in visited : HasArgs(i) /\ Passed(i)}

LEMMA SizeOfMarked ==
  ASSUME file \in DOMAIN Files, NEW i \in Offsets(Code), Captures(Code, i),
         Op(Code, i) = "CLOSURE" => Complete(Code, i)
  PROVE  SizeAt(Code, i) \in Nat /\ SizeAt(Code, i) > 0
<1>1. IsCode(Code) /\ i \in Nat
  BY CodeIsCode, FileFacts
<1>2. ArgsLength(Op(Code, i)) \in {0, 1, 2} /\ (Op(Code, i) = "CLOSURE" => ArgsLength(Op(Code, i)) = 2)
  BY ArgsLengths
<1>3. CASE Op(Code, i) = "CLOSURE"
  <2>1. i + 4 * (1 + 1) \in DOMAIN Code
    BY <1>2, <1>3 DEF Complete, Offsets
  <2>2. Arg(Code, i, 1) \in Int
    BY <1>1, <2>1, ArgIsInteger
  <2>3. Arg(Code, i, 1) >= 0
    BY <1>3 DEF Captures
  <2> QED
    BY <1>2, <1>3, <2>2, <2>3 DEF SizeAt
<1>4. CASE Op(Code, i) # "CLOSURE"
  BY <1>2, <1>4 DEF SizeAt
<1> QED
  BY <1>3, <1>4

LEMMA DistinctAppend ==
  ASSUME NEW D, NEW s \in Seq(D), NEW e \in D, e \notin ToSet(s), Distinct(s)
  PROVE  Distinct(Append(s, e))
<1>1. /\ Len(Append(s, e)) = Len(s) + 1 /\ Len(s) \in Nat /\ Append(s, e)[Len(s) + 1] = e
      /\ \A k \in 1 .. Len(s) : Append(s, e)[k] = s[k] /\ s[k] # e
  BY WaitingIs
<1>2. \A k \in 1 .. Len(s) + 1 : k \in 1 .. Len(s) \/ k = Len(s) + 1
  BY <1>1
<1> QED
  BY <1>1, <1>2 DEF Distinct

LEMMA CountCovers ==
  ASSUME CoverInv, ListInv, MarkInv, MarkedNow, CapturesCounted, Apart,
         CountInstruction, UNCHANGED file, ~ Stop("wild")
  PROVE  CoverInv'
<1>1. /\ phase = "count" /\ at \in visited /\ phase' = phase
      /\ UNCHANGED <<file, visited>>
      /\ occurencies' = IF HasArgs(at) THEN Append(occurencies, at) ELSE occurencies
      /\ at' = get_next(Code, at)
  BY DEF CountInstruction, marking
<1>2. /\ visited \subseteq Offsets(Code) /\ file \in DOMAIN Files /\ visited = Reached
      /\ Offsets(Code) \subseteq Nat /\ Null \notin Offsets(Code) /\ at \in Nat /\ at # Null
  BY <1>1, MarkFacts, FileFacts DEF MarkedNow
<1>3. Frontier = {}
  BY <1>1, NoneWaits DEF MarkInv, Frontier, Waiting
<1>4. Explored(at)
  BY <1>1, <1>3 DEF MarkInv
<1>5. SizeAt(Code, at) \in Nat /\ SizeAt(Code, at) > 0
  BY <1>1, <1>2, <1>4, SizeOfMarked DEF Explored, Targeting, CapturesCounted
<1> DEFINE z == SizeAt(Code, at)
<1>6. ASSUME NEW i \in visited PROVE (at' # Null => i < at') <=> i < at \/ i = at
  <2>1. at < i => at + z <= i
    BY <1>1, <1>2 DEF Apart
  <2>2. i \in Nat /\ i \in Offsets(Code)
    BY <1>2
  <2>3. CASE at + z \in Offsets(Code)
    <3>1. at' = at + z /\ at' # Null
      BY <1>1, <1>2, <2>3 DEF get_next, OffsetOrNull
    <3> HIDE DEF z
    <3> QED
      BY <1>2, <1>5, <2>1, <2>2, <3>1 DEF z
  <2>4. CASE at + z \notin Offsets(Code)
    <3>1. at' = Null
      BY <1>1, <2>4 DEF get_next, OffsetOrNull
    <3>2. 0 .. i \subseteq Offsets(Code)
      BY <1>2, <2>2, CodeIsCode DEF IsCode, Offsets
    <3>3. ~ (at + z <= i)
      BY <1>2, <1>5, <2>2, <2>4, <3>2
    <3>4. ~ (at < i)
      BY <2>1, <3>3
    <3> QED
      BY <1>2, <2>2, <3>1, <3>4
  <2> QED
    BY <2>3, <2>4
<1>7. /\ Distinct(occurencies) /\ occurencies \in Seq(Offsets(Code))
      /\ ToSet(occurencies) = {i \in visited : HasArgs(i) /\ i < at}
  BY <1>1, <1>2 DEF CoverInv, Passed, ListInv, ListTyped
<1>8. at \notin ToSet(occurencies) /\ at \in Offsets(Code)
  BY <1>1, <1>2, <1>7
<1>9. Distinct(occurencies')
  BY <1>1, <1>7, <1>8, DistinctAppend
<1>10. ToSet(occurencies') = {i \in visited : HasArgs(i) /\ (i < at \/ i = at)}
  <2>1. CASE HasArgs(at)
    <3>1. ToSet(occurencies') = ToSet(occurencies) \cup {at}
      BY <1>1, <1>7, <1>8, <2>1, ToSetAppend
    <3> QED
      BY <1>1, <1>7, <2>1, <3>1
  <2>2. CASE ~ HasArgs(at)
    BY <1>1, <1>7, <2>2
  <2> QED
    BY <2>1, <2>2
<1>11. /\ \A i : HasArgs(i)' <=> HasArgs(i)
       /\ \A i \in visited : Passed(i)' <=> i < at \/ i = at
  BY <1>1, <1>6 DEF HasArgs, Code, Passed
<1> QED
  BY <1>1, <1>9, <1>10, <1>11 DEF CoverInv

LEMMA SkipCovers ==
  ASSUME CoverInv, ListInv, MarkInv, SkipByte, UNCHANGED file
  PROVE  CoverInv'
<1>1. /\ phase = "count" /\ at # Null /\ at \notin visited /\ at' = get_next_inc(Code, at)
      /\ UNCHANGED <<file, phase, visited, occurencies>>
  BY DEF SkipByte, marking
<1>2. /\ visited \subseteq Offsets(Code) /\ file \in DOMAIN Files
      /\ Offsets(Code) \subseteq Nat /\ Null \notin Offsets(Code) /\ at \in Nat
  BY <1>1, MarkFacts, FileFacts DEF ListInv, ListTyped, MaybeOffset
<1>3. ASSUME NEW i \in visited PROVE (at' # Null => i < at') <=> i < at
  <2>1. i \in Nat /\ i \in Offsets(Code) /\ i # at
    BY <1>1, <1>2
  <2>2. CASE at + 1 \in Offsets(Code)
    <3>1. at' = at + 1 /\ at' # Null
      BY <1>1, <1>2, <2>2 DEF get_next_inc, OffsetOrNull
    <3> QED
      BY <1>2, <2>1, <3>1
  <2>3. CASE at + 1 \notin Offsets(Code)
    <3>1. at' = Null
      BY <1>1, <2>3 DEF get_next_inc, OffsetOrNull
    <3>2. 0 .. i \subseteq Offsets(Code)
      BY <1>2, <2>1, CodeIsCode DEF IsCode, Offsets
    <3>3. ~ (at + 1 <= i)
      BY <1>2, <2>1, <2>3, <3>2
    <3> QED
      BY <1>2, <2>1, <3>1, <3>3
  <2> QED
    BY <2>2, <2>3
<1>4. \A i \in visited : Passed(i)' <=> Passed(i)
  BY <1>1, <1>3 DEF Passed
<1>5. \A i : HasArgs(i)' <=> HasArgs(i)
  BY <1>1 DEF HasArgs, Code
<1> QED
  BY <1>1, <1>4, <1>5 DEF CoverInv

LEMMA StepCovers ==
  ASSUME CoverInv, ListInv, MarkInv, MarkedNow, CapturesCounted, Apart, [Next]_vars
  PROVE  CoverInv'
<1>1. CASE UNCHANGED vars
  <2>1. UNCHANGED <<file, phase, visited, occurencies, at>>
    BY <1>1 DEF vars, marking, counting
  <2> QED
    BY <2>1 DEF CoverInv, HasArgs, Passed, Code
<1>2. CASE phase' \notin {"count", "sort", "print", "done"}
  BY <1>2 DEF CoverInv
<1>3. CASE UNCHANGED file /\ MarkingDone
  <2>1. phase = "mark" /\ phase' = "count" /\ at' = 0 /\ UNCHANGED <<visited, occurencies>>
    BY <1>3 DEF MarkingDone, marking
  <2>2. occurencies' = <<>> /\ ToSet(occurencies') = {} /\ Len(occurencies') = 0
    BY <2>1, NoneWaits DEF ListInv
  <2>3. Distinct(occurencies')
    BY <2>2 DEF Distinct
  <2>4. \A i \in visited' : ~ Passed(i)'
    <3>1. visited' \subseteq Nat /\ 0 # Null
      BY <2>1, MarkFacts, FileFacts DEF Null
    <3> QED
      BY <2>1, <3>1 DEF Passed
  <2> QED
    BY <2>2, <2>3, <2>4 DEF CoverInv
<1>4. CASE UNCHANGED file /\ CountingDone
  <2>1. phase = "count" /\ at = Null /\ phase' = "sort" /\ UNCHANGED <<visited, occurencies>>
    BY <1>4 DEF CountingDone, marking, counting
  <2> QED
    BY <1>4, <2>1 DEF CoverInv, HasArgs, Passed, Code
<1>5. CASE UNCHANGED file /\ Sort /\ phase' # "wild"
  <2>1. ~ Stop("wild") /\ phase = "sort"
    BY <1>5 DEF Stop, Sort
  <2>2. /\ phase' = "print" /\ UNCHANGED marking /\ Rearranged(occurencies, occurencies')
    BY <1>5, <2>1, ListsSortable, SortMakes
  <2>3. Distinct(occurencies') /\ ToSet(occurencies') = ToSet(occurencies) /\ visited' = visited
    BY <2>1, <2>2 DEF Rearranged, CoverInv, marking
  <2> QED
    BY <1>5, <2>1, <2>2, <2>3 DEF CoverInv, HasArgs, Passed, Code
<1>6. CASE UNCHANGED file /\ PrintRow
  <2>1. /\ phase = "print" /\ phase' \in {"print", "done"} /\ UNCHANGED <<visited, occurencies>>
    BY <1>6 DEF PrintRow, Stop, marking, counting
  <2> QED
    BY <1>6, <2>1 DEF CoverInv, HasArgs, Passed, Code
<1>7. CASE UNCHANGED file /\ CountInstruction /\ phase' # "wild"
  <2>1. ~ Stop("wild")
    BY <1>7 DEF Stop
  <2> QED
    BY <1>7, <2>1, CountCovers
<1>8. CASE \/ Seed \/ SeedsDone \/ Pop \/ MarkJump \/ MarkReturn \/ MarkCall \/ MarkReference
           \/ Follow \/ BadTarget
  <2>1. phase' \in {"seed", "mark", "failed", "wild"}
    BY <1>8 DEF Seed, SeedsDone, Pop, MarkJump, MarkReturn, MarkCall, MarkReference, Follow,
                BadTarget, Marking, Stop
  <2> QED
    BY <1>2, <2>1
<1>9. CASE (Sort \/ CountInstruction) /\ phase' = "wild"
  BY <1>2, <1>9
<1> QED
  BY <1>1, <1>3, <1>4, <1>5, <1>6, <1>7, <1>8, <1>9, SkipCovers DEF Next, Step, Ended

LEMMA CoverHolds == Spec /\ Aligned /\ CapturesCounted /\ Apart => []CoverInv
<1>1. Init => CoverInv
  BY DEF Init, CoverInv
<1>2. [Next]_vars /\ (CapturesCounted /\ Apart) => (CapturesCounted /\ Apart)'
  <2> SUFFICES ASSUME [Next]_vars, CapturesCounted, Apart PROVE (CapturesCounted /\ Apart)'
    OBVIOUS
  <2>1. UNCHANGED file
    BY DEF Next, vars, Ended
  <2> QED
    BY <2>1 DEF CapturesCounted, Apart, Reached, Code, Entries
<1>3. CoverInv /\ ListInv /\ MarkInv /\ MarkedNow /\ CapturesCounted /\ Apart /\ [Next]_vars => CoverInv'
  BY StepCovers
<1> QED
  BY <1>1, <1>2, <1>3, ListHolds, PTL DEF Spec

LEMMA ContentIsSame ==
  ASSUME file \in DOMAIN Files, NEW i, NEW j, Instruction(Code, i), Instruction(Code, j)
  PROVE  Content(i) = Content(j) <=> Same(Code, i, j)
<1>1. IsCode(Code)
  BY CodeIsCode
<1>2. SizeAt(Code, i) \in Nat /\ SizeAt(Code, j) \in Nat /\ SizeAt(Code, i) > 0 /\ SizeAt(Code, j) > 0
  BY <1>1, Sizes
<1> DEFINE m == SizeAt(Code, i)
           n == SizeAt(Code, j)
<1> HIDE DEF m, n
<1>3. /\ Content(i) = [k \in 0 .. m - 1 |-> Code[i + k]]
      /\ Content(j) = [k \in 0 .. n - 1 |-> Code[j + k]]
  BY DEF Content, m, n
<1>4. ASSUME Content(i) = Content(j) PROVE Same(Code, i, j)
  <2>1. 0 .. m - 1 = 0 .. n - 1
    BY <1>3, <1>4
  <2>2. \A k \in 0 .. m - 1 : Code[i + k] = Code[j + k]
    BY <1>3, <1>4, <2>1
  <2> QED
    BY <2>2 DEF Same, AgreeTo, m
<1>5. ASSUME Same(Code, i, j) PROVE Content(i) = Content(j)
  <2>1. m = n
    BY <1>1, <1>5, SameIsEquivalence DEF m, n
  <2>2. \A k \in 0 .. m - 1 : Code[i + k] = Code[j + k]
    BY <1>5 DEF Same, AgreeTo, m
  <2> QED
    BY <1>3, <2>1, <2>2
<1> QED
  BY <1>4, <1>5

AlikeTo(s, Q, i) == {x \in ToSet(s) : \E j \in 1 .. Len(s) : x = s[j] /\ <<j, i>> \in Q}

CountsRow(s, Q, i, rows, of) ==
  /\ of[i] \in 1 .. Len(rows)
  /\ rows[of[i]][2] = Cardinality(AlikeTo(s, Q, i))
  /\ \E j \in 1 .. Len(s) : rows[of[i]][1] = s[j] /\ <<j, i>> \in Q

LEMMA GroupsCount ==
  ASSUME NEW D, NEW s \in Seq(D), Distinct(s), NEW Q, NEW rows \in Counting(D), NEW of,
         Counts(s, Q, Len(s), rows, of), NEW i \in 1 .. Len(s)
  PROVE  CountsRow(s, Q, i, rows, of)
<1> DEFINE n == Len(s)
           a == of[i]
           S == {j \in 1 .. n : of[j] = a}
           T == AlikeTo(s, Q, i)
           f == [j \in S |-> s[j]]
<1>1. n \in Nat /\ a \in 1 .. Len(rows) /\ \A j \in 1 .. n : s[j] \in ToSet(s)
  BY WaitingIs DEF Counts
<1>2. \A j \in 1 .. n : of[j] = a <=> <<j, i>> \in Q
  BY DEF Counts
<1>3. /\ \E j \in 1 .. n : of[j] = a /\ rows[a][1] = s[j]
      /\ rows[a][2] = Cardinality(S)
  BY <1>1 DEF Counts
<1>4. IsFiniteSet(S)
  <2>1. IsFiniteSet(1 .. n) /\ S \in SUBSET (1 .. n)
    BY <1>1, FS_Interval
  <2> QED
    BY <2>1, FS_Subset
<1>5. f \in [S -> T] /\ (\A j, k \in S : f[j] = f[k] => j = k) /\ \A x \in T : \E j \in S : f[j] = x
  BY <1>1, <1>2 DEF Distinct, AlikeTo
<1> HIDE DEF S, T, f
<1>6. f \in Bijection(S, T)
  BY <1>5 DEF Bijection, Injection, Surjection, IsInjective
<1>7. ExistsBijection(S, T)
  BY <1>6 DEF ExistsBijection
<1>8. Cardinality(T) = Cardinality(S)
  BY <1>4, <1>7, FS_Bijection
<1> QED
  BY <1>1, <1>2, <1>3, <1>8 DEF T, CountsRow

LEMMA RowsAreCounts ==
  ASSUME ListInv, MarkInv, MarkedNow, CoverInv, phase = "print"
  PROVE  RowsCountOccurrences
<1> DEFINE counted == {i \in Reached : HasArgs(i)}
           s == occurencies
           n == Len(s)
           u == occurencies_u
           O == Offsets(Code)
           Q == Alikes(1, s)
<1>1. /\ s \in Seq(O) /\ Distinct(s) /\ ToSet(s) = counted /\ file \in DOMAIN Files
      /\ \A i \in counted : Instruction(Code, i)
  BY MarkFacts DEF ListInv, ListTyped, CoverInv, MarkedNow, Passed, Sorting, RankedNow
<1>2. PICK rows : Grouped(1, s, rows) /\ Ranked(rows, u)
  BY DEF ListInv, RankedNow, Sorting
<1>3. PICK of : Counts(s, Q, n, rows, of)
  BY <1>2 DEF Grouped
<1>4. rows \in Counting(O) /\ u \in Counting(O) /\ Rearranged(rows, u)
  BY <1>2 DEF Ranked
<1>5. /\ DOMAIN u = 1 .. Len(u) /\ ToSet(u) = {u[k] : k \in 1 .. Len(u)}
      /\ ToSet(rows) = {rows[a] : a \in 1 .. Len(rows)} /\ ToSet(s) = {s[j] : j \in 1 .. n}
      /\ ToSet(u) = ToSet(rows)
  BY <1>1, <1>4, WaitingIs DEF Counting, Rearranged
<1>6. \A i, j \in counted : Content(i) = Content(j) <=> Same(Code, i, j)
  BY <1>1, ContentIsSame
<1>7. \A i, j \in 1 .. n : <<i, j>> \in Q <=> Content(s[i]) = Content(s[j])
  <2>1. \A i, j \in 1 .. n : <<i, j>> \in Q <=> Same(Code, s[i], s[j])
    BY DEF Alikes, InstrSame
  <2>2. \A i \in 1 .. n : s[i] \in counted
    BY <1>1, <1>5
  <2> HIDE DEF counted, Q
  <2> QED
    BY <1>6, <2>1, <2>2
<1> HIDE DEF Q
<1>8. /\ \A i \in 1 .. n : of[i] \in 1 .. Len(rows)
      /\ \A i, j \in 1 .. n : of[i] = of[j] <=> <<i, j>> \in Q
      /\ \A a \in 1 .. Len(rows) : \E j \in 1 .. n : of[j] = a /\ rows[a][1] = s[j]
  BY <1>3 DEF Counts
<1> HIDE DEF n, s, u, counted
<1>9. Distinct(u)
  <2>1. ASSUME NEW a \in 1 .. Len(rows), NEW b \in 1 .. Len(rows), rows[a] = rows[b] PROVE a = b
    <3>1. PICK j \in 1 .. n : of[j] = a /\ rows[a][1] = s[j]
      BY <1>8
    <3>2. PICK k \in 1 .. n : of[k] = b /\ rows[b][1] = s[k]
      BY <1>8
    <3>3. s[j] = s[k]
      BY <2>1, <3>1, <3>2
    <3>4. j = k
      BY <1>1, <3>3 DEF Distinct, n
    <3> QED
      BY <3>1, <3>2, <3>4
  <2>2. Distinct(rows)
    BY <2>1 DEF Distinct
  <2> QED
    BY <1>4, <2>2 DEF Rearranged
(* Each row of the ranking is a row of the groups.                          *)
<1>10. \A k \in 1 .. Len(u) : \E a \in 1 .. Len(rows), j \in 1 .. n :
          u[k] = rows[a] /\ of[j] = a /\ u[k][1] = s[j]
  <2> SUFFICES ASSUME NEW k \in 1 .. Len(u)
               PROVE  \E a \in 1 .. Len(rows), j \in 1 .. n :
                        u[k] = rows[a] /\ of[j] = a /\ u[k][1] = s[j]
    OBVIOUS
  <2>1. u[k] \in ToSet(rows)
    BY <1>5
  <2>2. PICK a \in 1 .. Len(rows) : u[k] = rows[a]
    BY <1>5, <2>1
  <2>3. PICK j \in 1 .. n : of[j] = a /\ rows[a][1] = s[j]
    BY <1>8
  <2> QED
    BY <2>2, <2>3
<1>11. \A k \in 1 .. Len(u) : u[k][1] \in counted
  BY <1>1, <1>5, <1>10
<1>12. ASSUME NEW i \in counted
       PROVE  \E k \in 1 .. Len(u) :
                /\ {m \in 1 .. Len(u) : Content(u[m][1]) = Content(i)} = {k}
                /\ u[k][2] = Cardinality({x \in counted : Content(i) = Content(x)})
  <2>1. PICK j \in 1 .. n : s[j] = i
    BY <1>1, <1>5
  <2>2. /\ of[j] \in 1 .. Len(rows)
        /\ rows[of[j]][2] = Cardinality(AlikeTo(s, Q, j))
        /\ \E l \in 1 .. n : rows[of[j]][1] = s[l] /\ <<l, j>> \in Q
    <3>1. Counts(s, Q, Len(s), rows, of) /\ j \in 1 .. Len(s)
      BY <1>3 DEF n
    <3>2. CountsRow(s, Q, j, rows, of)
      BY <1>1, <1>4, <3>1, GroupsCount
    <3> QED
      BY <3>2 DEF n, CountsRow
  <2>3. AlikeTo(s, Q, j) = {x \in counted : Content(i) = Content(x)}
    <3>1. \A x : x \in AlikeTo(s, Q, j) <=>
                  x \in counted /\ \E l \in 1 .. n : x = s[l] /\ <<l, j>> \in Q
      BY <1>1 DEF AlikeTo, n
    <3>2. \A x \in counted : \E l \in 1 .. n : x = s[l]
      BY <1>1, <1>5
    <3>3. \A x : x \in AlikeTo(s, Q, j) <=> x \in counted /\ Content(i) = Content(x)
      <4>1. ASSUME NEW x \in counted, NEW l \in 1 .. n, x = s[l]
            PROVE  <<l, j>> \in Q <=> Content(i) = Content(x)
        BY <1>7, <2>1, <4>1
      <4> QED
        BY <3>1, <3>2, <4>1
    <3> QED
      BY <3>3
  <2>4. PICK k \in 1 .. Len(u) : u[k] = rows[of[j]]
    BY <1>5, <2>2
  <2>5. u[k][2] = Cardinality({x \in counted : Content(i) = Content(x)})
    BY <2>2, <2>3, <2>4
  <2>6. Content(u[k][1]) = Content(i)
    BY <1>7, <2>1, <2>2, <2>4
  <2>7. ASSUME NEW m \in 1 .. Len(u), Content(u[m][1]) = Content(i) PROVE m = k
    <3>1. PICK a \in 1 .. Len(rows), l \in 1 .. n :
            u[m] = rows[a] /\ of[l] = a /\ u[m][1] = s[l]
      BY <1>10
    <3>2. <<l, j>> \in Q
      BY <1>7, <2>1, <2>7, <3>1
    <3>3. u[m] = u[k]
      BY <1>8, <2>4, <3>1, <3>2
    <3> QED
      BY <1>9, <3>3 DEF Distinct
  <2> QED
    BY <2>5, <2>6, <2>7
<1> QED
  BY <1>5, <1>11, <1>12 DEF RowsCountOccurrences, u, counted

(* Each different instruction with arguments that the public symbols lead to *)
(* has one row, whose count is the number of its occurrences.               *)
THEOREM RowsCounted == Spec /\ Aligned /\ CapturesCounted /\ Apart => []RowsCountOccurrences
<1>1. ListInv /\ MarkInv /\ MarkedNow /\ CoverInv => RowsCountOccurrences
  <2>1. phase # "print" => RowsCountOccurrences
    BY DEF RowsCountOccurrences
  <2> QED
    BY <2>1, RowsAreCounts
<1> QED
  BY <1>1, ListHolds, CoverHolds, PTL
=============================================================================
