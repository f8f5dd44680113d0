--------------------------- MODULE RuntimeProofs ---------------------------
(***************************************************************************)
(* Proofs about the two parts of Runtime.  The string buffer is typed and   *)
(* terminated and implements Appender, for every job and every initial     *)
(* length.  The tags of constructors: LtagHash and de_hash stay in the      *)
(* static buffer, accept the names the interpreters' model takes for        *)
(* hashable and tell them apart, for every width.                          *)
(***************************************************************************)
EXTENDS Runtime, Induction, TLAPS

-----------------------------------------------------------------------------
(***************************************************************************)
(* The string buffer.                                                      *)
(***************************************************************************)
(* Before the first piece is printed nothing has been written.              *)
EmptyAtFirst == phase = "create" => ptr = 0

IInv == TypeOK /\ Terminated /\ EmptyAtFirst

(* What Truncate and Write put in the block keeps it a block of bytes, and   *)
(* leaves the bytes before ptr alone.                                      *)
LEMMA PrintedType ==
  ASSUME TypeOK, NEW piece \in Texts
  PROVE  /\ Printed(piece) \in [0 .. len - 1 -> Bytes]
         /\ \A k \in 0 .. ptr - 1 : Printed(piece)[k] = contents[k]
<1>1. /\ len \in Nat /\ ptr \in 0 .. len - 1
      /\ contents \in [0 .. len - 1 -> Bytes]
  BY DEF TypeOK
<1>2. Len(piece) \in Nat /\ \A i \in 1 .. Len(piece) : piece[i] \in Bytes
  BY DEF Texts, Bytes
<1> DEFINE m == MinOf(Len(piece), rest - 1)
<1>3. m \in Nat /\ m <= Len(piece)
  BY <1>1, <1>2 DEF MinOf, rest
<1> HIDE DEF m
<1>4. \A k \in 0 .. len - 1 : ptr <= k /\ k < ptr + m => k - ptr + 1 \in 1 .. Len(piece)
  BY <1>1, <1>2, <1>3
<1>5. Printed(piece) = [k \in 0 .. len - 1 |->
                          IF ptr <= k /\ k < ptr + m THEN piece[k - ptr + 1]
                          ELSE IF k = ptr + m THEN NUL ELSE contents[k]]
  BY DEF Printed, m
<1>6. NUL \in Bytes
  BY DEF Bytes
<1>7. \A k \in 0 .. len - 1 : Printed(piece)[k] \in Bytes
  BY <1>1, <1>2, <1>4, <1>5, <1>6
<1>8. Printed(piece) \in [0 .. len - 1 -> Bytes]
  BY <1>5, <1>7
<1>9. ASSUME NEW k \in 0 .. ptr - 1 PROVE Printed(piece)[k] = contents[k]
  <2>1. k \in 0 .. len - 1 /\ k < ptr /\ k # ptr + m
    BY <1>1, <1>3
  <2> QED BY <1>1, <1>5, <2>1
<1> QED BY <1>8, <1>9

(* A piece that fits is written whole, with its NUL behind it.               *)
LEMMA PrintedWhole ==
  ASSUME TypeOK, NEW piece \in Texts, FitsInRest(piece)
  PROVE  /\ ptr + Len(piece) \in 0 .. len - 1
         /\ \A k \in ptr .. ptr + Len(piece) - 1 : Printed(piece)[k] = piece[k - ptr + 1]
         /\ Printed(piece)[ptr + Len(piece)] = NUL
<1>1. /\ len \in Nat /\ ptr \in 0 .. len - 1 /\ Len(piece) \in Nat
      /\ Len(piece) < len - ptr
  BY DEF TypeOK, Texts, FitsInRest, rest
<1>2. MinOf(Len(piece), rest - 1) = Len(piece)
  BY <1>1 DEF MinOf, rest
<1>3. Printed(piece) = [k \in 0 .. len - 1 |->
                          IF ptr <= k /\ k < ptr + Len(piece) THEN piece[k - ptr + 1]
                          ELSE IF k = ptr + Len(piece) THEN NUL ELSE contents[k]]
  BY <1>2 DEF Printed
<1> QED BY <1>1, <1>3

LEMMA HeadTail ==
  ASSUME NEW S, NEW t \in Seq(S), t # <<>>
  PROVE  Head(t) \in S /\ Tail(t) \in Seq(S)
OBVIOUS

LEMMA InitIInv == Init => IInv
<1> SUFFICES ASSUME Init PROVE IInv
  OBVIOUS
<1> USE StringBufAssumption
<1>1. TypeOK
  <2>1. job \in Jobs /\ pending \in Seq(Texts)
    BY DEF Init
  <2>2. len \in Nat /\ ptr \in 0 .. len - 1 /\ result \in Texts
    BY DEF Init, Texts
  <2>3. contents \in [0 .. len - 1 -> Bytes]
    BY DEF Init, Bytes
  <2> QED BY <2>1, <2>2, <2>3 DEF TypeOK, Init
<1>2. Terminated
  BY DEF Init, Terminated
<1> QED BY <1>1, <1>2 DEF IInv, EmptyAtFirst, Init

LEMMA NextIInv == IInv /\ [Next]_vars => IInv'
<1> SUFFICES ASSUME IInv, [Next]_vars PROVE IInv'
  OBVIOUS
<1>0. TypeOK /\ Terminated /\ EmptyAtFirst
  BY DEF IInv
<1>1. CASE createStringBuf
  <2>1. STRINGBUF_INIT \in Nat \ {0} /\ NUL \in Bytes
    BY StringBufAssumption DEF Bytes
  <2>2. contents' \in [0 .. len' - 1 -> Bytes] /\ len' \in Nat /\ ptr' \in 0 .. len' - 1
    BY <1>1, <2>1 DEF createStringBuf
  <2>3. TypeOK'
    BY <1>0, <1>1, <2>2 DEF TypeOK, createStringBuf
  <2>4. Terminated'
    BY <1>1, <2>1 DEF createStringBuf, Terminated
  <2> QED BY <1>1, <2>3, <2>4 DEF IInv, EmptyAtFirst, createStringBuf
<1>2. CASE Write
  <2> DEFINE piece == Head(pending)
  <2>1. piece \in Texts /\ Tail(pending) \in Seq(Texts)
    BY <1>0, <1>2, HeadTail DEF TypeOK, Write
  <2>2. /\ ptr' = ptr + Len(piece) /\ contents' = Printed(piece) /\ len' = len
        /\ pending' = Tail(pending)
        /\ FitsInRest(piece)
    BY <1>2 DEF Write
  <2> HIDE DEF piece
  <2>3. /\ ptr' \in 0 .. len - 1 /\ contents'[ptr'] = NUL
        /\ \A k \in ptr .. ptr + Len(piece) - 1 : contents'[k] = piece[k - ptr + 1]
    <3>1. /\ ptr + Len(piece) \in 0 .. len - 1
          /\ \A k \in ptr .. ptr + Len(piece) - 1 : Printed(piece)[k] = piece[k - ptr + 1]
          /\ Printed(piece)[ptr + Len(piece)] = NUL
      BY <1>0, <2>1, <2>2, PrintedWhole
    <3> QED BY <2>2, <3>1
  <2>4. /\ contents' \in [0 .. len - 1 -> Bytes]
        /\ \A k \in 0 .. ptr - 1 : contents'[k] = contents[k]
    BY <1>0, <2>1, <2>2, PrintedType
  <2>5. TypeOK'
    BY <1>0, <1>2, <2>1, <2>2, <2>3, <2>4 DEF TypeOK, Write
  <2>6. \A k \in 0 .. ptr' - 1 : contents'[k] # NUL
    <3> TAKE k \in 0 .. ptr' - 1
    <3>1. len \in Nat /\ ptr \in Nat /\ Len(piece) \in Nat
      BY <1>0, <2>1 DEF TypeOK, Texts
    <3>2. CASE k < ptr
      BY <1>0, <2>4, <3>1, <3>2 DEF Terminated
    <3>3. CASE k >= ptr
      <4>1. k \in ptr .. ptr + Len(piece) - 1 /\ k - ptr + 1 \in 1 .. Len(piece)
        BY <2>2, <2>3, <3>1, <3>3
      <4>2. piece[k - ptr + 1] \in Chars
        BY <2>1, <4>1 DEF Texts
      <4> QED BY <2>3, <4>1, <4>2, StringBufAssumption
    <3> QED BY <3>1, <3>2, <3>3
  <2>7. Terminated'
    BY <2>3, <2>6 DEF Terminated
  <2>8. EmptyAtFirst'
    BY <1>2 DEF Write, EmptyAtFirst
  <2> QED BY <2>5, <2>7, <2>8 DEF IInv
<1>3. CASE Truncate
  <2>1. Head(pending) \in Texts
    BY <1>0, <1>3, HeadTail DEF TypeOK, Truncate
  <2>2. /\ contents' \in [0 .. len - 1 -> Bytes]
        /\ \A k \in 0 .. ptr - 1 : contents'[k] = contents[k]
    BY <1>0, <1>3, <2>1, PrintedType DEF Truncate
  <2>3. TypeOK'
    BY <1>0, <1>3, <2>2 DEF TypeOK, Truncate
  <2>4. Terminated'
    BY <1>0, <1>3, <2>2 DEF Terminated, Truncate
  <2> QED BY <1>3, <2>3, <2>4 DEF IInv, EmptyAtFirst, Truncate
<1>4. CASE extendStringBuf
  <2>1. PICK junk \in Bytes :
          contents' = [k \in 0 .. len * 2 - 1 |-> IF k < len THEN contents[k] ELSE junk]
    BY <1>4 DEF extendStringBuf, GrowLength
  <2>2. len \in Nat /\ ptr \in 0 .. len - 1 /\ contents \in [0 .. len - 1 -> Bytes]
    BY <1>0 DEF TypeOK
  <2>3. len' = len * 2 /\ ptr' = ptr /\ pending' = pending
    BY <1>4 DEF extendStringBuf, GrowLength
  <2>4. /\ contents' \in [0 .. len' - 1 -> Bytes]
        /\ \A k \in 0 .. len - 1 : contents'[k] = contents[k]
    BY <2>1, <2>2, <2>3
  <2>5. TypeOK'
    BY <1>0, <1>4, <2>2, <2>3, <2>4 DEF TypeOK, extendStringBuf
  <2>6. Terminated'
    BY <1>0, <2>2, <2>3, <2>4 DEF Terminated
  <2> QED BY <1>4, <2>5, <2>6 DEF IInv, EmptyAtFirst, extendStringBuf
<1>5. CASE Bstring
  <2>1. PICK m \in 0 .. len - 1 :
          /\ \A k \in 0 .. m - 1 : contents[k] # NUL
          /\ result' = [k \in 1 .. m |-> contents[k - 1]]
    BY <1>5 DEF Bstring
  <2>2. len \in Nat /\ contents \in [0 .. len - 1 -> Bytes]
    BY <1>0 DEF TypeOK
  <2>3. \A k \in 1 .. m : contents[k - 1] \in Chars
    BY <2>1, <2>2 DEF Bytes
  <2>4. result' \in Texts
    BY <2>1, <2>2, <2>3 DEF Texts
  <2>5. TypeOK'
    BY <1>0, <1>5, <2>4 DEF TypeOK, Bstring, stringBuf
  <2>6. Terminated'
    BY <1>0, <1>5 DEF Terminated, Bstring, stringBuf
  <2> QED BY <1>5, <2>5, <2>6 DEF IInv, EmptyAtFirst, Bstring
<1>6. CASE Ended \/ UNCHANGED vars
  BY <1>0, <1>6 DEF Ended, vars, stringBuf, IInv, TypeOK, Terminated, EmptyAtFirst, rest
<1> QED BY <1>1, <1>2, <1>3, <1>4, <1>5, <1>6 DEF Next

(* The pointer stays inside the block, and the bytes before it hold no NUL   *)
(* and are followed by one when all is printed, whatever is printed.        *)
THEOREM BufferTyped == Spec => []TypeOK
<1>1. Spec => []IInv
  BY InitIInv, NextIInv, PTL DEF Spec
<1>2. IInv => TypeOK
  BY DEF IInv
<1> QED BY <1>1, <1>2, PTL

THEOREM BufferTerminated == Spec => []Terminated
<1>1. Spec => []IInv
  BY InitIInv, NextIInv, PTL DEF Spec
<1>2. IInv => Terminated
  BY DEF IInv
<1> QED BY <1>1, <1>2, PTL

-----------------------------------------------------------------------------
(***************************************************************************)
(* The refinement.                                                         *)
(***************************************************************************)
(* A piece that is written is appended to the text.                         *)
LEMMA WriteAppends == IInv /\ Write => Appending!AppendPiece
<1> SUFFICES ASSUME IInv, Write PROVE Appending!AppendPiece
  OBVIOUS
<1> DEFINE piece == Head(pending)
<1>1. TypeOK
  BY DEF IInv
<1>2. piece \in Texts /\ pending # <<>> /\ pending' = Tail(pending)
  BY <1>1, HeadTail DEF TypeOK, Write
<1>3. /\ ptr' = ptr + Len(piece) /\ contents' = Printed(piece) /\ result' = result
      /\ FitsInRest(piece)
  BY DEF Write
<1> HIDE DEF piece
<1>4. /\ len \in Nat /\ ptr \in 0 .. len - 1 /\ contents \in [0 .. len - 1 -> Bytes]
      /\ Len(piece) \in Nat
  BY <1>1, <1>2 DEF TypeOK, Texts
<1>5. \A k \in 0 .. ptr - 1 : contents'[k] = contents[k]
  BY <1>1, <1>2, <1>3, PrintedType
<1>6. \A k \in ptr .. ptr + Len(piece) - 1 : Printed(piece)[k] = piece[k - ptr + 1]
  BY <1>1, <1>2, <1>3, PrintedWhole
<1>7. text \in Seq(Bytes) /\ Len(text) = ptr /\ piece \in Seq(Bytes)
  BY <1>2, <1>4 DEF text, Texts, Bytes
<1>8. text' = [k \in 1 .. ptr + Len(piece) |-> contents'[k - 1]]
  BY <1>3 DEF text
<1>9. \A k \in 1 .. ptr + Len(piece) :
        contents'[k - 1] = IF k <= ptr THEN text[k] ELSE piece[k - ptr]
  <2> TAKE k \in 1 .. ptr + Len(piece)
  <2>1. CASE k <= ptr
    <3>1. k - 1 \in 0 .. ptr - 1 /\ k \in 1 .. ptr
      BY <1>4, <2>1
    <3>2. text[k] = contents[k - 1]
      BY <3>1 DEF text
    <3> QED BY <1>5, <2>1, <3>1, <3>2
  <2>2. CASE ~ (k <= ptr)
    <3>1. k - 1 \in ptr .. ptr + Len(piece) - 1 /\ (k - 1) - ptr + 1 = k - ptr
      BY <1>4, <2>2
    <3> QED BY <1>3, <1>6, <2>2, <3>1
  <2> QED BY <2>1, <2>2
<1>10. /\ text \o piece \in Seq(Bytes) /\ Len(text \o piece) = ptr + Len(piece)
       /\ \A k \in 1 .. ptr + Len(piece) :
            (text \o piece)[k] = IF k <= ptr THEN text[k] ELSE piece[k - ptr]
  BY <1>7, ConcatProperties
<1>11. text' = text \o piece
  <2> DEFINE whole == text \o piece
  <2>0. whole \in Seq(Bytes) /\ Len(whole) = ptr + Len(piece)
    BY <1>10
  <2> HIDE DEF whole
  <2>1. whole = [k \in 1 .. ptr + Len(piece) |-> whole[k]]
    BY <2>0
  <2>2. \A k \in 1 .. ptr + Len(piece) : whole[k] = contents'[k - 1]
    BY <1>9, <1>10 DEF whole
  <2>3. text' = whole
    BY <1>8, <2>1, <2>2
  <2> QED BY <2>3 DEF whole
<1> QED BY <1>2, <1>3, <1>11 DEF Appending!AppendPiece, piece

(* The string made is the text: its first NUL is at ptr.                    *)
LEMMA BstringHandsOut == IInv /\ Bstring => Appending!HandOut
<1> SUFFICES ASSUME IInv, Bstring PROVE Appending!HandOut
  OBVIOUS
<1>1. /\ len \in Nat /\ ptr \in 0 .. len - 1 /\ Terminated /\ pending = <<>>
  BY DEF IInv, TypeOK, Bstring
<1>2. PICK m \in 0 .. len - 1 :
        /\ contents[m] = NUL
        /\ \A k \in 0 .. m - 1 : contents[k] # NUL
        /\ result' = [k \in 1 .. m |-> contents[k - 1]]
  BY DEF Bstring
<1>3. m = ptr
  <2>1. contents[ptr] = NUL /\ \A k \in 0 .. ptr - 1 : contents[k] # NUL
    BY <1>1 DEF Terminated
  <2>2. ~ (m < ptr)
    BY <1>1, <1>2, <2>1
  <2>3. ~ (ptr < m)
    BY <1>1, <1>2, <2>1
  <2> QED BY <1>1, <2>2, <2>3
<1>4. result' = text
  BY <1>2, <1>3 DEF text
<1>5. pending' = pending /\ contents' = contents /\ ptr' = ptr
  BY DEF Bstring, stringBuf
<1>6. text' = text
  BY <1>5 DEF text
<1> QED BY <1>1, <1>4, <1>5, <1>6 DEF Appending!HandOut

(* Creating, filling up and extending the block does not show.              *)
LEMMA GrowingStutters ==
  IInv /\ (createStringBuf \/ Truncate \/ extendStringBuf \/ Ended \/ UNCHANGED vars)
    => UNCHANGED <<text, pending, result>>
<1> SUFFICES ASSUME IInv,
                    createStringBuf \/ Truncate \/ extendStringBuf \/ Ended \/ UNCHANGED vars
             PROVE  UNCHANGED <<text, pending, result>>
  OBVIOUS
<1>1. /\ TypeOK /\ EmptyAtFirst
      /\ len \in Nat /\ ptr \in 0 .. len - 1
  BY DEF IInv, TypeOK
<1>2. pending' = pending /\ result' = result
  BY DEF createStringBuf, Truncate, extendStringBuf, Ended, vars
<1>3. ptr' = ptr /\ \A k \in 1 .. ptr : contents'[k - 1] = contents[k - 1]
  <2>1. CASE createStringBuf
    BY <1>1, <2>1 DEF createStringBuf, EmptyAtFirst
  <2>2. CASE Truncate
    <3>1. Head(pending) \in Texts
      BY <1>1, <2>2, HeadTail DEF TypeOK, Truncate
    <3>2. \A k \in 0 .. ptr - 1 : contents'[k] = contents[k]
      BY <1>1, <2>2, <3>1, PrintedType DEF Truncate
    <3>3. \A k \in 1 .. ptr : k - 1 \in 0 .. ptr - 1
      BY <1>1
    <3>4. ptr' = ptr
      BY <2>2 DEF Truncate
    <3> QED BY <3>2, <3>3, <3>4
  <2>3. CASE extendStringBuf
    <3>1. PICK junk \in Bytes :
            contents' = [k \in 0 .. len * 2 - 1 |-> IF k < len THEN contents[k] ELSE junk]
      BY <2>3 DEF extendStringBuf, GrowLength
    <3>2. \A k \in 1 .. ptr : k - 1 \in 0 .. len * 2 - 1 /\ k - 1 < len
      BY <1>1
    <3>3. ptr' = ptr
      BY <2>3 DEF extendStringBuf
    <3> QED BY <3>1, <3>2, <3>3
  <2>4. CASE Ended \/ UNCHANGED vars
    BY <2>4 DEF Ended, vars, stringBuf
  <2> QED BY <2>1, <2>2, <2>3, <2>4
<1>4. text' = text
  BY <1>3 DEF text
<1> QED BY <1>2, <1>4

(* The string buffer does what Appender promises: each piece is appended     *)
(* once and whole, and the string made at the end is all of them, for every  *)
(* sequence of pieces and every length the buffer starts with.              *)
THEOREM StringBufImplementsAppender == Spec => ImplementsAppender
<1>1. Init => Appending!Init
  <2> SUFFICES ASSUME Init PROVE Appending!Init
    OBVIOUS
  <2>1. text = <<>> /\ result = <<>>
    BY DEF Init, text
  <2>2. pending \in Seq(Texts)
    BY StringBufAssumption DEF Init
  <2> QED BY <2>1, <2>2 DEF Appending!Init
<1>2. IInv /\ [Next]_vars => [Appending!Next]_(Appending!vars)
  <2> SUFFICES ASSUME IInv, [Next]_vars
               PROVE  Appending!Next \/ UNCHANGED Appending!vars
    OBVIOUS
  <2>1. CASE Write
    BY <2>1, WriteAppends DEF Appending!Next
  <2>2. CASE Bstring
    BY <2>2, BstringHandsOut DEF Appending!Next
  <2>3. CASE createStringBuf \/ Truncate \/ extendStringBuf \/ Ended \/ UNCHANGED vars
    BY <2>3, GrowingStutters DEF Appending!vars
  <2> QED BY <2>1, <2>2, <2>3 DEF Next
<1>3. Spec => []IInv
  BY InitIInv, NextIInv, PTL DEF Spec
<1> QED BY <1>1, <1>2, <1>3, PTL DEF Spec, ImplementsAppender, Appending!Spec

-----------------------------------------------------------------------------
(***************************************************************************)
(* The tags of constructors: numbers and their digits.                     *)
(***************************************************************************)
(* A function up to m is determined by its first value and each step.       *)
StepAlike(f, g, m)   == \A k \in 1 .. m : f[k - 1] = g[k - 1] => f[k] = g[k]
SameUpto(f, g, m)    == \A k \in 0 .. m : f[k] = g[k]
Follows(f, a, G, m)  == f[0] = a /\ \A k \in 1 .. m : f[k] = G[<<k, f[k - 1]>>]

LEMMA StepsAgree ==
  ASSUME NEW m \in Nat, NEW f, NEW g, f[0] = g[0], StepAlike(f, g, m)
  PROVE  SameUpto(f, g, m)
<1> DEFINE S == {k \in Nat : k <= m => f[k] = g[k]}
<1>1. 0 \in S
  OBVIOUS
<1>2. ASSUME NEW k \in Nat, k \in S PROVE k + 1 \in S
  <2>1. CASE k + 1 <= m
    <3>1. k + 1 \in 1 .. m /\ (k + 1) - 1 = k /\ k <= m
      BY <2>1
    <3> QED BY <1>2, <3>1 DEF StepAlike
  <2> QED BY <2>1
<1> HIDE DEF S
<1>3. Nat \subseteq S
  BY <1>1, <1>2, NatSetInduction
<1> QED BY <1>3 DEF S, SameUpto

LEMMA StepsExist ==
  ASSUME NEW V, NEW a \in V, NEW m \in Nat, NEW G \in [(1 .. m) \X V -> V]
  PROVE  \E f \in [0 .. m -> V] : Follows(f, a, G, m)
<1> DEFINE Upto(j, f) == Follows(f, a, G, j)
           S == {j \in Nat : j <= m => \E f \in [0 .. j -> V] : Upto(j, f)}
<1>1. 0 \in S
  <2>1. [k \in 0 .. 0 |-> a] \in [0 .. 0 -> V] /\ Upto(0, [k \in 0 .. 0 |-> a])
    BY DEF Follows
  <2> QED BY <2>1
<1>2. ASSUME NEW j \in Nat, j \in S, j + 1 <= m PROVE j + 1 \in S
  <2>1. PICK f \in [0 .. j -> V] : Upto(j, f)
    BY <1>2
  <2>a. f[0] = a /\ \A k \in 1 .. j : f[k] = G[<<k, f[k - 1]>>]
    BY <2>1 DEF Follows
  <2> DEFINE g == [k \in 0 .. j + 1 |-> IF k <= j THEN f[k] ELSE G[<<j + 1, f[j]>>]]
  <2>2. G[<<j + 1, f[j]>>] \in V
    BY <1>2
  <2>3. g \in [0 .. j + 1 -> V]
    BY <2>2
  <2>4. g[0] = a
    BY <2>a
  <2>5. ASSUME NEW k \in 1 .. j + 1 PROVE g[k] = G[<<k, g[k - 1]>>]
    <3>1. k - 1 \in 0 .. j /\ k - 1 \in 0 .. j + 1
      OBVIOUS
    <3>2. g[k - 1] = f[k - 1]
      BY <3>1
    <3>3. CASE k <= j
      <4>1. k \in 1 .. j /\ g[k] = f[k]
        BY <3>3
      <4> HIDE DEF g
      <4> QED BY <2>a, <3>2, <4>1
    <3>4. CASE k = j + 1
      <4>1. g[k] = G[<<j + 1, f[j]>>] /\ k - 1 = j
        BY <3>4
      <4> HIDE DEF g
      <4> QED BY <3>2, <3>4, <4>1
    <3> QED BY <3>3, <3>4
  <2>6. Upto(j + 1, g)
    BY <2>4, <2>5 DEF Follows
  <2> HIDE DEF Upto, g
  <2> QED BY <2>3, <2>6
<1>3. \A j \in Nat : j \in S => j + 1 \in S
  BY <1>2
<1> HIDE DEF S
<1>4. Nat \subseteq S
  BY <1>1, <1>3, NatSetInduction
<1> QED BY <1>4 DEF S

(* The numbers d digits write.                                             *)
LEMMA PowerSteps ==
  ASSUME Hash!BASE \in Nat
  PROVE  /\ Hash!Power(0) = 1
         /\ \A d \in Nat : /\ Hash!Power(d) \in Int
                           /\ Hash!Power(d + 1) = Hash!Power(d) * Hash!BASE
<1> DEFINE B == Hash!BASE
           Steps(d, f) == f = [k \in 0 .. d |-> IF k = 0 THEN 1 ELSE f[k - 1] * B]
           F(d) == CHOOSE f : Steps(d, f)
<1>1. \A d : Hash!Power(d) = F(d)[d]
  BY DEF Hash!Power
<1>2. ASSUME NEW d \in Nat
      PROVE  \E f \in [0 .. d -> Int] : Steps(d, f)
  <2> DEFINE G == [p_ \in (1 .. d) \X Int |-> p_[2] * B]
  <2>1. G \in [(1 .. d) \X Int -> Int]
    OBVIOUS
  <2>2. \A k \in 1 .. d : \A x \in Int : G[<<k, x>>] = x * B
    OBVIOUS
  <2> HIDE DEF G, B
  <2>3. PICK f \in [0 .. d -> Int] : Follows(f, 1, G, d)
    <3>1. 1 \in Int
      OBVIOUS
    <3> QED BY ONLY <2>1, <3>1, StepsExist, d \in Nat
  <2>4. \A k \in 0 .. d : f[k] = IF k = 0 THEN 1 ELSE f[k - 1] * B
    <3>1. \A k \in 1 .. d : k - 1 \in 0 .. d
      OBVIOUS
    <3>2. \A k \in 1 .. d : f[k] = f[k - 1] * B
      BY <2>2, <2>3, <3>1 DEF Follows
    <3> QED BY <2>3, <3>2 DEF Follows
  <2>5. f = [k \in 0 .. d |-> f[k]]
    OBVIOUS
  <2>6. Steps(d, f)
    BY <2>4, <2>5
  <2> QED BY <2>6
<1>3. ASSUME NEW d \in Nat
      PROVE  /\ Steps(d, F(d))
             /\ F(d)[0] = 1
             /\ \A k \in 1 .. d : F(d)[k] = F(d)[k - 1] * B
  <2>1. Steps(d, F(d))
    BY <1>2
  <2> DEFINE f == F(d)
  <2>2. Steps(d, f)
    BY <2>1
  <2> HIDE DEF f, B
  <2>3. /\ f[0] = 1
        /\ \A k \in 1 .. d : f[k] = f[k - 1] * B
    BY <2>2
  <2> QED BY <2>1, <2>3 DEF f
<1>4. ASSUME NEW d \in Nat PROVE Hash!Power(d) \in Int
  <2>1. PICK f \in [0 .. d -> Int] : Steps(d, f)
    BY <1>2
  <2>2. F(d) \in [0 .. d -> Int]
    <3> DEFINE g == F(d)
    <3>1. \A k \in 1 .. d : f[k] = f[k - 1] * B
      BY <2>1
    <3>2. g[0] = 1 /\ \A k \in 1 .. d : g[k] = g[k - 1] * B
      BY <1>3
    <3>3. f[0] = 1
      BY <2>1
    <3>4. Steps(d, g)
      BY <1>3
    <3> HIDE DEF g, B
    <3>5. g = [k \in 0 .. d |-> g[k]]
      BY <3>4
    <3>6. StepAlike(f, g, d)
      BY <3>1, <3>2 DEF StepAlike
    <3>7. SameUpto(f, g, d)
      BY <3>2, <3>3, <3>6, StepsAgree
    <3>8. g \in [0 .. d -> Int]
      BY <3>5, <3>7 DEF SameUpto
    <3> QED BY <3>8 DEF g
  <2> HIDE DEF F
  <2> QED BY <1>1, <2>2
<1>5. ASSUME NEW d \in Nat PROVE Hash!Power(d + 1) = Hash!Power(d) * B
  <2> DEFINE f == F(d)
             g == F(d + 1)
  <2>1. /\ f[0] = 1 /\ \A k \in 1 .. d : f[k] = f[k - 1] * B
        /\ g[0] = 1 /\ \A k \in 1 .. d + 1 : g[k] = g[k - 1] * B
    BY <1>3
  <2>2. Hash!Power(d) = f[d] /\ Hash!Power(d + 1) = g[d + 1]
    BY <1>1
  <2> HIDE DEF f, g, B
  <2>3. StepAlike(f, g, d)
    BY <2>1 DEF StepAlike
  <2>3a. \A k \in 0 .. d : f[k] = g[k]
    BY <2>1, <2>3, StepsAgree DEF SameUpto
  <2>4. g[d + 1] = g[(d + 1) - 1] * B /\ (d + 1) - 1 = d
    BY <2>1
  <2> QED BY <2>2, <2>3a, <2>4
<1>6. Hash!Power(0) = 1
  BY <1>1, <1>3
<1> QED BY <1>4, <1>5, <1>6

LEMMA PowerGrows ==
  ASSUME Hash!BASE \in Nat, Hash!BASE >= 2
  PROVE  /\ \A d \in Nat : Hash!Power(d) \in Nat /\ 1 <= Hash!Power(d)
         /\ \A i, j \in Nat : i <= j => Hash!Power(i) <= Hash!Power(j)
<1> DEFINE B    == Hash!BASE
           P(d) == Hash!Power(d)
<1>1. /\ P(0) = 1 /\ B \in Nat /\ B >= 2
      /\ \A d \in Nat : P(d) \in Int /\ P(d + 1) = P(d) * B
  BY PowerSteps
<1> HIDE DEF B, P
<1> DEFINE S == {d \in Nat : 1 <= P(d)}
<1>2. 0 \in S
  BY <1>1
<1>3. ASSUME NEW d \in Nat, 1 <= P(d)
      PROVE  P(d) <= P(d + 1)
  <2> DEFINE x == P(d)
  <2>1. x \in Int /\ 1 <= x /\ P(d + 1) = x * B
    BY <1>1, <1>3
  <2> HIDE DEF x
  <2>2. x <= x * B
    BY <1>1, <2>1, Z3
  <2> QED BY <2>1, <2>2 DEF x
<1>4. \A d \in Nat : d \in S => d + 1 \in S
  <2> SUFFICES ASSUME NEW d \in Nat, d \in S PROVE d + 1 \in S
    OBVIOUS
  <2>1. P(d) \in Int /\ P(d + 1) \in Int /\ 1 <= P(d) /\ P(d) <= P(d + 1) /\ d + 1 \in Nat
    BY <1>1, <1>3
  <2> QED BY <2>1
<1> HIDE DEF S
<1>5. Nat \subseteq S
  BY <1>2, <1>4, NatSetInduction
<1>6. \A d \in Nat : P(d) \in Nat /\ 1 <= P(d)
  BY <1>1, <1>5 DEF S
<1>7. ASSUME NEW i \in Nat PROVE \A j \in Nat : i <= j => P(i) <= P(j)
  <2> DEFINE T == {j \in Nat : i <= j => P(i) <= P(j)}
  <2>1. 0 \in T
    BY <1>6
  <2>2. ASSUME NEW j \in Nat, j \in T PROVE j + 1 \in T
    <3>1. P(j) <= P(j + 1) /\ P(i) \in Nat /\ P(j) \in Nat /\ P(j + 1) \in Nat
      BY <1>3, <1>6
    <3>2. i <= j => P(i) <= P(j)
      BY <2>2
    <3>3. i <= j + 1 => i <= j \/ i = j + 1
      OBVIOUS
    <3>4. i <= j + 1 => P(i) <= P(j + 1)
      BY <3>1, <3>2, <3>3
    <3> QED BY <3>4
  <2> HIDE DEF T
  <2>3. Nat \subseteq T
    BY <2>1, <2>2, NatSetInduction
  <2> QED BY <2>3 DEF T
<1> QED BY <1>6, <1>7 DEF P

-----------------------------------------------------------------------------
(* The code of a character is a digit, and the character's own.             *)
LEMMA CodeIsDigit ==
  ASSUME Hash!Coded, NEW c \in Hash!Known
  PROVE  Hash!Code(c) \in 0 .. Hash!BASE - 1 /\ chars[Hash!Code(c) + 1] = c
<1>1. PICK k \in 1 .. Len(chars) : chars[k] = c
  BY DEF Hash!Known
<1>2. Len(chars) \in Nat /\ Hash!BASE = Len(chars)
  BY DEF Hash!Coded, Hash!BASE
<1>3. k - 1 \in 0 .. Hash!BASE - 1 /\ chars[(k - 1) + 1] = c
  BY <1>1, <1>2
<1> QED BY <1>3 DEF Hash!Code

LEMMA CodeOf ==
  ASSUME Hash!Coded, NEW k \in 1 .. Hash!BASE
  PROVE  Hash!Code(chars[k]) = k - 1 /\ chars[k] \in Hash!Known
<1>1. Len(chars) \in Nat /\ Hash!BASE = Len(chars)
  BY DEF Hash!Coded, Hash!BASE
<1>2. chars[k] \in Hash!Known
  BY <1>1 DEF Hash!Known
<1> DEFINE d == Hash!Code(chars[k])
<1>3. d \in 0 .. Hash!BASE - 1 /\ chars[d + 1] = chars[k]
  BY <1>2, CodeIsDigit
<1> HIDE DEF d
<1>4. d + 1 \in 1 .. Hash!BASE
  BY <1>1, <1>3
<1>5. d + 1 = k
  BY <1>3, <1>4 DEF Hash!Coded
<1>6. d = k - 1
  BY <1>1, <1>3, <1>5
<1> QED BY <1>2, <1>6 DEF d

(* A further digit multiplies what the others denote.                       *)
LEMMA NumberSteps ==
  ASSUME Hash!Coded
  PROVE  /\ Hash!Number(<<>>) = 0
         /\ \A t \in Seq(Hash!Known) :
              /\ Hash!Number(t) \in Int
              /\ \A c \in Hash!Known :
                   Hash!Number(Append(t, c)) = Hash!Number(t) * Hash!BASE + Hash!Code(c)
<1> DEFINE B == Hash!BASE
           K == Hash!Known
           C(c) == Hash!Code(c)
           Steps(t, f) == f = [k \in 0 .. Len(t) |->
                                 IF k = 0 THEN 0 ELSE f[k - 1] * B + C(t[k])]
           F(t) == CHOOSE f : Steps(t, f)
<1>1. \A t : Hash!Number(t) = F(t)[Len(t)]
  BY DEF Hash!Number
<1>a. B \in Nat /\ \A c \in K : C(c) \in Int
  <2>1. B \in Nat
    BY DEF Hash!Coded, Hash!BASE
  <2>2. ASSUME NEW c \in K PROVE C(c) \in Int
    <3>1. C(c) \in 0 .. B - 1
      BY CodeIsDigit
    <3> QED BY <2>1, <3>1
  <2> QED BY <2>1, <2>2
<1> HIDE DEF B, K, C
<1>2. ASSUME NEW t \in Seq(K)
      PROVE  \E f \in [0 .. Len(t) -> Int] : Steps(t, f)
  <2> DEFINE m == Len(t)
             G == [p_ \in (1 .. m) \X Int |-> p_[2] * B + C(t[p_[1]])]
  <2>1. m \in Nat /\ \A k \in 1 .. m : C(t[k]) \in Int
    BY <1>a
  <2>2. G \in [(1 .. m) \X Int -> Int]
    <3> HIDE DEF m
    <3> QED BY <1>a, <2>1
  <2>3. \A k \in 1 .. m : \A x \in Int : G[<<k, x>>] = x * B + C(t[k])
    OBVIOUS
  <2>4. m = Len(t)
    OBVIOUS
  <2> HIDE DEF G, m
  <2>5. PICK f \in [0 .. m -> Int] : Follows(f, 0, G, m)
    <3>1. 0 \in Int
      OBVIOUS
    <3> QED BY ONLY <2>1, <2>2, <3>1, StepsExist
  <2>6. \A k \in 0 .. m : f[k] = IF k = 0 THEN 0 ELSE f[k - 1] * B + C(t[k])
    <3>1. \A k \in 1 .. m : k - 1 \in 0 .. m
      BY <2>1
    <3>2. \A k \in 1 .. m : f[k] = f[k - 1] * B + C(t[k])
      BY <2>3, <2>5, <3>1 DEF Follows
    <3> QED BY <2>1, <2>5, <3>2 DEF Follows
  <2>7. f = [k \in 0 .. m |-> f[k]]
    OBVIOUS
  <2>8. f \in [0 .. Len(t) -> Int] /\ Steps(t, f)
    BY <2>4, <2>6, <2>7
  <2> QED BY <2>8
<1>3. ASSUME NEW t \in Seq(K)
      PROVE  /\ Steps(t, F(t))
             /\ F(t)[0] = 0
             /\ \A k \in 1 .. Len(t) : F(t)[k] = F(t)[k - 1] * B + C(t[k])
  <2>1. Steps(t, F(t))
    BY <1>2
  <2> DEFINE f == F(t)
  <2>2. Steps(t, f)
    BY <2>1
  <2>3. Len(t) \in Nat
    OBVIOUS
  <2> HIDE DEF f
  <2>4. /\ f[0] = 0
        /\ \A k \in 1 .. Len(t) : f[k] = f[k - 1] * B + C(t[k])
    BY <2>2, <2>3
  <2> QED BY <2>1, <2>4 DEF f
<1>4. ASSUME NEW t \in Seq(K) PROVE Hash!Number(t) \in Int
  <2> DEFINE m == Len(t)
             g == F(t)
  <2>1. PICK f \in [0 .. m -> Int] : Steps(t, f)
    BY <1>2
  <2>2. m \in Nat
    OBVIOUS
  <2>3. f[0] = 0 /\ \A k \in 1 .. m : f[k] = f[k - 1] * B + C(t[k])
    BY <2>1, <2>2
  <2>4. g[0] = 0 /\ \A k \in 1 .. m : g[k] = g[k - 1] * B + C(t[k])
    BY <1>3
  <2>5. Hash!Number(t) = g[m]
    BY <1>1
  <2> HIDE DEF g, m, Steps
  <2>6. StepAlike(f, g, m)
    BY <2>3, <2>4 DEF StepAlike
  <2>7. SameUpto(f, g, m)
    BY <2>2, <2>3, <2>4, <2>6, StepsAgree
  <2>8. f[m] = g[m] /\ f[m] \in Int
    BY <2>2, <2>7 DEF SameUpto
  <2> QED BY <2>5, <2>8
<1>5. ASSUME NEW t \in Seq(K), NEW c \in K
      PROVE  Hash!Number(Append(t, c)) = Hash!Number(t) * B + C(c)
  <2> DEFINE m == Len(t)
             u == Append(t, c)
             f == F(t)
             g == F(u)
  <2>1. /\ u \in Seq(K) /\ Len(u) = m + 1 /\ m \in Nat
        /\ u[m + 1] = c /\ \A k \in 1 .. m : u[k] = t[k]
    OBVIOUS
  <2>2. f[0] = 0 /\ \A k \in 1 .. m : f[k] = f[k - 1] * B + C(t[k])
    BY <1>3
  <2>3. g[0] = 0 /\ \A k \in 1 .. Len(u) : g[k] = g[k - 1] * B + C(u[k])
    <3> HIDE DEF u
    <3> QED BY <1>3, <2>1
  <2>4. Hash!Number(t) = f[m] /\ Hash!Number(u) = g[Len(u)]
    BY <1>1
  <2> HIDE DEF f, g, m, u
  <2>5. StepAlike(f, g, m)
    BY <2>1, <2>2, <2>3 DEF StepAlike
  <2>6. SameUpto(f, g, m)
    BY <2>1, <2>2, <2>3, <2>5, StepsAgree
  <2>7. f[m] = g[m]
    BY <2>1, <2>6 DEF SameUpto
  <2>8. m + 1 \in 1 .. Len(u) /\ (m + 1) - 1 = m
    BY <2>1
  <2>9. g[m + 1] = g[m] * B + C(c)
    BY <2>1, <2>3, <2>8
  <2>10. Hash!Number(u) = Hash!Number(t) * B + C(c)
    BY <2>1, <2>4, <2>7, <2>9
  <2> QED BY <2>10 DEF u
<1>6. Hash!Number(<<>>) = 0
  <2>1. <<>> \in Seq(K) /\ Len(<<>>) = 0
    OBVIOUS
  <2>2. F(<<>>)[0] = 0
    BY <1>3, <2>1
  <2>3. Hash!Number(<<>>) = F(<<>>)[Len(<<>>)]
    BY <1>1
  <2> HIDE DEF F
  <2> QED BY <2>1, <2>2, <2>3
<1> QED BY <1>4, <1>5, <1>6 DEF B, K, C

-----------------------------------------------------------------------------
(* A digit at the end of a number.                                         *)
LEMMA DigitAtEnd ==
  ASSUME NEW x \in Int, NEW y \in Int, NEW B \in Nat, NEW c \in Int,
         0 <= c, c < B
  PROVE  /\ x < y => x * B + c < y * B
         /\ y <= x => y * B <= x * B + c
         /\ (x * B + c) \div B = x /\ (x * B + c) % B = c
         /\ 0 <= x => 0 <= x * B + c
<1> DEFINE u == x * B
           v == y * B
<1>1. u \in Int /\ v \in Int
  OBVIOUS
<1>2. x < y => u + B <= v
  <2> SUFFICES ASSUME x < y PROVE u + B <= v
    OBVIOUS
  <2> DEFINE k == y - x - 1
  <2>1. k \in Nat /\ y = x + 1 + k
    OBVIOUS
  <2>2. v = u + B + k * B
    BY <2>1, Z3
  <2>3. 0 <= k * B
    BY <2>1, Z3
  <2>4. k * B \in Int
    BY <2>1
  <2> HIDE DEF k, u, v
  <2> QED BY <1>1, <2>2, <2>3, <2>4
<1>3. y <= x => v <= u
  <2> SUFFICES ASSUME y <= x PROVE v <= u
    OBVIOUS
  <2> DEFINE k == x - y
  <2>1. k \in Nat /\ x = y + k
    OBVIOUS
  <2>2. u = v + k * B
    BY <2>1, Z3
  <2>3. 0 <= k * B
    BY <2>1, Z3
  <2>4. k * B \in Int
    BY <2>1
  <2> HIDE DEF k, u, v
  <2> QED BY <1>1, <2>2, <2>3, <2>4
<1>4. 0 <= x => 0 <= u
  BY Z3
<1>5. (x * B + c) \div B = x /\ (x * B + c) % B = c
  BY Z3
<1> QED
  <2> HIDE DEF u, v
  <2>1. /\ x < y => u + c < v
        /\ y <= x => v <= u + c
        /\ 0 <= x => 0 <= u + c
    BY <1>1, <1>2, <1>3, <1>4
  <2> QED BY <1>5, <2>1 DEF u, v

(* A name of m characters denotes a number of m digits, of fewer when it     *)
(* begins with the first character of chars and of no fewer otherwise.     *)
Leads(t) == t # <<>> /\ t[1] # chars[1]
Bounded(t) ==
  /\ Hash!Number(t) \in Nat /\ Hash!Number(t) < Hash!Power(Len(t))
  /\ t # <<>> => IF Leads(t) THEN Hash!Power(Len(t) - 1) <= Hash!Number(t)
                 ELSE Hash!Number(t) < Hash!Power(Len(t) - 1)

LEMMA AppendBounded ==
  ASSUME Hash!Coded, NEW t \in Seq(Hash!Known), NEW c \in Hash!Known, Bounded(t)
  PROVE  Bounded(Append(t, c))
<1> DEFINE B == Hash!BASE
           x == Hash!Number(t)
           d == Hash!Code(c)
           u == Append(t, c)
           m == Len(t)
<1>1. /\ B \in Nat /\ B >= 2 /\ B = Len(chars)
  BY DEF Hash!Coded, Hash!BASE
<1>2. /\ d \in 0 .. B - 1 /\ chars[d + 1] = c
  BY CodeIsDigit
<1>3. Hash!Number(u) = x * B + d
  BY NumberSteps
<1>4. /\ m \in Nat /\ Len(u) = m + 1 /\ u # <<>>
      /\ u[1] = (IF m = 0 THEN c ELSE t[1])
      /\ (m = 0 <=> t = <<>>)
  <2>1. /\ Len(t) \in Nat /\ Len(Append(t, c)) = Len(t) + 1 /\ Append(t, c) # <<>>
        /\ (Len(t) = 0 <=> t = <<>>)
    OBVIOUS
  <2>2. CASE Len(t) = 0
    BY <2>1, <2>2
  <2>3. CASE Len(t) # 0
    <3>1. 1 \in 1 .. Len(t)
      BY <2>1, <2>3
    <3> QED BY <2>1, <2>3, <3>1
  <2> QED BY <2>2, <2>3
<1>5. /\ \A k \in Nat : Hash!Power(k) \in Nat /\ Hash!Power(k + 1) = Hash!Power(k) * B
      /\ Hash!Power(0) = 1
  BY <1>1, PowerSteps, PowerGrows
<1>6. /\ x \in Nat /\ x < Hash!Power(m)
      /\ t # <<>> => IF Leads(t) THEN Hash!Power(m - 1) <= x ELSE x < Hash!Power(m - 1)
  BY DEF Bounded
<1>7. m = 0 => x = 0
  BY <1>4, <1>5, <1>6
<1> HIDE DEF B, x, d, u, m
<1>8. x * B + d < Hash!Power(m + 1) /\ x * B + d \in Nat
  <2>1. Hash!Power(m) \in Nat /\ Hash!Power(m + 1) = Hash!Power(m) * B
    BY <1>4, <1>5
  <2>2. d \in Int /\ 0 <= d /\ d < B
    BY <1>1, <1>2
  <2>3. x * B + d < Hash!Power(m) * B /\ 0 <= x * B + d
    <3> DEFINE y == Hash!Power(m)
    <3>1. y \in Int /\ x \in Int /\ 0 <= x /\ x < y
      BY <1>6, <2>1
    <3> HIDE DEF y
    <3>2. x * B + d < y * B /\ 0 <= x * B + d
      BY ONLY <1>1, <2>2, <3>1, DigitAtEnd
    <3> QED BY <3>2 DEF y
  <2>4. x * B + d \in Int
    BY <1>1, <1>6, <2>2
  <2> QED BY <2>1, <2>3, <2>4
<1>9. CASE m = 0
  <2>1. Hash!Number(u) = d /\ u[1] = c /\ Hash!Power(m) = 1
    BY <1>1, <1>2, <1>3, <1>4, <1>5, <1>7, <1>9
  <2>2. c = chars[1] <=> d = 0
    <3>1. d + 1 \in 1 .. B /\ 1 \in 1 .. B
      BY <1>1, <1>2
    <3>2. \A j, k \in 1 .. B : chars[j] = chars[k] => j = k
      BY DEF Hash!Coded, B
    <3>3. d \in Int
      BY <1>1, <1>2
    <3> QED BY <1>2, <3>1, <3>2, <3>3
  <2>3. Len(u) - 1 = m
    BY <1>4
  <2>4. IF Leads(u) THEN 1 <= d ELSE d < 1
    BY <1>1, <1>2, <1>4, <2>1, <2>2 DEF Leads
  <2>5. IF Leads(u) THEN Hash!Power(Len(u) - 1) <= Hash!Number(u)
        ELSE Hash!Number(u) < Hash!Power(Len(u) - 1)
    BY <2>1, <2>3, <2>4
  <2>6. Hash!Number(u) \in Nat /\ Hash!Number(u) < Hash!Power(Len(u))
    BY <1>3, <1>4, <1>8
  <2> QED BY <2>5, <2>6 DEF Bounded, u
<1>10. CASE m # 0
  <2>1. m - 1 \in Nat /\ (m - 1) + 1 = m /\ Len(u) - 1 = m /\ t # <<>>
    BY <1>4, <1>10
  <2>2. Hash!Power(m - 1) \in Nat /\ Hash!Power(m) = Hash!Power(m - 1) * B
    BY <1>5, <2>1
  <2>3. d \in Int /\ 0 <= d /\ d < B
    BY <1>1, <1>2
  <2>4. /\ x < Hash!Power(m - 1) => x * B + d < Hash!Power(m)
        /\ Hash!Power(m - 1) <= x => Hash!Power(m) <= x * B + d
    <3> DEFINE y == Hash!Power(m - 1)
    <3>1. y \in Int /\ x \in Int /\ Hash!Power(m) = y * B
      BY <1>6, <2>2
    <3> HIDE DEF y
    <3>2. (x < y => x * B + d < y * B) /\ (y <= x => y * B <= x * B + d)
      BY ONLY <1>1, <2>3, <3>1, DigitAtEnd
    <3> QED BY <3>1, <3>2 DEF y
  <2>5. Leads(u) <=> Leads(t)
    BY <1>4, <1>10, <2>1 DEF Leads
  <2>6. IF Leads(u) THEN Hash!Power(m) <= x * B + d ELSE x * B + d < Hash!Power(m)
    BY <1>6, <2>1, <2>4, <2>5
  <2>7. IF Leads(u) THEN Hash!Power(Len(u) - 1) <= Hash!Number(u)
        ELSE Hash!Number(u) < Hash!Power(Len(u) - 1)
    BY <1>3, <2>1, <2>6
  <2>8. Hash!Number(u) \in Nat /\ Hash!Number(u) < Hash!Power(Len(u))
    BY <1>3, <1>4, <1>8
  <2> QED BY <2>7, <2>8 DEF Bounded, u
<1> QED BY <1>9, <1>10 DEF u

LEMMA NumberBounded ==
  ASSUME Hash!Coded, NEW t \in Seq(Hash!Known)
  PROVE  Bounded(t)
<1> DEFINE K == Hash!Known
           S == {m \in Nat : \A u \in Seq(K) : Len(u) = m => Bounded(u)}
<1>1. 0 \in S
  <2> SUFFICES ASSUME NEW u \in Seq(K), Len(u) = 0 PROVE Bounded(u)
    OBVIOUS
  <2>1. u = <<>>
    OBVIOUS
  <2>2. Hash!Number(<<>>) = 0
    BY NumberSteps
  <2>3. Hash!Power(0) = 1
    BY PowerSteps DEF Hash!Coded, Hash!BASE
  <2> QED BY <2>1, <2>2, <2>3 DEF Bounded
<1>2. ASSUME NEW m \in Nat, m \in S PROVE m + 1 \in S
  <2> SUFFICES ASSUME NEW u \in Seq(K), Len(u) = m + 1 PROVE Bounded(u)
    OBVIOUS
  <2> DEFINE v == SubSeq(u, 1, m)
             c == u[m + 1]
  <2>1. v \in Seq(K) /\ Len(v) = m /\ c \in K
    OBVIOUS
  <2>2. u = Append(v, c)
    OBVIOUS
  <2>3. Bounded(v)
    BY <1>2, <2>1
  <2> HIDE DEF v, c
  <2>4. Bounded(Append(v, c))
    BY <2>1, <2>3, AppendBounded
  <2> QED BY <2>2, <2>4
<1> HIDE DEF S
<1>3. Nat \subseteq S
  BY <1>1, <1>2, NatSetInduction
<1>4. Len(t) \in Nat
  OBVIOUS
<1> QED BY <1>3, <1>4 DEF S

-----------------------------------------------------------------------------
(***************************************************************************)
(* LtagHash and de_hash.  Opening(k) is the k characters LtagHash has hashed.  *)
(* The digits de_hash has written are the last of them, and the number it   *)
(* has left denotes the others.                                            *)
(***************************************************************************)
Opening(k) == SubSeq(s, 1, k)

Hashed == /\ p = limit + 1
          /\ \A k \in 1 .. limit : s[k] \in Hash!Known
          /\ h = Hash!Number(Opening(limit))

Stopped == limit = Len(s) \/ limit = MAX_SEXP_TAGLEN

Digits(d) ==
  /\ d \in 0 .. limit /\ n = Hash!Number(Opening(limit - d))
  /\ buf[MAX_SEXP_TAGLEN] = NUL
  /\ \A i \in 1 .. d : buf[MAX_SEXP_TAGLEN - i] = s[limit + 1 - i]
  /\ d > 0 => Hash!Number(Opening(limit - d + 1)) # 0

Compared == Hashed /\ Stopped /\ n = 0 /\ Digits(MAX_SEXP_TAGLEN - q)

TagTyped ==
  /\ pc \in {"hash", "unpack", "compare", "accepted", "refused"}
  /\ s \in Names
  /\ limit \in 0 .. MAX_SEXP_TAGLEN /\ limit <= Len(s)
  /\ p \in 1 .. Len(s) + 1
  /\ buf \in [0 .. MAX_SEXP_TAGLEN -> Hash!Known \cup {NUL}]
  /\ q \in -1 .. MAX_SEXP_TAGLEN

TagInv ==
  /\ TagTyped
  /\ pc = "hash"     => Hashed
  /\ pc = "unpack"   => Hashed /\ Stopped /\ Digits(MAX_SEXP_TAGLEN - 1 - q)
  /\ pc = "compare"  => Compared
  /\ pc = "accepted" => Compared /\ Hash!SamePrefix
  /\ pc = "refused"  => ~ Strings!Hashable(s)

LEMMA NameType ==
  ASSUME Hash!Coded, TagTyped
  PROVE  /\ s \in Seq(Hash!Known \cup Others) /\ Len(s) \in Nat
         /\ \A k \in 1 .. Len(s) : s[k] # NUL
         /\ limit \in Nat /\ MAX_SEXP_TAGLEN \in Nat /\ 1 <= MAX_SEXP_TAGLEN
         /\ limit <= MAX_SEXP_TAGLEN /\ limit <= Len(s) /\ q \in Int
<1>1. s \in Seq(Hash!Known \cup Others)
  BY DEF Hash!Coded, TagTyped
<1>2. NUL \notin Hash!Known \cup Others /\ MAX_SEXP_TAGLEN \in Nat /\ 1 <= MAX_SEXP_TAGLEN
  BY DEF Hash!Coded
<1>3. Len(s) \in Nat /\ \A k \in 1 .. Len(s) : s[k] \in Hash!Known \cup Others
  BY <1>1
<1>4. limit \in 0 .. MAX_SEXP_TAGLEN /\ limit <= Len(s) /\ q \in -1 .. MAX_SEXP_TAGLEN
  BY DEF TagTyped
<1>5. \A k \in 1 .. Len(s) : s[k] # NUL
  BY <1>2, <1>3
<1>6. limit \in Nat /\ limit <= MAX_SEXP_TAGLEN /\ q \in Int
  BY <1>2, <1>4
<1> QED BY <1>1, <1>2, <1>3, <1>4, <1>5, <1>6

(* What is hashed so far is one more digit after what was hashed before.    *)
LEMMA OpeningSteps ==
  ASSUME Hash!Coded, TagTyped, NEW m \in Nat, m <= Len(s),
         \A k \in 1 .. m : s[k] \in Hash!Known
  PROVE  /\ Opening(m) \in Seq(Hash!Known) /\ Len(Opening(m)) = m
         /\ Hash!Number(Opening(m)) \in Nat /\ Hash!Number(Opening(m)) < Hash!Power(m)
         /\ m = 0 => Hash!Number(Opening(m)) = 0
         /\ m > 0 => IF s[1] # chars[1]
                     THEN Hash!Power(m - 1) <= Hash!Number(Opening(m))
                     ELSE Hash!Number(Opening(m)) < Hash!Power(m - 1)
         /\ m > 0 => Hash!Number(Opening(m))
                       = Hash!Number(Opening(m - 1)) * Hash!BASE + Hash!Code(s[m])
<1>1. Len(s) \in Nat /\ s \in Seq(Hash!Known \cup Others)
  BY NameType
<1>2. \A j \in 0 .. m : Opening(j) \in Seq(Hash!Known) /\ Len(Opening(j)) = j
  <2> TAKE j \in 0 .. m
  <2>1. Opening(j) = [k \in 1 .. j |-> s[k]]
    BY <1>1 DEF Opening
  <2>2. \A k \in 1 .. j : s[k] \in Hash!Known
    OBVIOUS
  <2> QED BY <2>1, <2>2
<1>3. m \in 0 .. m
  OBVIOUS
<1>4. Bounded(Opening(m))
  BY <1>2, <1>3, NumberBounded
<1>5. m = 0 => Opening(m) = <<>>
  BY <1>2, <1>3
<1>6. m = 0 => Hash!Number(Opening(m)) = 0
  BY <1>5, NumberSteps
<1>7. m > 0 => Opening(m) # <<>> /\ Opening(m)[1] = s[1]
  BY <1>1, <1>2, <1>3 DEF Opening
<1>8. m > 0 => Hash!Number(Opening(m))
                 = Hash!Number(Opening(m - 1)) * Hash!BASE + Hash!Code(s[m])
  <2> SUFFICES ASSUME m > 0
               PROVE  Hash!Number(Opening(m))
                        = Hash!Number(Opening(m - 1)) * Hash!BASE + Hash!Code(s[m])
    OBVIOUS
  <2>1. m - 1 \in 0 .. m /\ m \in 1 .. m
    OBVIOUS
  <2>2. Opening(m) = Append(Opening(m - 1), s[m])
    BY <1>1, <2>1 DEF Opening
  <2>3. Opening(m - 1) \in Seq(Hash!Known) /\ s[m] \in Hash!Known
    BY <1>2, <2>1
  <2> QED BY <2>2, <2>3, NumberSteps
<1> QED BY <1>2, <1>3, <1>4, <1>6, <1>7, <1>8 DEF Bounded, Leads

(* A word holds the tag of every name, and the bit of its box.              *)
LEMMA WordHolds ==
  ASSUME Hash!Coded, NEW m \in 0 .. MAX_SEXP_TAGLEN, NEW x \in Nat, x < Hash!Power(m)
  PROVE  Hash!Word(x) = x /\ Hash!UNBOX(Hash!BOX(x)) = x
<1> DEFINE W == WORD \div 2
           P == Hash!Power(MAX_SEXP_TAGLEN)
<1>1. W \in Nat /\ WORD = 2 * W /\ 2 * P <= W
  BY DEF Hash!Coded
<1>2. MAX_SEXP_TAGLEN \in Nat /\ Hash!BASE \in Nat /\ Hash!BASE >= 2
  BY DEF Hash!Coded, Hash!BASE
<1>3. m \in Nat /\ m <= MAX_SEXP_TAGLEN
  BY <1>2
<1>4. Hash!Power(m) <= P /\ P \in Nat /\ Hash!Power(m) \in Nat
  BY <1>2, <1>3, PowerGrows
<1>5. \A y : Hash!Word(y) = ((y + W) % WORD) - W
  BY DEF Hash!Word
<1> HIDE DEF W, P
<1>6. x < P
  BY <1>4
<1>7. ASSUME NEW y \in Nat, y < W PROVE Hash!Word(y) = y
  <2>1. (y + W) % WORD = y + W
    BY <1>1, <1>7
  <2> QED BY <1>1, <1>5, <2>1
<1>8. x < W /\ 2 * x + 1 < W /\ 2 * x + 1 \in Nat
  BY <1>1, <1>4, <1>6
<1>9. Hash!Word(x) = x /\ Hash!Word(2 * x + 1) = 2 * x + 1
  BY <1>7, <1>8
<1>10. (2 * x + 1) \div 2 = x
  OBVIOUS
<1> QED BY <1>9, <1>10 DEF Hash!BOX, Hash!UNBOX

-----------------------------------------------------------------------------
(* The name comes back whole unless its first digit is zero.                *)
LEMMA WholeUnlessZero ==
  ASSUME Hash!Coded, TagTyped, Compared
  PROVE  q = MAX_SEXP_TAGLEN - limit <=> (limit = 0 \/ s[1] # chars[1])
<1> DEFINE d == MAX_SEXP_TAGLEN - q
<1>1. /\ limit \in Nat /\ limit <= Len(s) /\ Len(s) \in Nat
      /\ MAX_SEXP_TAGLEN \in Nat /\ q \in Int
  BY NameType
<1>2. /\ \A k \in 1 .. limit : s[k] \in Hash!Known
      /\ d \in 0 .. limit /\ Hash!Number(Opening(limit - d)) = 0
      /\ d > 0 => Hash!Number(Opening(limit - d + 1)) # 0
  BY DEF Compared, Hashed, Digits
<1>3. q = MAX_SEXP_TAGLEN - limit <=> d = limit
  BY <1>1
<1> HIDE DEF d
<1>4. CASE d = limit
  <2>1. CASE limit = 0
    BY <1>3, <1>4, <2>1
  <2>2. CASE limit # 0
    <3>1. d > 0 /\ limit - d + 1 = 1 /\ 1 <= Len(s) /\ 1 \in 1 .. limit
      BY <1>1, <1>4, <2>2
    <3>2. Hash!Number(Opening(1)) # 0
      BY <1>2, <3>1
    <3>3. \A k \in 1 .. 1 : s[k] \in Hash!Known
      BY <1>2, <3>1
    <3>4. Hash!Number(Opening(1)) \in Nat
      BY <3>1, <3>3, OpeningSteps
    <3>5. s[1] = chars[1] => Hash!Number(Opening(1)) < Hash!Power(0)
      <4>1. 1 - 1 = 0 /\ 1 > 0 /\ 1 \in Nat
        OBVIOUS
      <4> QED BY <3>1, <3>3, <4>1, OpeningSteps
    <3>6. Hash!Power(0) = 1
      BY PowerSteps DEF Hash!Coded, Hash!BASE
    <3>7. s[1] # chars[1]
      BY <3>2, <3>4, <3>5, <3>6
    <3> QED BY <1>3, <1>4, <3>7
  <2> QED BY <2>1, <2>2
<1>5. CASE d # limit
  <2> DEFINE m == limit - d
  <2>1. m \in Nat /\ m > 0 /\ m <= Len(s) /\ m - 1 \in Nat /\ limit # 0
    BY <1>1, <1>2, <1>5
  <2>2. \A k \in 1 .. m : s[k] \in Hash!Known
    BY <1>1, <1>2
  <2>3. Hash!Number(Opening(m)) = 0
    BY <1>2
  <2> HIDE DEF m
  <2>4. 1 <= Hash!Power(m - 1) /\ Hash!Power(m - 1) \in Nat
    <3>1. Hash!BASE \in Nat /\ Hash!BASE >= 2
      BY DEF Hash!Coded, Hash!BASE
    <3> QED BY <2>1, <3>1, PowerGrows
  <2>5. s[1] # chars[1] => Hash!Power(m - 1) <= Hash!Number(Opening(m))
    BY <2>1, <2>2, OpeningSteps
  <2>6. s[1] = chars[1]
    BY <2>3, <2>4, <2>5
  <2> QED BY <1>3, <1>5, <2>1, <2>6
<1> QED BY <1>4, <1>5

(* strncmp finds them equal when the name comes back whole, and only then:   *)
(* it meets the NUL of the buffer too early otherwise.                      *)
LEMMA EqualWhenWhole ==
  ASSUME Hash!Coded, TagTyped, Compared
  PROVE  Hash!SamePrefix <=> q = MAX_SEXP_TAGLEN - limit
<1> DEFINE M == MAX_SEXP_TAGLEN
           d == M - q
           N(k) == Hash!NameAt(k)
           H(k) == Hash!HashAt(k)
<1>1. /\ limit \in Nat /\ limit <= Len(s) /\ Len(s) \in Nat /\ limit <= M
      /\ M \in Nat /\ q \in Int /\ \A k \in 1 .. Len(s) : s[k] # NUL
  BY NameType
<1>2. /\ d \in 0 .. limit /\ buf[M] = NUL
      /\ \A i \in 1 .. d : buf[M - i] = s[limit + 1 - i]
      /\ limit = Len(s) \/ limit = M
  BY DEF Compared, Digits, Stopped
<1>3. /\ d \in Int /\ d + q = M /\ (q = M - limit <=> d = limit)
  BY <1>1
<1>4. \A k : N(k) = (IF k < Len(s) THEN s[k + 1] ELSE NUL) /\ H(k) = buf[q + k]
  BY DEF Hash!NameAt, Hash!HashAt
<1>5. Hash!SamePrefix <=>
        \A k \in 0 .. M - 1 : (\A j \in 0 .. k - 1 : N(j) = H(j) /\ N(j) # NUL) => N(k) = H(k)
  BY DEF Hash!SamePrefix
<1> HIDE DEF M, d, N, H
<1>6. \A k \in Nat : k < Len(s) => N(k) # NUL
  <2> TAKE k \in Nat
  <2>1. k < Len(s) => k + 1 \in 1 .. Len(s)
    BY <1>1
  <2> QED BY <1>1, <1>4, <2>1
<1>7. H(d) = NUL
  BY <1>1, <1>2, <1>3, <1>4
<1>8. ASSUME NEW k \in Nat, k < d PROVE H(k) = s[limit + 1 - (d - k)]
  <2>1. d - k \in 1 .. d /\ M - (d - k) = q + k
    BY <1>1, <1>2, <1>3, <1>8
  <2> QED BY <1>2, <1>4, <2>1
<1>9. ASSUME d = limit PROVE Hash!SamePrefix
  <2> SUFFICES ASSUME NEW k \in 0 .. M - 1,
                      \A j \in 0 .. k - 1 : N(j) = H(j) /\ N(j) # NUL
               PROVE  N(k) = H(k)
    BY <1>5
  <2>1. k \in Nat /\ k < M
    BY <1>1
  <2>2. CASE k < limit
    <3>1. H(k) = s[k + 1]
      <4>1. limit + 1 - (d - k) = k + 1
        BY <1>1, <1>9, <2>1
      <4> QED BY <1>8, <1>9, <2>1, <2>2, <4>1
    <3>2. k < Len(s)
      BY <1>1, <2>1, <2>2
    <3> QED BY <1>4, <3>1, <3>2
  <2>3. CASE k = limit
    <3>1. limit = Len(s)
      BY <1>1, <1>2, <2>1, <2>3
    <3>2. N(k) = NUL
      BY <1>1, <1>4, <2>3, <3>1
    <3> QED BY <1>7, <1>9, <2>3, <3>2
  <2>4. CASE k > limit
    <3>1. limit = Len(s) /\ limit \in 0 .. k - 1
      BY <1>1, <1>2, <2>1, <2>4
    <3>2. N(limit) = NUL
      BY <1>1, <1>4, <3>1
    <3> QED BY <3>1, <3>2
  <2> QED BY <1>1, <2>1, <2>2, <2>3, <2>4
<1>10. ASSUME Hash!SamePrefix, d # limit PROVE FALSE
  <2>1. d \in Nat /\ d < limit /\ d \in 0 .. M - 1 /\ d < Len(s)
    BY <1>1, <1>2, <1>10
  <2> DEFINE Differ == {k \in 0 .. M - 1 : N(k) # H(k)}
  <2>2. d \in Differ
    BY <1>6, <1>7, <2>1
  <2>3. Differ \in SUBSET Nat
    BY <1>1
  <2> HIDE DEF Differ
  <2>4. PICK m \in Differ : \A k \in Differ : m <= k
    BY <2>2, <2>3, LeastNatural
  <2>5. m \in Nat /\ m <= d /\ m \in 0 .. M - 1 /\ N(m) # H(m)
    BY <2>2, <2>3, <2>4 DEF Differ
  <2>6. ASSUME NEW j \in 0 .. m - 1 PROVE N(j) = H(j) /\ N(j) # NUL
    <3>1. j \in Nat /\ j < m /\ j < Len(s) /\ j \in 0 .. M - 1
      BY <1>1, <2>1, <2>5
    <3>2. ~ (m <= j)
      BY <2>5, <3>1
    <3>3. j \notin Differ
      BY <2>4, <3>2
    <3>4. N(j) = H(j)
      BY <3>1, <3>3 DEF Differ
    <3> QED BY <1>6, <3>1, <3>4
  <2>7. N(m) = H(m)
    BY <1>5, <1>10, <2>5, <2>6
  <2> QED BY <2>5, <2>7
<1> QED BY <1>3, <1>9, <1>10 DEF M

(* What is hashed to the end is hashable unless its first digit is zero.    *)
LEMMA HashableUnlessZero ==
  ASSUME Hash!Coded, TagTyped, Hashed, Stopped
  PROVE  Strings!Hashable(s) <=> (limit = 0 \/ s[1] # chars[1])
<1>1. /\ limit \in Nat /\ limit <= Len(s) /\ Len(s) \in Nat /\ limit <= MAX_SEXP_TAGLEN
      /\ MAX_SEXP_TAGLEN \in Nat /\ 1 <= MAX_SEXP_TAGLEN
      /\ s \in Seq(Hash!Known \cup Others)
  BY NameType
<1>2. limit = Len(s) \/ limit = MAX_SEXP_TAGLEN
  BY DEF Stopped
<1>3. \A k \in 1 .. limit : \E j \in 1 .. Len(chars) : chars[j] = s[k]
  BY DEF Hashed, Hash!Known
<1>4. \A k \in 1 .. Len(s) : k <= MAX_SEXP_TAGLEN => k \in 1 .. limit
  BY <1>1, <1>2
<1>5. s # <<>> <=> limit # 0
  <2>1. s # <<>> <=> Len(s) # 0
    BY <1>1
  <2> QED BY <1>1, <1>2, <2>1
<1> QED BY <1>3, <1>4, <1>5 DEF Strings!Hashable

-----------------------------------------------------------------------------
(* Each step keeps the invariant.                                          *)
LEMMA TagInit == ASSUME Hash!Coded, Hash!Init PROVE TagInv
<1>1. /\ pc = "hash" /\ s \in Names /\ p = 1 /\ limit = 0 /\ h = 0 /\ q = MAX_SEXP_TAGLEN
      /\ buf \in [0 .. MAX_SEXP_TAGLEN -> Hash!Known \cup {NUL}]
  BY DEF Hash!Init
<1>2. MAX_SEXP_TAGLEN \in Nat /\ s \in Seq(Hash!Known \cup Others)
  BY <1>1 DEF Hash!Coded
<1>3. Len(s) \in Nat
  BY <1>2
<1>4. TagTyped
  BY <1>1, <1>2, <1>3 DEF TagTyped
<1>5. Hash!Number(Opening(0)) = 0
  BY <1>3, <1>4, OpeningSteps
<1>6. Hashed
  BY <1>1, <1>5 DEF Hashed
<1> QED BY <1>1, <1>4, <1>6 DEF TagInv

LEMMA ScanKeeps == ASSUME Hash!Coded, TagInv, Hash!Scan PROVE TagInv'
<1>1. /\ pc = "hash" /\ pc' = "hash" /\ TagTyped /\ Hashed
      /\ s' = s /\ buf' = buf /\ n' = n /\ q' = q /\ limit' = limit + 1 /\ p' = p + 1
      /\ p <= Len(s) /\ limit < MAX_SEXP_TAGLEN
  BY DEF Hash!Scan, Hash!Keeps, Hash!unpacking, TagInv
<1>2. PICK k \in 1 .. Len(chars) : chars[k] = s[p] /\ h' = Hash!Pack(k - 1)
  BY DEF Hash!Scan
<1>3. /\ limit \in Nat /\ Len(s) \in Nat /\ MAX_SEXP_TAGLEN \in Nat /\ p = limit + 1
      /\ h = Hash!Number(Opening(limit))
      /\ \A j \in 1 .. limit : s[j] \in Hash!Known
  BY <1>1, NameType DEF Hashed
<1> DEFINE m == limit + 1
<1>4. /\ m \in Nat /\ m > 0 /\ m <= Len(s) /\ m - 1 = limit /\ m = p
      /\ m \in 0 .. MAX_SEXP_TAGLEN
  BY <1>1, <1>3
<1>5. k \in 1 .. Hash!BASE
  BY DEF Hash!BASE
<1>6. s[m] \in Hash!Known /\ Hash!Code(s[m]) = k - 1
  BY <1>2, <1>4, <1>5, CodeOf
<1>7. \A j \in 1 .. m : s[j] \in Hash!Known
  <2> TAKE j \in 1 .. m
  <2>1. j \in 1 .. limit \/ j = m
    BY <1>3
  <2> QED BY <1>3, <1>6, <2>1
<1> HIDE DEF m
<1>8. /\ Hash!Number(Opening(m)) \in Nat /\ Hash!Number(Opening(m)) < Hash!Power(m)
      /\ Hash!Number(Opening(m)) = Hash!Number(Opening(m - 1)) * Hash!BASE + Hash!Code(s[m])
  BY <1>1, <1>4, <1>7, OpeningSteps
<1>9. Hash!Number(Opening(m)) = h * Hash!BASE + (k - 1)
  BY <1>3, <1>4, <1>6, <1>8
<1>10. h' = Hash!Number(Opening(m))
  <2>1. Hash!Word(Hash!Number(Opening(m))) = Hash!Number(Opening(m))
    BY <1>4, <1>8, WordHolds
  <2> QED BY <1>2, <1>9, <2>1 DEF Hash!Pack
<1>11. limit' = m /\ p' = m + 1
  BY <1>1, <1>4 DEF m
<1>12. Hashed'
  <2>1. h' = Hash!Number(SubSeq(s', 1, limit'))
    BY <1>1, <1>10, <1>11 DEF Opening
  <2>2. \A j \in 1 .. limit' : s'[j] \in Hash!Known
    BY <1>1, <1>7, <1>11
  <2> QED BY <1>11, <2>1, <2>2 DEF Hashed, Opening
<1>13. TagTyped'
  <2>1. m \in 0 .. MAX_SEXP_TAGLEN /\ m <= Len(s) /\ m + 1 \in 1 .. Len(s) + 1
    BY <1>3, <1>4
  <2> QED BY <1>1, <1>11, <2>1 DEF TagTyped
<1> QED BY <1>1, <1>12, <1>13 DEF TagInv

LEMMA UnknownKeeps == ASSUME Hash!Coded, TagInv, Hash!Unknown PROVE TagInv'
<1>1. /\ pc = "hash" /\ pc' = "refused" /\ TagTyped /\ Hashed
      /\ s' = s /\ buf' = buf /\ q' = q /\ limit' = limit + 1 /\ p' = p
      /\ p <= Len(s) /\ limit < MAX_SEXP_TAGLEN /\ s[p] \notin Hash!Known
  BY DEF Hash!Unknown, Hash!Keeps, Hash!Found, Hash!unpacking, TagInv
<1>2. limit \in Nat /\ Len(s) \in Nat /\ MAX_SEXP_TAGLEN \in Nat /\ p = limit + 1
  BY <1>1, NameType DEF Hashed
<1>3. /\ limit + 1 \in 0 .. MAX_SEXP_TAGLEN /\ limit + 1 <= Len(s)
      /\ p \in 1 .. Len(s) /\ p <= MAX_SEXP_TAGLEN
  BY <1>1, <1>2
<1>4. ~ \E j \in 1 .. Len(chars) : chars[j] = s[p]
  BY <1>1 DEF Hash!Known
<1>5. ~ Strings!Hashable(s)
  BY <1>3, <1>4 DEF Strings!Hashable
<1>6. TagTyped'
  BY <1>1, <1>3 DEF TagTyped
<1> QED BY <1>1, <1>5, <1>6 DEF TagInv

LEMMA StartUnpackKeeps == ASSUME Hash!Coded, TagInv, Hash!StartUnpack PROVE TagInv'
<1> DEFINE M == MAX_SEXP_TAGLEN
<1>1. /\ pc = "hash" /\ pc' = "unpack" /\ TagTyped /\ Hashed
      /\ s' = s /\ p' = p /\ limit' = limit /\ h' = h /\ n' = h /\ q' = M - 1
      /\ buf' = [buf EXCEPT ![M] = NUL]
      /\ ~ (p <= Len(s) /\ limit < M)
  BY DEF Hash!StartUnpack, Hash!Keeps, Hash!hashing, TagInv
<1>2. /\ limit \in Nat /\ limit <= Len(s) /\ Len(s) \in Nat /\ M \in Nat /\ 1 <= M
      /\ limit <= M /\ p = limit + 1 /\ h = Hash!Number(Opening(limit))
  BY <1>1, NameType DEF Hashed
<1>3. Stopped'
  <2>1. limit = Len(s) \/ limit = M
    BY <1>1, <1>2
  <2> QED BY <1>1, <2>1 DEF Stopped
<1>4. Hashed'
  BY <1>1 DEF Hashed, Opening
<1>5. buf \in [0 .. M -> Hash!Known \cup {NUL}]
  BY <1>1 DEF TagTyped
<1>6. buf' \in [0 .. M -> Hash!Known \cup {NUL}] /\ buf'[M] = NUL
  BY <1>1, <1>2, <1>5
<1>7. TagTyped'
  <2>1. M - 1 \in -1 .. M
    BY <1>2
  <2> QED BY <1>1, <1>6, <2>1 DEF TagTyped
<1>8. Digits(M - 1 - q)'
  <2>1. M - 1 - q' = 0 /\ limit - 0 = limit /\ 0 \in 0 .. limit /\ 1 .. 0 = {}
    BY <1>1, <1>2
  <2> DEFINE d == M - 1 - q'
  <2>2. d = 0
    BY <2>1
  <2>3. n' = Hash!Number(SubSeq(s', 1, limit' - d))
    BY <1>1, <1>2, <2>1, <2>2 DEF Opening
  <2>4. \A i \in 1 .. d : buf'[M - i] = s'[limit' + 1 - i]
    BY <2>1, <2>2
  <2>5. d \in 0 .. limit' /\ ~ (d > 0)
    BY <1>1, <2>1, <2>2
  <2> HIDE DEF d
  <2>6. /\ d \in 0 .. limit' /\ n' = Hash!Number(SubSeq(s', 1, limit' - d))
        /\ buf'[M] = NUL
        /\ \A i \in 1 .. d : buf'[M - i] = s'[limit' + 1 - i]
        /\ d > 0 => Hash!Number(SubSeq(s', 1, limit' - d + 1)) # 0
    BY <1>6, <2>3, <2>4, <2>5
  <2> QED BY <2>6 DEF Digits, Opening, d
<1> QED BY <1>1, <1>3, <1>4, <1>7, <1>8 DEF TagInv

LEMMA UnpackKeeps == ASSUME Hash!Coded, TagInv, Hash!Unpack PROVE TagInv'
<1> DEFINE M == MAX_SEXP_TAGLEN
           B == Hash!BASE
           d == M - 1 - q
           m == limit - d
           rest_ == Hash!Number(Opening(m - 1))
           c == Hash!Code(s[m])
<1>1. /\ pc = "unpack" /\ pc' = "unpack" /\ TagTyped /\ Hashed /\ Stopped /\ Digits(d)
      /\ s' = s /\ p' = p /\ limit' = limit /\ h' = h
      /\ n # 0 /\ n' = n \div B /\ q' = q - 1
      /\ buf' = [buf EXCEPT ![q] = chars[(n % B) + 1]]
  BY DEF Hash!Unpack, Hash!Digit, Hash!hashing, TagInv
<1>2. /\ limit \in Nat /\ limit <= Len(s) /\ Len(s) \in Nat /\ M \in Nat /\ 1 <= M
      /\ limit <= M /\ q \in Int
  BY <1>1, NameType
<1>3. /\ \A k \in 1 .. limit : s[k] \in Hash!Known
  BY <1>1 DEF Hashed
<1>4. /\ d \in 0 .. limit /\ n = Hash!Number(Opening(m)) /\ buf[M] = NUL
      /\ \A i \in 1 .. d : buf[M - i] = s[limit + 1 - i]
  BY <1>1 DEF Digits
<1>5. /\ m \in Nat /\ m <= Len(s) /\ d \in Nat /\ m <= limit
      /\ \A k \in 1 .. m : s[k] \in Hash!Known
  BY <1>2, <1>3, <1>4
<1>6. m > 0
  <2>1. m = 0 => Hash!Number(Opening(m)) = 0
    <3> HIDE DEF m
    <3> QED BY <1>1, <1>5, OpeningSteps
  <2> QED BY <1>1, <1>4, <1>5, <2>1
<1>7. /\ q \in 0 .. M /\ q = M - (d + 1) /\ m = limit + 1 - (d + 1)
      /\ d + 1 \in 0 .. limit /\ M - 1 - q' = d + 1 /\ m - 1 = limit - (d + 1)
      /\ m - 1 \in Nat /\ m - 1 <= Len(s) /\ q - 1 \in -1 .. M
  BY <1>1, <1>2, <1>4, <1>5, <1>6
<1>8. s[m] \in Hash!Known
  <2>1. m \in 1 .. m
    BY <1>5, <1>6
  <2> QED BY <1>5, <2>1
<1>9. c \in 0 .. B - 1 /\ chars[c + 1] = s[m]
  BY <1>8, CodeIsDigit
<1>10. n = rest_ * B + c
  <2> HIDE DEF m, d
  <2> QED BY <1>1, <1>4, <1>5, <1>6, OpeningSteps
<1>11. rest_ \in Nat
  <2>1. \A k \in 1 .. m - 1 : s[k] \in Hash!Known
    BY <1>5
  <2> DEFINE j == m - 1
  <2>2. j \in Nat /\ j <= Len(s) /\ \A k \in 1 .. j : s[k] \in Hash!Known
    BY <1>7, <2>1
  <2> HIDE DEF j, m, d
  <2>3. Hash!Number(Opening(j)) \in Nat
    BY <1>1, <2>2, OpeningSteps
  <2> QED BY <2>3 DEF j
<1>12. B \in Nat /\ B >= 2
  BY DEF Hash!Coded, Hash!BASE
<1> HIDE DEF rest_, c, B, m, d
<1>13. n \div B = rest_ /\ n % B = c
  <2>1. c \in Int /\ 0 <= c /\ c < B /\ rest_ \in Int
    BY <1>9, <1>11, <1>12
  <2>2. (rest_ * B + c) \div B = rest_ /\ (rest_ * B + c) % B = c
    BY <1>12, <2>1, DigitAtEnd
  <2> QED BY <1>10, <2>2
<1>14. buf' = [buf EXCEPT ![q] = s[m]]
  BY <1>1, <1>9, <1>13
<1>15. buf \in [0 .. M -> Hash!Known \cup {NUL}]
  BY <1>1 DEF TagTyped
<1>16. buf' \in [0 .. M -> Hash!Known \cup {NUL}]
  BY <1>7, <1>8, <1>14, <1>15
<1>17. TagTyped'
  BY <1>1, <1>7, <1>16 DEF TagTyped
<1>18. Hashed' /\ Stopped'
  BY <1>1 DEF Hashed, Stopped, Opening
<1>19. Digits(M - 1 - q)'
  <2> DEFINE e == M - 1 - q'
  <2>1. e = d + 1 /\ e \in 0 .. limit' /\ limit' - e = m - 1 /\ limit' - e + 1 = m
    BY <1>1, <1>2, <1>5, <1>7
  <2>2. n' = Hash!Number(SubSeq(s', 1, limit' - e))
    BY <1>1, <1>13, <2>1 DEF rest_, Opening
  <2>3. Hash!Number(SubSeq(s', 1, limit' - e + 1)) # 0
    BY <1>1, <1>4, <2>1 DEF Opening
  <2>4. buf'[M] = NUL
    <3>1. q # M /\ M \in 0 .. M
      BY <1>2, <1>5, <1>7
    <3> QED BY <1>4, <1>14, <1>15, <3>1
  <2>5. \A i \in 1 .. d + 1 : buf'[M - i] = s[limit + 1 - i]
    <3> TAKE i \in 1 .. d + 1
    <3>1. CASE i = d + 1
      <4>1. M - i = q /\ limit + 1 - i = m
        BY <1>2, <1>5, <1>7, <3>1
      <4> QED BY <1>7, <1>14, <1>15, <4>1
    <3>2. CASE i # d + 1
      <4>1. i \in 1 .. d /\ M - i # q /\ M - i \in 0 .. M
        BY <1>2, <1>4, <1>5, <1>7, <3>2
      <4> QED BY <1>4, <1>14, <1>15, <4>1
    <3> QED BY <3>1, <3>2
  <2>6. \A i \in 1 .. e : buf'[M - i] = s'[limit' + 1 - i]
    BY <1>1, <2>1, <2>5
  <2>7. e \in 0 .. limit'
    BY <2>1
  <2> HIDE DEF e
  <2> QED BY <2>2, <2>3, <2>4, <2>6, <2>7 DEF Digits, Opening, e
<1> QED BY <1>1, <1>17, <1>18, <1>19 DEF TagInv

LEMMA UnpackedKeeps == ASSUME Hash!Coded, TagInv, Hash!Unpacked PROVE TagInv'
<1> DEFINE M == MAX_SEXP_TAGLEN
<1>1. /\ pc = "unpack" /\ pc' = "compare" /\ TagTyped /\ Hashed /\ Stopped
      /\ Digits(M - 1 - q)
      /\ s' = s /\ p' = p /\ limit' = limit /\ h' = h
      /\ n = 0 /\ n' = n /\ q' = q + 1 /\ buf' = buf
  BY DEF Hash!Unpacked, Hash!hashing, TagInv
<1>2. /\ limit \in Nat /\ M \in Nat /\ limit <= M /\ q \in Int
  BY <1>1, NameType
<1>3. M - q' = M - 1 - q
  BY <1>1, <1>2
<1>4. Digits(M - q)'
  <2> DEFINE d == M - 1 - q
  <2>1. M - q' = d
    BY <1>3
  <2>2. Digits(d)
    BY <1>1
  <2> HIDE DEF d
  <2> DEFINE e == M - q'
  <2>3. e = d
    BY <2>1
  <2> HIDE DEF e
  <2> QED BY <1>1, <2>2, <2>3 DEF Digits, Opening, e
<1>5. q' \in -1 .. M
  <2>1. q \in -1 .. M /\ M - 1 - q \in 0 .. limit
    BY <1>1 DEF TagTyped, Digits
  <2> QED BY <1>1, <1>2, <2>1
<1>6. TagTyped'
  BY <1>1, <1>5 DEF TagTyped
<1>7. Compared'
  BY <1>1, <1>4 DEF Compared, Hashed, Stopped, Opening
<1> QED BY <1>1, <1>6, <1>7 DEF TagInv

LEMMA CompareKeeps == ASSUME Hash!Coded, TagInv, Hash!Compare PROVE TagInv'
<1>1. /\ pc = "compare" /\ TagTyped /\ Compared
      /\ pc' = IF Hash!SamePrefix THEN "accepted" ELSE "refused"
      /\ s' = s /\ p' = p /\ limit' = limit /\ h' = h /\ n' = n /\ q' = q /\ buf' = buf
  BY DEF Hash!Compare, Hash!hashing, Hash!unpacking, TagInv
<1>2. TagTyped'
  BY <1>1 DEF TagTyped
<1>3. Compared'
  BY <1>1 DEF Compared, Hashed, Stopped, Digits, Opening
<1>4. Hash!SamePrefix' <=> Hash!SamePrefix
  BY <1>1 DEF Hash!SamePrefix, Hash!NameAt, Hash!HashAt
<1>5. Strings!Hashable(s) <=> Hash!SamePrefix
  BY <1>1, HashableUnlessZero, WholeUnlessZero, EqualWhenWhole DEF Compared
<1>6. CASE Hash!SamePrefix
  BY <1>1, <1>2, <1>3, <1>4, <1>6 DEF TagInv
<1>7. CASE ~ Hash!SamePrefix
  BY <1>1, <1>2, <1>5, <1>7 DEF TagInv
<1> QED BY <1>6, <1>7

LEMMA TagNext == ASSUME Hash!Coded, TagInv, [Hash!Next]_(Hash!vars) PROVE TagInv'
<1>1. CASE Hash!Scan
  BY <1>1, ScanKeeps
<1>2. CASE Hash!Unknown
  BY <1>2, UnknownKeeps
<1>3. CASE Hash!StartUnpack
  BY <1>3, StartUnpackKeeps
<1>4. CASE Hash!Unpack
  BY <1>4, UnpackKeeps
<1>5. CASE Hash!Unpacked
  BY <1>5, UnpackedKeeps
<1>6. CASE Hash!Compare
  BY <1>6, CompareKeeps
<1>7. CASE Hash!Ended \/ UNCHANGED Hash!vars
  BY <1>7 DEF Hash!Ended, Hash!vars, Hash!hashing, Hash!unpacking, TagInv, TagTyped,
              Compared, Hashed, Stopped, Digits, Opening, Hash!SamePrefix, Hash!NameAt,
              Hash!HashAt
<1> QED BY <1>1, <1>2, <1>3, <1>4, <1>5, <1>6, <1>7 DEF Hash!Next

-----------------------------------------------------------------------------
LEMMA TagsInvariant == Hash!Coded => (Hash!Spec => []TagInv)
<1> SUFFICES ASSUME Hash!Coded PROVE Hash!Spec => []TagInv
  OBVIOUS
<1>1. Hash!Init => TagInv
  BY TagInit
<1>2. TagInv /\ [Hash!Next]_(Hash!vars) => TagInv'
  BY TagNext
<1> QED BY <1>1, <1>2, PTL DEF Hash!Spec

(* de_hash writes and strncmp reads inside the static buffer: no more digits *)
(* come out of a tag than characters were packed in it.                     *)
THEOREM TagsStayInBuffer == Hash!Coded => (Hash!Spec => []InBuffer)
<1> SUFFICES ASSUME Hash!Coded PROVE Hash!Spec => []InBuffer
  OBVIOUS
<1>1. TagInv => InBuffer
  <2> SUFFICES ASSUME TagInv PROVE InBuffer
    OBVIOUS
  <2>1. TagTyped
    BY DEF TagInv
  <2>2. /\ limit \in Nat /\ limit <= MAX_SEXP_TAGLEN /\ MAX_SEXP_TAGLEN \in Nat /\ q \in Int
        /\ limit <= Len(s) /\ Len(s) \in Nat
    BY <2>1, NameType
  <2>3. ASSUME pc = "unpack", n # 0 PROVE q >= 0
    <3> DEFINE d == MAX_SEXP_TAGLEN - 1 - q
    <3>1. Hashed /\ Digits(d)
      BY <2>3 DEF TagInv
    <3>2. d \in 0 .. limit /\ n = Hash!Number(Opening(limit - d))
      BY <3>1 DEF Digits
    <3>3. 0 \in Nat /\ 0 <= Len(s) /\ \A k \in 1 .. 0 : s[k] \in Hash!Known
      BY <2>2
    <3>4. Hash!Number(Opening(0)) = 0
      BY <2>1, <3>3, OpeningSteps
    <3>5. limit - d # 0
      BY <2>3, <3>2, <3>4
    <3> QED BY <2>2, <3>2, <3>5
  <2>4. ASSUME pc = "compare" PROVE q >= 0
    <3>1. MAX_SEXP_TAGLEN - q \in 0 .. limit
      BY <2>4 DEF TagInv, Compared, Digits
    <3> QED BY <2>2, <3>1
  <2> QED BY <2>1, <2>3, <2>4 DEF InBuffer, Hash!InBuffer, TagTyped
<1> QED BY <1>1, TagsInvariant, PTL

(* An accepted name's tag is the number of its kept characters, which no     *)
(* other kept characters denote, and survives being boxed.                 *)
THEOREM TagsAreApart == Hash!Coded => (Hash!Spec => []TagsTellApart)
<1> SUFFICES ASSUME Hash!Coded PROVE Hash!Spec => []TagsTellApart
  OBVIOUS
<1>1. TagInv => TagsTellApart
  <2> SUFFICES ASSUME TagInv, pc = "accepted"
               PROVE  /\ h = Hash!Number(Hash!Kept) /\ Hash!UNBOX(Hash!BOX(h)) = h
                      /\ Hash!Kept # <<>> => /\ Hash!Power(Len(Hash!Kept) - 1) <= h
                                             /\ h < Hash!Power(Len(Hash!Kept))
    BY DEF TagsTellApart, Hash!TagsTellApart
  <2>1. TagTyped /\ Compared /\ Hashed /\ Stopped /\ Hash!SamePrefix
    BY DEF TagInv, Compared
  <2>2. /\ limit \in Nat /\ limit <= MAX_SEXP_TAGLEN /\ MAX_SEXP_TAGLEN \in Nat
        /\ limit <= Len(s) /\ Len(s) \in Nat
    BY <2>1, NameType
  <2>3. Hash!Kept = Opening(limit)
    <3>1. (IF Len(s) < MAX_SEXP_TAGLEN THEN Len(s) ELSE MAX_SEXP_TAGLEN) = limit
      BY <2>1, <2>2 DEF Stopped
    <3> QED BY <3>1 DEF Hash!Kept, Opening
  <2>4. h = Hash!Number(Opening(limit)) /\ \A k \in 1 .. limit : s[k] \in Hash!Known
    BY <2>1 DEF Hashed
  <2>5. limit = 0 \/ s[1] # chars[1]
    BY <2>1, WholeUnlessZero, EqualWhenWhole
  <2>6. /\ Len(Opening(limit)) = limit /\ h \in Nat /\ h < Hash!Power(limit)
        /\ limit > 0 => Hash!Power(limit - 1) <= h
    BY <2>1, <2>2, <2>4, <2>5, OpeningSteps
  <2>7. Opening(limit) # <<>> => limit > 0
    BY <2>2, <2>6
  <2>8. Hash!UNBOX(Hash!BOX(h)) = h
    <3>1. limit \in 0 .. MAX_SEXP_TAGLEN
      BY <2>2
    <3> QED BY <2>6, <3>1, WordHolds
  <2> QED BY <2>3, <2>4, <2>6, <2>7, <2>8
<1> QED BY <1>1, TagsInvariant, PTL

(* LtagHash accepts exactly the names the interpreters' model takes for      *)
(* hashable, whatever its static buffer held before.                       *)
THEOREM TagsAsModelled == Hash!Coded => (Hash!Spec => []AcceptedAsModelled)
<1> SUFFICES ASSUME Hash!Coded PROVE Hash!Spec => []AcceptedAsModelled
  OBVIOUS
<1>1. TagInv => AcceptedAsModelled
  <2> SUFFICES ASSUME TagInv PROVE AcceptedAsModelled
    OBVIOUS
  <2>1. ASSUME pc = "accepted" PROVE Strings!Hashable(s)
    <3>1. TagTyped /\ Compared /\ Hash!SamePrefix
      BY <2>1 DEF TagInv
    <3> QED BY <3>1, HashableUnlessZero, WholeUnlessZero, EqualWhenWhole DEF Compared
  <2>2. pc = "refused" => ~ Strings!Hashable(s)
    BY DEF TagInv
  <2> QED BY <2>1, <2>2 DEF AcceptedAsModelled
<1> QED BY <1>1, TagsInvariant, PTL

(* Numbers of the same many digits are the same only digit by digit.        *)
LEMMA SameLengthApart ==
  ASSUME Hash!Coded
  PROVE  \A m \in Nat : \A t, u \in Seq(Hash!Known) :
           Len(t) = m /\ Len(u) = m /\ Hash!Number(t) = Hash!Number(u) => t = u
<1> DEFINE K == Hash!Known
           B == Hash!BASE
           S == {m \in Nat : \A t, u \in Seq(K) :
                   Len(t) = m /\ Len(u) = m /\ Hash!Number(t) = Hash!Number(u) => t = u}
<1>1. 0 \in S
  <2>1. \A t \in Seq(K) : Len(t) = 0 => t = <<>>
    OBVIOUS
  <2> QED BY <2>1
<1>2. ASSUME NEW m \in Nat, m \in S PROVE m + 1 \in S
  <2> SUFFICES ASSUME NEW t \in Seq(K), NEW u \in Seq(K), Len(t) = m + 1, Len(u) = m + 1,
                      Hash!Number(t) = Hash!Number(u)
               PROVE  t = u
    OBVIOUS
  <2> DEFINE v == SubSeq(t, 1, m)
             w == SubSeq(u, 1, m)
             c == t[m + 1]
             d == u[m + 1]
  <2>1. /\ v \in Seq(K) /\ Len(v) = m /\ c \in K /\ t = Append(v, c)
        /\ w \in Seq(K) /\ Len(w) = m /\ d \in K /\ u = Append(w, d)
    OBVIOUS
  <2> HIDE DEF v, w, c, d
  <2>2. /\ Hash!Number(t) = Hash!Number(v) * B + Hash!Code(c)
        /\ Hash!Number(u) = Hash!Number(w) * B + Hash!Code(d)
        /\ Hash!Number(v) \in Int /\ Hash!Number(w) \in Int
    BY <2>1, NumberSteps
  <2>3. /\ Hash!Code(c) \in 0 .. B - 1 /\ chars[Hash!Code(c) + 1] = c
        /\ Hash!Code(d) \in 0 .. B - 1 /\ chars[Hash!Code(d) + 1] = d
    BY <2>1, CodeIsDigit
  <2>4. B \in Nat
    BY DEF Hash!Coded, Hash!BASE
  <2> HIDE DEF B, K
  <2>5. Hash!Number(v) = Hash!Number(w) /\ Hash!Code(c) = Hash!Code(d)
    <3> DEFINE x == Hash!Number(v)
               y == Hash!Number(w)
               i == Hash!Code(c)
               j == Hash!Code(d)
    <3>1. /\ x \in Int /\ i \in Int /\ 0 <= i /\ i < B
      BY <2>2, <2>3, <2>4
    <3>2. /\ y \in Int /\ j \in Int /\ 0 <= j /\ j < B
      BY <2>2, <2>3, <2>4
    <3>3. x * B + i = y * B + j
      BY ONLY <2>2, Hash!Number(t) = Hash!Number(u)
    <3> HIDE DEF x, y, i, j
    <3>4. (x * B + i) \div B = x /\ (x * B + i) % B = i
      BY ONLY <2>4, <3>1, DigitAtEnd
    <3>5. (y * B + j) \div B = y /\ (y * B + j) % B = j
      BY ONLY <2>4, <3>2, DigitAtEnd
    <3>6. x = y /\ i = j
      BY <3>3, <3>4, <3>5
    <3> QED BY <3>6 DEF x, y, i, j
  <2>6. v = w
    BY <1>2, <2>1, <2>5 DEF K
  <2>7. c = d
    BY <2>3, <2>5
  <2> QED BY <2>1, <2>6, <2>7
<1> HIDE DEF S
<1>3. Nat \subseteq S
  BY <1>1, <1>2, NatSetInduction
<1> QED BY <1>3 DEF S

(* The interpreters' model takes the kept characters themselves for the tag  *)
(* of a name.  Nothing is lost by it: hashable names have the same tag      *)
(* exactly when they have the same kept characters.                        *)
THEOREM TagsAreNames ==
  ASSUME Hash!Coded, NEW t \in Names, NEW u \in Names,
         Strings!Hashable(t), Strings!Hashable(u)
  PROVE  Hash!Number(Strings!LtagHash(t)) = Hash!Number(Strings!LtagHash(u))
           <=> Strings!LtagHash(t) = Strings!LtagHash(u)
<1> DEFINE K(x) == Strings!LtagHash(x)
<1>1. MAX_SEXP_TAGLEN \in Nat /\ 1 <= MAX_SEXP_TAGLEN
  BY DEF Hash!Coded
<1>2. ASSUME NEW x \in Names, Strings!Hashable(x)
      PROVE  K(x) \in Seq(Hash!Known) /\ (K(x) = <<>> \/ Leads(K(x)))
  <2>1. x \in Seq(Hash!Known \cup Others) /\ Len(x) \in Nat
    BY DEF Hash!Coded
  <2>2. PICK m \in Nat : /\ m <= Len(x) /\ m <= MAX_SEXP_TAGLEN
                         /\ K(x) = SubSeq(x, 1, m) /\ (Len(x) > 0 => m > 0)
    <3>1. CASE Len(x) <= MAX_SEXP_TAGLEN
      <4>1. x = SubSeq(x, 1, Len(x))
        BY <2>1
      <4>2. K(x) = SubSeq(x, 1, Len(x))
        BY <3>1, <4>1 DEF Strings!LtagHash
      <4> QED BY <2>1, <3>1, <4>2
    <3>2. CASE ~ (Len(x) <= MAX_SEXP_TAGLEN)
      <4>1. K(x) = SubSeq(x, 1, MAX_SEXP_TAGLEN)
        BY <3>2 DEF Strings!LtagHash
      <4> QED BY <1>1, <2>1, <3>2, <4>1
    <3> QED BY <3>1, <3>2
  <2>3. \A k \in 1 .. m : x[k] \in Hash!Known
    <3> TAKE k \in 1 .. m
    <3>1. k \in 1 .. Len(x) /\ k <= MAX_SEXP_TAGLEN
      BY <1>1, <2>1, <2>2
    <3>2. PICK j \in 1 .. Len(chars) : chars[j] = x[k]
      BY <1>2, <3>1 DEF Strings!Hashable
    <3> QED BY <3>2 DEF Hash!Known
  <2> HIDE DEF K
  <2>4. /\ SubSeq(x, 1, m) = [k \in 1 .. m |-> x[k]]
    BY <2>1, <2>2
  <2>5. K(x) \in Seq(Hash!Known) /\ Len(K(x)) = m
    BY <2>2, <2>3, <2>4
  <2>6. CASE m = 0
    BY <2>5, <2>6
  <2>7. CASE m > 0
    <3>1. K(x) # <<>> /\ K(x)[1] = x[1]
      BY <2>2, <2>4, <2>5, <2>7
    <3>2. x # <<>>
      BY <2>1, <2>2, <2>7
    <3>3. x[1] # chars[1]
      BY <1>2, <3>2 DEF Strings!Hashable
    <3> QED BY <2>5, <3>1, <3>3 DEF Leads
  <2> QED BY <2>2, <2>6, <2>7
<1> HIDE DEF K
<1>3. ASSUME NEW v \in Seq(Hash!Known), v = <<>> \/ Leads(v),
             NEW w \in Seq(Hash!Known), w = <<>> \/ Leads(w),
             Hash!Number(v) = Hash!Number(w)
      PROVE  Len(v) <= Len(w)
  <2> SUFFICES ASSUME Len(w) < Len(v) PROVE FALSE
    OBVIOUS
  <2>1. Len(v) \in Nat /\ Len(w) \in Nat /\ v # <<>> /\ Len(v) - 1 \in Nat /\ Len(w) <= Len(v) - 1
    OBVIOUS
  <2>2. Bounded(v) /\ Bounded(w)
    BY NumberBounded
  <2>3. Hash!Power(Len(v) - 1) <= Hash!Number(v) /\ Hash!Number(v) \in Nat
    BY <1>3, <2>1, <2>2 DEF Bounded
  <2>4. Hash!Number(w) < Hash!Power(Len(w))
    BY <2>2 DEF Bounded
  <2>5. Hash!BASE \in Nat /\ Hash!BASE >= 2
    BY DEF Hash!Coded, Hash!BASE
  <2>6. /\ Hash!Power(Len(w)) <= Hash!Power(Len(v) - 1)
        /\ Hash!Power(Len(w)) \in Nat /\ Hash!Power(Len(v) - 1) \in Nat
    BY <2>1, <2>5, PowerGrows
  <2> QED BY <1>3, <2>3, <2>4, <2>6
<1>4. ASSUME Hash!Number(K(t)) = Hash!Number(K(u)) PROVE K(t) = K(u)
  <2> DEFINE v == K(t)
             w == K(u)
  <2>1. /\ v \in Seq(Hash!Known) /\ (v = <<>> \/ Leads(v))
        /\ w \in Seq(Hash!Known) /\ (w = <<>> \/ Leads(w))
    BY <1>2
  <2>2. Hash!Number(v) = Hash!Number(w)
    BY <1>4
  <2> HIDE DEF v, w
  <2>3. Len(v) <= Len(w) /\ Len(w) <= Len(v)
    BY <1>3, <2>1, <2>2
  <2>4. Len(v) = Len(w) /\ Len(v) \in Nat
    BY <2>1, <2>3
  <2>5. v = w
    BY <2>1, <2>2, <2>4, SameLengthApart
  <2> QED BY <2>5 DEF v, w
<1> QED BY <1>4 DEF K
=============================================================================
