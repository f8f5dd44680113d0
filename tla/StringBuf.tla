------------------------------ MODULE StringBuf ------------------------------
(***************************************************************************)
(* The growing buffer a value is printed to, in runtime.c: createStringBuf, *)
(* extendStringBuf, vprintStringBuf, deleteStringBuf, and Lstring, which   *)
(* prints a value and makes a string of the buffer.  contents is the       *)
(* malloc'ed block, indexed from 0.  job holds the pieces that printValue  *)
(* hands to vprintStringBuf one after the other, pending those not yet     *)
(* written.                                                                *)
(***************************************************************************)
EXTENDS Integers, Sequences

CONSTANTS Chars,             \* characters of pieces
          NUL,               \* ends a C string
          Jobs,              \* the sequences of pieces that may be printed
          STRINGBUF_INIT

Texts == Seq(Chars)

ASSUME StringBufAssumption ==
  /\ NUL \notin Chars
  /\ Jobs \subseteq Seq(Texts)
  /\ STRINGBUF_INIT \in Nat \ {0}

Bytes == Chars \cup {NUL}

VARIABLES phase, job, pending, contents, ptr, len, result

stringBuf == <<contents, ptr, len>>
vars      == <<phase, job, pending, stringBuf, result>>

Init == /\ phase = "create"
        /\ job \in Jobs /\ pending = job
        /\ contents = [k \in 0 .. STRINGBUF_INIT - 1 |-> NUL]
        /\ ptr = 0 /\ len = STRINGBUF_INIT
        /\ result = <<>>

createStringBuf ==
  /\ phase = "create" /\ phase' = "print"
  /\ contents' = [k \in 0 .. STRINGBUF_INIT - 1 |-> NUL]
  /\ ptr' = 0 /\ len' = STRINGBUF_INIT
  /\ UNCHANGED <<job, pending, result>>

-----------------------------------------------------------------------------
(* vsnprintf writes what fits before the last byte, then a NUL, and returns  *)
(* the length of the whole piece.                                          *)
rest == len - ptr

MinOf(a, b) == IF a < b THEN a ELSE b

Printed(piece) ==
  LET n == MinOf(Len(piece), rest - 1)
  IN  [k \in 0 .. len - 1 |->
         IF ptr <= k /\ k < ptr + n THEN piece[k - ptr + 1]
         ELSE IF k = ptr + n THEN NUL ELSE contents[k]]

(* The piece counts as written when its NUL fits as well.                   *)
FitsWithoutNul(piece) == Len(piece) <= rest             \* mutant
FitsInRest(piece) == Len(piece) < rest

Write == /\ phase = "print" /\ pending # <<>>
         /\ FitsInRest(Head(pending))
         /\ contents' = Printed(Head(pending))
         /\ ptr' = ptr + Len(Head(pending))
         /\ pending' = Tail(pending)
         /\ UNCHANGED <<phase, job, len, result>>

(* Otherwise the buffer grows and the whole piece is printed again over its *)
(* beginning.                                                              *)
Truncate == /\ phase = "print" /\ pending # <<>>
            /\ ~ FitsInRest(Head(pending))
            /\ contents' = Printed(Head(pending))
            /\ phase' = "extend"
            /\ UNCHANGED <<job, pending, ptr, len, result>>

GrownByWritten == len + ptr                             \* mutant
GrowLength == len * 2

(* What realloc adds holds whatever was there before.                       *)
extendStringBuf ==
  /\ phase = "extend" /\ phase' = "print"
  /\ \E junk \in Bytes :
       contents' = [k \in 0 .. GrowLength - 1 |-> IF k < len THEN contents[k] ELSE junk]
  /\ len' = GrowLength
  /\ UNCHANGED <<job, pending, ptr, result>>

-----------------------------------------------------------------------------
(* Bstring copies up to the first NUL of the block, and the block is freed.  *)
Bstring ==
  /\ phase = "print" /\ pending = <<>>
  /\ \E n \in 0 .. len - 1 :
       /\ contents[n] = NUL
       /\ \A k \in 0 .. n - 1 : contents[k] # NUL
       /\ result' = [k \in 1 .. n |-> contents[k - 1]]
  /\ phase' = "done"
  /\ UNCHANGED <<job, pending, stringBuf>>

Ended == phase = "done" /\ UNCHANGED vars

Next == createStringBuf \/ Write \/ Truncate \/ extendStringBuf \/ Bstring \/ Ended

(* A single thread that waits for nothing keeps executing.                  *)
Spec == Init /\ [][Next]_vars /\ WF_vars(Next)

-----------------------------------------------------------------------------
(***************************************************************************)
(* Properties.                                                             *)
(***************************************************************************)
TypeOK == /\ phase \in {"create", "print", "extend", "done"}
         /\ job \in Jobs /\ pending \in Seq(Texts)
         /\ len \in Nat /\ ptr \in 0 .. len - 1
         /\ contents \in [0 .. len - 1 -> Bytes]
         /\ result \in Texts

(* Once all pieces are printed the buffer is a C string of ptr characters:   *)
(* what a piece that did not fit left behind is gone, and no NUL cuts it.   *)
Terminated == /\ \A k \in 0 .. ptr - 1 : contents[k] # NUL
              /\ pending = <<>> => contents[ptr] = NUL

text == [k \in 1 .. ptr |-> contents[k - 1]]

(* The buffer, its growing and its second attempts show only as pieces of   *)
(* text appended one after the other, and as the whole text in the end.     *)
Appending == INSTANCE Appender WITH Pieces <- Texts

ImplementsAppender == Appending!Spec

(* However long a piece is, it fits after finitely many extensions, and the *)
(* string is made.                                                         *)
StringMade == <>(phase = "done")
=============================================================================
