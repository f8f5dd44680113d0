------------------------------ MODULE Appender ------------------------------
(***************************************************************************)
(* What the string buffer of runtime.c promises to the code that prints a   *)
(* value: pieces of text are appended in the order they are written, and    *)
(* the text handed out at the end is all of them.                           *)
(***************************************************************************)
EXTENDS Sequences

CONSTANT Pieces                       \* sequences of characters, none of them NUL

VARIABLES text, pending, result

vars == <<text, pending, result>>

Init == text = <<>> /\ pending \in Seq(Pieces) /\ result = <<>>

AppendPiece == /\ pending # <<>>
               /\ text' = text \o Head(pending)
               /\ pending' = Tail(pending)
               /\ UNCHANGED result

HandOut == /\ pending = <<>>
           /\ result' = text
           /\ UNCHANGED <<text, pending>>

Next == AppendPiece \/ HandOut

Spec == Init /\ [][Next]_vars
=============================================================================
