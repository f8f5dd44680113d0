------------------------------ MODULE Runtime ------------------------------
(***************************************************************************)
(* The two parts of the runtime library that deal in text: the name of a    *)
(* constructor is hashed to its tag (TagHash), a value is printed to a      *)
(* string (StringBuf), and what the interpreters' model takes the first to  *)
(* do (LamaValues).                                                        *)
(***************************************************************************)
EXTENDS StringBuf

CONSTANTS chars, Others, MAX_SEXP_TAGLEN, WORD, Names      \* of TagHash

VARIABLES pc, s, p, limit, h, n, buf, q                    \* of TagHash

Hash    == INSTANCE TagHash
Strings == INSTANCE LamaValues WITH HALF <- WORD \div 4

(* LtagHash and de_hash stay in the static buffer and tell names apart, as  *)
(* TagHash states it.                                                      *)
InBuffer      == Hash!InBuffer
TagsTellApart == Hash!TagsTellApart

(* The names LtagHash accepts are those the interpreters' model takes for    *)
(* hashable, whatever the static buffer held before: a character it does not *)
(* know counts only among those kept, and the first character of chars, a   *)
(* zero digit, is lost at the front of a name.                              *)
AcceptedAsModelled ==
  /\ pc = "accepted" => Strings!Hashable(s)
  /\ pc = "refused"  => ~ Strings!Hashable(s)
=============================================================================
