----------------------------- MODULE MCRuntime -----------------------------
(***************************************************************************)
(* Values and names for the runtime library.  Its two parts share nothing,  *)
(* so each behaviour does one after the other: every name with one value,  *)
(* every value with one name.                                              *)
(***************************************************************************)
EXTENDS Runtime, PrintValue

-----------------------------------------------------------------------------
(* Every value of depth one over two integers, a long string, an empty one   *)
(* and the constructor Nil, and lists, arrays, s-expressions and closures    *)
(* of those.                                                               *)
Int_(t)       == Value("INT", t, <<>>)
Text_(cs)     == Value("STRING", cs, <<>>)
Nil           == Value("SEXP", <<"Nil">>, <<>>)
ConsOf(x, t)  == Value("SEXP", <<"cons">>, <<x, t>>)

Leaves  == {Int_(<<"0">>), Int_(<<"-", "1">>), Text_(<<>>), Text_(<<"a", "b", "c", "d", "e">>), Nil}
Tuples(S, k) == UNION {[1 .. j -> S] : j \in 0 .. k}
Nodes(S) ==
  {Value("ARRAY", <<>>, es) : es \in Tuples(S, 2)}
    \cup {Value("SEXP", <<"A">>, es) : es \in Tuples(S, 2)}
    \cup {Value("CLOSURE", <<"0", "x", "4">>, es) : es \in Tuples(S, 2)}
    \cup {ConsOf(x, Int_(<<"0">>)) : x \in S}
    \cup {ConsOf(x, ConsOf(y, Int_(<<"0">>))) : x, y \in S}
Some   == {Text_(<<"a", "NUL", "b">>), Value("ARRAY", <<>>, <<Int_(<<"0">>), Nil>>),
           ConsOf(Nil, ConsOf(Int_(<<"0">>), Int_(<<"0">>))), Value("CLOSURE", <<"4">>, <<Nil>>)}
Values == Leaves \cup Nodes(Leaves) \cup Nodes(Some)

MCChars == {"0", "1", "4", "-", "x", "a", "b", "c", "d", "e", "A", "Nil", "[", "]", ", ",
            " (", ")", "{", "}", "<closure ", ">", "\"", "cons"}
Printings == {[pieces |-> printValue(v), text |-> Text(v)] : v \in Values}
MCJobs    == {printValue(v) : v \in Values}

(* Every name over four characters and an unknown one, up to one character   *)
(* longer than what is kept.                                               *)
HashChars == <<"_", "a", "b", "c">>
MCOthers  == {"?"}
MCNames   == UNION {[1 .. k -> {"_", "a", "b", "c", "?"}] : k \in 0 .. MAX_SEXP_TAGLEN + 1}

ASSUME NamesCoded == Hash!Coded

-----------------------------------------------------------------------------
hash_ == <<pc, s, p, limit, h, n, buf, q>>

Zero == <<<<"0">>>>
RuntimeInit ==
  \/ Hash!Init /\ job = Zero /\ Init
  \/ Hash!Init /\ s = <<"a">> /\ buf[0] = NUL /\ Init

Print_ == pc \in {"accepted", "refused"} /\ Next /\ UNCHANGED hash_
Hash_  == Hash!Next /\ UNCHANGED vars

RuntimeNext == Hash_ \/ Print_

RuntimeSpec == RuntimeInit /\ [][RuntimeNext]_<<vars, hash_>> /\ WF_<<vars, hash_>>(RuntimeNext)

-----------------------------------------------------------------------------
(* CALL_Lstring makes the text of the value it is given, whatever the       *)
(* lengths of its parts: "[", a part, ", ", ... as the value is built, with  *)
(* nothing cut off, doubled or left over where the buffer had to grow.      *)
TextOfValue ==
  phase = "done" => \A t \in Printings : t.pieces = job => t.text = result
=============================================================================
