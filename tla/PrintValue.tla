----------------------------- MODULE PrintValue -----------------------------
(***************************************************************************)
(* printValue of runtime.c: the pieces of text a value is printed as, in    *)
(* order.  A value is a tree: a record [type, tag, elems], where type is    *)
(* INT, STRING, ARRAY, SEXP or CLOSURE, tag is the text of an integer, of a *)
(* string, of a constructor's name or of a closure's code address, and      *)
(* elems are elements, fields or captured values.  Characters are strings.  *)
(***************************************************************************)
EXTENDS Sequences, SequencesExt

Value(type, tag, elems) == [type |-> type, tag |-> tag, elems |-> elems]

UNBOXED(v) == v.type = "INT"
IsCons(v)  == v.type = "SEXP" /\ v.tag = <<"cons">>

(* "%s" writes the characters before the first NUL of a string.             *)
CString(cs) ==
  LET n == CHOOSE n \in 0 .. Len(cs) : /\ \A k \in 1 .. n : cs[k] # "NUL"
                                      /\ n < Len(cs) => cs[n + 1] = "NUL"
  IN  SubSeq(cs, 1, n)

RECURSIVE printValue(_), printList(_), printElems(_, _)

(* The loops put ", " after every element but the last.                     *)
SeparatorFromZero(es, i) == IF i # Len(es) - 1 THEN <<<<", ">>>> ELSE <<>>  \* mutant
Separator(es, i) == IF i # Len(es) THEN <<<<", ">>>> ELSE <<>>

printElems(es, i) ==
  IF i > Len(es) THEN <<>>
  ELSE printValue(es[i])
         \o Separator(es, i)
         \o printElems(es, i + 1)

(* The list goes on as long as the second field is boxed, and has fields.   *)
printList(sb) ==
  IF sb.elems = <<>> THEN <<>>
  ELSE printValue(sb.elems[1])
         \o IF UNBOXED(sb.elems[2]) THEN <<>>
            ELSE <<<<", ">>>> \o printList(sb.elems[2])

printValue(v) ==
  CASE v.type = "INT"     -> <<v.tag>>
    [] v.type = "STRING"  -> <<<<"\"">> \o CString(v.tag) \o <<"\"">>>>
    [] v.type = "CLOSURE" ->
         <<<<"<closure ">>, v.tag>>
           \o (IF v.elems # <<>> THEN <<<<", ">>>> ELSE <<>>)
           \o printElems(v.elems, 1) \o <<<<">">>>>
    [] v.type = "ARRAY"   -> <<<<"[">>>> \o printElems(v.elems, 1) \o <<<<"]">>>>
    [] IsCons(v)          -> <<<<"{">>>> \o printList(v) \o <<<<"}">>>>
    [] OTHER              ->
         <<v.tag>> \o (IF v.elems = <<>> THEN <<>>
                       ELSE <<<<" (">>>> \o printElems(v.elems, 1) \o <<<<")">>>>)

-----------------------------------------------------------------------------
(* The text a value stands for, written from its structure: a list is the    *)
(* sequence of its heads, a string what comes before its first NUL.         *)
RECURSIVE Heads(_), Text(_)

Heads(v) == IF IsCons(v) THEN <<v.elems[1]>> \o Heads(v.elems[2]) ELSE <<>>

Joined(ts) == FoldLeft(LAMBDA acc, t : IF acc = <<>> THEN t ELSE acc \o <<", ">> \o t, <<>>, ts)
TextsOf(vs)  == [k \in DOMAIN vs |-> Text(vs[k])]

Text(v) ==
  CASE UNBOXED(v)         -> v.tag
    [] v.type = "STRING"  -> <<"\"">> \o CString(v.tag) \o <<"\"">>
    [] v.type = "CLOSURE" -> <<"<closure ">> \o Joined(<<v.tag>> \o TextsOf(v.elems)) \o <<">">>
    [] v.type = "ARRAY"   -> <<"[">> \o Joined(TextsOf(v.elems)) \o <<"]">>
    [] IsCons(v)          -> <<"{">> \o Joined(TextsOf(Heads(v))) \o <<"}">>
    [] OTHER              -> IF v.elems = <<>> THEN v.tag
                             ELSE v.tag \o <<" (">> \o Joined(TextsOf(v.elems)) \o <<")">>
=============================================================================
