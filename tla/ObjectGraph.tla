----------------------------- MODULE ObjectGraph -----------------------------
(***************************************************************************)
(* What the memory manager promises the interpreter: values that are        *)
(* integers or references to objects, and objects that last as long as a    *)
(* stack slot leads to them.  There are no addresses, no room to run out    *)
(* of and no collections; an object nothing leads to is simply gone.        *)
(***************************************************************************)
EXTENDS Integers, Sequences

CONSTANTS Ints, Ids, STRING_TAG, ARRAY_TAG, SEXP_TAG

VARIABLES roots,     \* the stack, bottom first
          objects    \* [tag, elems] of each object that can be reached

vars == <<roots, objects>>

IntValue(n) == [kind |-> "int", val |-> n]
Ref(i) == [kind |-> "ref", val |-> i]

RefsIn(vs) == {vs[k].val : k \in {j \in DOMAIN vs : vs[j].kind = "ref"}}

(* The objects that values vs lead to: those that no set of objects can     *)
(* leave out which holds what vs refers to and what its members refer to.   *)
Closed(S, objs)  == \A i \in S : RefsIn(objs[i].elems) \subseteq S
Live(vs, objs) ==
  {i \in DOMAIN objs : \A S \in SUBSET DOMAIN objs :
                         RefsIn(vs) \subseteq S /\ Closed(S, objs) => i \in S}

Commit(vs, objs) == /\ roots' = vs
                    /\ objects' = [i \in Live(vs, objs) |-> objs[i]]

Under(k) == SubSeq(roots, 1, Len(roots) - k)
Top(k)   == roots[Len(roots) - k + 1]

Init == /\ roots \in Seq({IntValue(0)})
        /\ objects = <<>>

Push == \/ \E n \in Ints : Commit(Append(roots, IntValue(n)), objects)
        \/ \E k \in DOMAIN roots : Commit(Append(roots, roots[k]), objects)

Assign == \E k \in DOMAIN roots : Commit([roots EXCEPT ![k] = Top(1)], objects)

Drop == roots # <<>> /\ Commit(Under(1), objects)

(* The characters of a string are not modelled: one that is read is any     *)
(* integer, and storing one changes nothing that is.                       *)
Elem == /\ Len(roots) >= 2 /\ Top(2).kind = "ref" /\ Top(1).kind = "int"
        /\ LET o == objects[Top(2).val]
               k == Top(1).val + 1
           IN  \/ k \in DOMAIN o.elems /\ Commit(Append(Under(2), o.elems[k]), objects)
               \/ /\ o.tag = STRING_TAG
                  /\ \E n \in Ints : Commit(Append(Under(2), IntValue(n)), objects)

(* Only an array's element is kept: the interpreter's assignment to an      *)
(* s-expression has no effect on its fields.                               *)
Store == /\ Len(roots) >= 3 /\ Top(3).kind = "ref" /\ Top(2).kind = "int"
         /\ LET o == Top(3).val
                k == Top(2).val + 1
            IN  /\ objects[o].tag = STRING_TAG \/ k \in DOMAIN objects[o].elems
                /\ Commit(Append(Under(3), Top(1)),
                          IF objects[o].tag = ARRAY_TAG
                            THEN [objects EXCEPT ![o].elems[k] = Top(1)]
                            ELSE objects)

(* A new object takes the place of the last k values: the elements of an    *)
(* array or an s-expression, the value a string is printed from.  A closure *)
(* takes none and holds copies of any.                                     *)
MadeFrom(o, k) ==
  CASE o.tag \in {ARRAY_TAG, SEXP_TAG} -> o.elems = SubSeq(roots, Len(roots) - k + 1, Len(roots))
    [] o.tag = STRING_TAG             -> k \in {0, 1} /\ o.elems = <<>>
    [] OTHER -> k = 0 /\ \A j \in DOMAIN o.elems : \E r \in DOMAIN roots : o.elems[j] = roots[r]

Make == \E i \in Ids \ DOMAIN objects, k \in 0 .. Len(roots) :
          /\ roots' = Append(Under(k), Ref(i))
          /\ i \in DOMAIN objects'
          /\ MadeFrom(objects'[i], k)
          /\ Commit(roots', [j \in DOMAIN objects \cup {i} |->
                               IF j = i THEN objects'[i] ELSE objects[j]])

Next == Push \/ Assign \/ Drop \/ Elem \/ Store \/ Make

Spec == Init /\ [][Next]_vars
=============================================================================
