------------------------ MODULE LamaGCRefinementProofs ------------------------
(***************************************************************************)
(* Proof that the collector implements ObjectGraph: the statements' reads   *)
(* and writes, the collections and the allocations show the program values  *)
(* and objects that last as long as a slot leads to them.                   *)
(* Between statements view is drawn from memory.  While a collection runs    *)
(* it stands still, and ViewInv says from what it can still be drawn: first  *)
(* from what the roots reach, then from what is marked, by the names of the  *)
(* places the objects will take, and, once they move, partly from either.    *)
(* Each step is shown to be a step of the promised memory or to keep what is *)
(* drawn, which the last lemma puts together.                               *)
(* Beside the hypotheses of LamaGCProofs, there are integers and names       *)
(* enough in the promised memory (Ample).                                   *)
(***************************************************************************)
EXTENDS LamaGCProofs

-----------------------------------------------------------------------------
(***************************************************************************)
(* What the program sees.                                                  *)
(***************************************************************************)

(* Object h of memory m, values named by names.                             *)
ObjectAt(m, h, names) ==
  [tag   |-> TAG(m[h]),
   elems |-> [k \in 1 .. Len(Fields(m, h)) |-> ValueOf(m[Fields(m, h)[k]], names)]]

(* objs shows the objects N of memory m, which own names them apart.        *)
Drawn(objs, N, own, m, names) ==
  /\ \A g, h \in N : own[g] = own[h] => g = h
  /\ objs = [i \in {own[h] : h \in N} |-> objs[i]]
  /\ \A h \in N : objs[own[h]] = ObjectAt(m, h, names)

(* The words of the slots in use and of the extra roots, and what they reach. *)
RootWords == {stack[k] : k \in 0 .. sp - 1} \cup {extra_roots[k] : k \in 1 .. Len(extra_roots)}
Reach == Reached(mem, AllObjects, RootWords)

(* What an address of the old chunk, and an object not yet moved, is known by. *)
OldNames == [a \in Olds |-> ids[Dest(mem, a - old.begin + heap.begin)]]
DestNames(N) == [h \in N |-> ids[Dest(mem, h)]]

(* While objects move: those moved go by their own names, those that still   *)
(* lie where they lay by the names of their destinations.                  *)
Moving == Done \cup Black(mem, Rest)
MoveNames == [h \in Moving |-> IF h \in Done THEN ids[h] ELSE ids[Dest(mem, h)]]

(* The first slots have been corrected and name objects by fixed; the rest   *)
(* and the extra roots name them by unfixed.                               *)
RootsSeen(slots, fixed, unfixed) ==
  view.roots = [j \in 1 .. sp + Len(extra_roots) |->
                  IF j > sp THEN ValueOf(extra_roots[j - sp], unfixed)
                  ELSE ValueOf(stack[j - 1], IF j - 1 < slots THEN fixed ELSE unfixed)]

(* What view is drawn from in each phase.                                   *)
ViewInv ==
  /\ phase \in {"mutator", "roots", "queue", "map"} => RootsSeen(sp, ids, ids)
  /\ phase \in {"mutator", "roots", "queue"} => Drawn(view.objects, Reach, ids, mem, ids)
  /\ phase = "map" => Drawn(view.objects, Black(mem, AllObjects), ids, mem, ids)
  /\ phase = "fields" =>
       /\ RootsSeen(0, ids, OldNames)
       /\ Drawn(view.objects, Black(mem, AllObjects), DestNames(Black(mem, AllObjects)), mem, OldNames)
  /\ phase = "stack" =>
       /\ RootsSeen(next, ids, OldNames)
       /\ Drawn(view.objects, Black(mem, AllObjects), DestNames(Black(mem, AllObjects)), mem, ids)
  /\ phase = "move" =>
       /\ RootsSeen(sp, ids, ids)
       /\ Drawn(view.objects, Moving, MoveNames, mem, ids)

(* The heap ends on a page mmap may hand out, and the literals still to come  *)
(* are integers of the promised memory.                                    *)
Placed == phase \notin Ends => \E n \in Pages : heap.begin + heap.size <= (n + 1) * PAGE
LiteralInv == phase \notin Ends => \A k \in DOMAIN todo : todo[k].op = "CONST" => todo[k].a \in INTS

-----------------------------------------------------------------------------
(* The references among values and among an object's elements.              *)
LEMMA RefsOfValues ==
  ASSUME NEW D, NEW ws, NEW names, NEW vs,
         DOMAIN vs = D, \A j \in D : vs[j] = ValueOf(ws[j], names)
  PROVE  /\ \A j \in D : IsRef(ws[j], names) => names[HeaderOf(ws[j])] \in Abstract!RefsIn(vs)
         /\ \A i \in Abstract!RefsIn(vs) : \E j \in D : IsRef(ws[j], names) /\ i = names[HeaderOf(ws[j])]
<1>2. \A w : IsRef(w, names) => ValueOf(w, names).kind = "ref" /\ ValueOf(w, names).val = names[HeaderOf(w)]
  BY DEF ValueOf, IsRef
<1>3. \A w : ValueOf(w, names).kind = "ref" => IsRef(w, names)
  BY DEF ValueOf, IsRef
<1>4. Abstract!RefsIn(vs) = {vs[k].val : k \in {j \in D : vs[j].kind = "ref"}}
  BY DEF Abstract!RefsIn
<1>5. \A j \in D : IsRef(ws[j], names) => vs[j].kind = "ref" /\ vs[j].val = names[HeaderOf(ws[j])]
  BY <1>2
<1>6. \A j \in D : vs[j].kind = "ref" => IsRef(ws[j], names) /\ vs[j].val = names[HeaderOf(ws[j])]
  BY <1>2, <1>3
<1> QED
  BY <1>4, <1>5, <1>6

(* The fields of an object, by position and as a set.                       *)
LEMMA FieldsIndexed ==
  ASSUME NEW m, NEW O, NEW b, NEW c, Sound(m, O, b, c), NEW h \in O
  PROVE  /\ Len(Fields(m, h)) \in Nat /\ DOMAIN Fields(m, h) = 1 .. Len(Fields(m, h))
         /\ \A k \in 1 .. Len(Fields(m, h)) : Fields(m, h)[k] \in FieldsAt(m, h)
         /\ \A f \in FieldsAt(m, h) : \E k \in 1 .. Len(Fields(m, h)) : f = Fields(m, h)[k]
<1>1. Fields(m, h) \in Seq(Nat) /\ ToSet(Fields(m, h)) = FieldsAt(m, h)
  BY SoundFacts
<1>2. Len(Fields(m, h)) \in Nat /\ DOMAIN Fields(m, h) = 1 .. Len(Fields(m, h))
  BY <1>1
<1> HIDE DEF Fields, FieldsAt
<1> QED
  BY <1>1, <1>2 DEF ToSet

(* What an object refers to, shown and in memory.                           *)
LEMMA RefsOfObject ==
  ASSUME NEW m, NEW O, NEW b, NEW c, Sound(m, O, b, c), NEW h \in O, NEW names
  PROVE  LET refs == Abstract!RefsIn(ObjectAt(m, h, names).elems)
         IN  /\ \A f \in FieldsAt(m, h) : IsRef(m[f], names) => names[HeaderOf(m[f])] \in refs
             /\ \A i \in refs : \E f \in FieldsAt(m, h) : IsRef(m[f], names) /\ i = names[HeaderOf(m[f])]
<1> DEFINE D == 1 .. Len(Fields(m, h))
           ws == [k \in D |-> m[Fields(m, h)[k]]]
           vs == ObjectAt(m, h, names).elems
<1>1. \A k \in D : ws[k] = m[Fields(m, h)[k]]
  OBVIOUS
<1> HIDE DEF ws
<1>2. DOMAIN vs = D /\ \A k \in D : vs[k] = ValueOf(ws[k], names)
  BY <1>1 DEF ObjectAt
<1> HIDE DEF vs
<1>3. /\ \A j \in D : IsRef(ws[j], names) => names[HeaderOf(ws[j])] \in Abstract!RefsIn(vs)
      /\ \A i \in Abstract!RefsIn(vs) : \E j \in D : IsRef(ws[j], names) /\ i = names[HeaderOf(ws[j])]
  BY <1>2, RefsOfValues
<1>4. /\ \A k \in D : Fields(m, h)[k] \in FieldsAt(m, h)
      /\ \A f \in FieldsAt(m, h) : \E k \in D : f = Fields(m, h)[k]
  BY FieldsIndexed
<1> HIDE DEF D
<1>5. \A f \in FieldsAt(m, h) : IsRef(m[f], names) => names[HeaderOf(m[f])] \in Abstract!RefsIn(vs)
  BY <1>1, <1>3, <1>4
<1>6. \A i \in Abstract!RefsIn(vs) : \E f \in FieldsAt(m, h) : IsRef(m[f], names) /\ i = names[HeaderOf(m[f])]
  BY <1>1, <1>3, <1>4
<1> QED
  BY <1>5, <1>6 DEF vs

(* A reference to what S holds leads into S.                                *)
LEMMA IsLegal ==
  ASSUME NEW O \in SUBSET Nat, NEW names, DOMAIN names = O, NEW w, Is(w, O),
         NEW S, IsRef(w, names) => HeaderOf(w) \in S
  PROVE  Leads(w, S)
<1>1. CASE UNBOXED(w)
  BY <1>1 DEF Leads
<1>2. CASE ~ UNBOXED(w)
  <2>1. PICK h \in O : w = Content(h)
    BY <1>2 DEF Is
  <2>2. HeaderOf(w) = h
    BY <2>1, ContentFacts
  <2> QED
    BY <1>2, <2>2 DEF IsRef, Leads
<1> QED
  BY <1>1, <1>2

(* What values lead to in a drawing is what their words lead to in memory.   *)
LEMMA LiveIs ==
  ASSUME NEW m, NEW O, NEW b, NEW c, Sound(m, O, b, c), Holding(m, O, O),
         NEW names, DOMAIN names = O, NEW N \in SUBSET O, NEW objs, Drawn(objs, N, names, m, names),
         \A h \in N : \A f \in FieldsAt(m, h) : Leads(m[f], N),
         NEW D, NEW ws, NEW vs, DOMAIN vs = D, \A j \in D : vs[j] = ValueOf(ws[j], names),
         \A j \in D : Is(ws[j], O) /\ Leads(ws[j], N),
         NEW W, \A j \in D : ws[j] \in W, \A w \in W : \E j \in D : w = ws[j]
  PROVE  /\ Reached(m, O, W) \in SUBSET N
         /\ Abstract!Live(vs, objs) = {names[h] : h \in Reached(m, O, W)}
<1> DEFINE R == Reached(m, O, W)
           refs == Abstract!RefsIn(vs)
<1>1. O \in SUBSET Nat /\ R \subseteq O
  BY SoundFacts DEF Reached
<1>2. R \subseteq N
  <2>1. \A w \in W : Leads(w, N)
    OBVIOUS
  <2> QED
    BY <2>1 DEF Reached
<1>3. /\ \A j \in D : Leads(ws[j], R)
      /\ \A x \in R : \A f \in FieldsAt(m, x) : Leads(m[f], R)
  <2>1. /\ \A w \in W : Is(w, O) => Leads(w, R)
        /\ \A x \in R : \A f \in FieldsAt(m, x) : Is(m[f], O) => Leads(m[f], R)
    BY <1>1, ReachedHolds
  <2>2. \A x \in R : \A f \in FieldsAt(m, x) : Is(m[f], O)
    BY <1>1 DEF Holding
  <2>3. \A j \in D : ws[j] \in W
    OBVIOUS
  <2> QED
    BY <2>1, <2>2, <2>3
<1> HIDE DEF R
<1>4. /\ \A j \in D : IsRef(ws[j], names) => names[HeaderOf(ws[j])] \in refs
      /\ \A i \in refs : \E j \in D : IsRef(ws[j], names) /\ i = names[HeaderOf(ws[j])]
  BY RefsOfValues
<1> HIDE DEF refs
<1> DEFINE refsOf(i) == Abstract!RefsIn(objs[i].elems)
<1>5. ASSUME NEW h \in N
      PROVE  /\ \A f \in FieldsAt(m, h) : IsRef(m[f], names) => names[HeaderOf(m[f])] \in refsOf(names[h])
             /\ \A i \in refsOf(names[h]) :
                  \E f \in FieldsAt(m, h) : IsRef(m[f], names) /\ i = names[HeaderOf(m[f])]
  <2>1. objs[names[h]] = ObjectAt(m, h, names)
    BY DEF Drawn
  <2> HIDE DEF ObjectAt
  <2> QED
    BY <2>1, RefsOfObject
<1> HIDE DEF refsOf
<1>6. \A g, h \in N : names[g] = names[h] => g = h
  BY DEF Drawn
<1>7. DOMAIN objs = {names[h] : h \in N}
  BY DEF Drawn
<1>8. \A w, S : Leads(w, S) /\ IsRef(w, names) => HeaderOf(w) \in S
  BY DEF Leads, IsRef
<1>9. ASSUME NEW w, Is(w, O), NEW S, IsRef(w, names) => HeaderOf(w) \in S
      PROVE  Leads(w, S)
  BY <1>1, <1>9, IsLegal
<1>10. \A S : Abstract!Closed(S, objs) <=> \A i \in S : refsOf(i) \subseteq S
  BY DEF Abstract!Closed, refsOf
<1>11. Abstract!Live(vs, objs) =
         {i \in DOMAIN objs : \A S \in SUBSET DOMAIN objs :
            refs \subseteq S /\ (\A j \in S : refsOf(j) \subseteq S) => i \in S}
  BY <1>10 DEF Abstract!Live, refs
<1>12. ASSUME NEW h \in R, NEW S \in SUBSET DOMAIN objs, refs \subseteq S,
              \A i \in S : refsOf(i) \subseteq S
       PROVE  names[h] \in S
  <2> DEFINE T == {x \in N : names[x] \in S}
  <2>1. \A j \in D : Leads(ws[j], T)
    <3> SUFFICES ASSUME NEW j \in D PROVE Leads(ws[j], T)
      OBVIOUS
    <3>1. IsRef(ws[j], names) => HeaderOf(ws[j]) \in N /\ names[HeaderOf(ws[j])] \in S
      BY <1>4, <1>8, <1>12
    <3>2. IsRef(ws[j], names) => HeaderOf(ws[j]) \in T
      BY <3>1
    <3> HIDE DEF T
    <3> QED
      BY <1>9, <3>2
  <2>2. ASSUME NEW x \in T, NEW f \in FieldsAt(m, x) PROVE Leads(m[f], T)
    <3>1. x \in N /\ names[x] \in S
      BY <2>2
    <3>2. Is(m[f], O) /\ Leads(m[f], N)
      BY <2>2, <3>1 DEF Holding
    <3>3. IsRef(m[f], names) => HeaderOf(m[f]) \in N /\ names[HeaderOf(m[f])] \in S
      BY <1>5, <1>8, <1>12, <2>2, <3>1, <3>2
    <3>4. IsRef(m[f], names) => HeaderOf(m[f]) \in T
      BY <3>3
    <3> HIDE DEF T
    <3> QED
      BY <1>9, <3>2, <3>4
  <2>3. T \in SUBSET O
    OBVIOUS
  <2>4. h \in T
    <3> HIDE DEF T
    <3>1. \A w \in W : Leads(w, T)
      BY <2>1
    <3> QED
      BY <2>2, <2>3, <3>1 DEF Reached, R
  <2> QED
    BY <2>4
<1>13. ASSUME NEW i \in DOMAIN objs,
              \A S \in SUBSET DOMAIN objs : refs \subseteq S /\ (\A j \in S : refsOf(j) \subseteq S) => i \in S
       PROVE  i \in {names[h] : h \in R}
  <2> DEFINE S == {names[h] : h \in R}
  <2>1. S \in SUBSET DOMAIN objs
    BY <1>2, <1>7
  <2>2. refs \subseteq S
    <3> SUFFICES ASSUME NEW k \in refs PROVE k \in S
      OBVIOUS
    <3>1. PICK j \in D : IsRef(ws[j], names) /\ k = names[HeaderOf(ws[j])]
      BY <1>4
    <3>2. HeaderOf(ws[j]) \in R
      BY <1>3, <1>8, <3>1
    <3> QED
      BY <3>1, <3>2
  <2>3. ASSUME NEW k \in S, NEW l \in refsOf(k) PROVE l \in S
    <3>1. PICK h \in R : k = names[h]
      BY <2>3
    <3>2. PICK f \in FieldsAt(m, h) : IsRef(m[f], names) /\ l = names[HeaderOf(m[f])]
      BY <1>2, <1>5, <2>3, <3>1
    <3>3. HeaderOf(m[f]) \in R
      BY <1>3, <1>8, <3>2
    <3> QED
      BY <3>2, <3>3
  <2> HIDE DEF S
  <2>4. i \in S
    BY <1>13, <2>1, <2>2, <2>3
  <2> QED
    BY <2>4 DEF S
<1>14. {names[h] : h \in R} \subseteq DOMAIN objs
  BY <1>2, <1>7
<1>15. Abstract!Live(vs, objs) = {names[h] : h \in R}
  <2>1. \A i \in {names[h] : h \in R} : i \in Abstract!Live(vs, objs)
    BY <1>11, <1>12, <1>14
  <2>2. \A i \in Abstract!Live(vs, objs) : i \in {names[h] : h \in R}
    BY <1>11, <1>13
  <2> QED
    BY <2>1, <2>2
<1> QED
  BY <1>2, <1>15 DEF R

(* The graph of a memory is the live part of any drawing of it.              *)
LEMMA Snapshot ==
  ASSUME NEW m, NEW O, NEW b, NEW c, Sound(m, O, b, c), Holding(m, O, O), IsFiniteSet(DOMAIN m),
         NEW names, DOMAIN names = O, NEW N \in SUBSET O, NEW objs, Drawn(objs, N, names, m, names),
         \A h \in N : \A f \in FieldsAt(m, h) : Leads(m[f], N),
         NEW slots, \A j \in DOMAIN slots : Is(slots[j], O) /\ Leads(slots[j], N)
  PROVE  LET g == Graph(slots, m, names)
         IN  /\ g.roots = [j \in DOMAIN slots |-> ValueOf(slots[j], names)]
             /\ g.objects = [i \in Abstract!Live(g.roots, objs) |-> objs[i]]
             /\ Reached(m, O, ToSet(slots)) \in SUBSET N
             /\ Drawn(g.objects, Reached(m, O, ToSet(slots)), names, m, names)
<1> DEFINE D == DOMAIN slots
           W == ToSet(slots)
           R == Reached(m, O, W)
           g == Graph(slots, m, names)
           vs == [j \in D |-> ValueOf(slots[j], names)]
           object(i) == ObjectAt(m, CHOOSE h \in R : names[h] = i, names)
<1>1. W = {slots[j] : j \in D}
  BY DEF ToSet
<1>2. \A w \in W : Is(w, O)
  BY <1>1
<1> HIDE DEF W
<1>3. Held(W, m, names) = R
  BY <1>2, HeldIs
<1>4. g.roots = vs
  BY DEF Graph
<1>5. g.objects = [i \in {names[h] : h \in Held(W, m, names)} |->
                     ObjectAt(m, CHOOSE h \in Held(W, m, names) : names[h] = i, names)]
  BY DEF Graph, ObjectAt, W
<1>6. g.objects = [i \in {names[h] : h \in R} |-> object(i)]
  BY <1>3, <1>5
<1>7. DOMAIN vs = D /\ \A j \in D : vs[j] = ValueOf(slots[j], names)
  OBVIOUS
<1> HIDE DEF vs, g
<1>8. (\A j \in D : slots[j] \in W) /\ (\A w \in W : \E j \in D : w = slots[j])
  BY <1>1
<1>9. R \in SUBSET N /\ Abstract!Live(vs, objs) = {names[h] : h \in R}
  BY <1>7, <1>8, LiveIs
<1> HIDE DEF R
<1>10. /\ \A x, y \in N : names[x] = names[y] => x = y
       /\ \A h \in N : objs[names[h]] = ObjectAt(m, h, names)
  BY DEF Drawn
<1> HIDE DEF object
<1>11. \A h \in R : object(names[h]) = objs[names[h]]
  <2> SUFFICES ASSUME NEW h \in R PROVE object(names[h]) = objs[names[h]]
    OBVIOUS
  <2>1. (CHOOSE x \in R : names[x] = names[h]) = h
    BY <1>9, <1>10
  <2>2. object(names[h]) = ObjectAt(m, h, names)
    BY <2>1 DEF object
  <2> QED
    BY <1>9, <1>10, <2>2
<1>12. DOMAIN g.objects = {names[h] : h \in R} /\ \A i \in {names[h] : h \in R} : g.objects[i] = object(i)
  BY <1>6
<1>13. \A i \in {names[h] : h \in R} : object(i) = objs[i]
  BY <1>11
<1>14. g.objects = [i \in {names[h] : h \in R} |-> objs[i]]
  BY <1>6, <1>13
<1>15. g.objects = [i \in Abstract!Live(g.roots, objs) |-> objs[i]]
  BY <1>4, <1>9, <1>14
<1>16. Drawn(g.objects, R, names, m, names)
  <2>1. \A x, y \in R : names[x] = names[y] => x = y
    BY <1>9, <1>10
  <2>2. \A h \in R : g.objects[names[h]] = ObjectAt(m, h, names)
    BY <1>9, <1>10, <1>12, <1>13
  <2>3. g.objects = [i \in {names[h] : h \in R} |-> g.objects[i]]
    BY <1>6, <1>12
  <2> QED
    BY <2>1, <2>2, <2>3 DEF Drawn
<1>17. g.roots = [j \in DOMAIN slots |-> ValueOf(slots[j], names)]
  BY <1>4 DEF vs
<1> QED
  BY <1>9, <1>15, <1>16, <1>17 DEF g, R, W

-----------------------------------------------------------------------------
(* The slots in use as a sequence and as a set.                             *)
LEMMA SlotWords ==
  ASSUME NEW st, NEW n \in Nat
  PROVE  LET s == [j \in 1 .. n |-> st[j - 1]]
         IN  <<>> \o s = s /\ ToSet(s) = {st[k] : k \in 0 .. n - 1}
<1> DEFINE s == [j \in 1 .. n |-> st[j - 1]]
           U == {st[j - 1] : j \in 1 .. n}
<1>1. DOMAIN s = 1 .. n /\ \A j \in 1 .. n : s[j] = st[j - 1] /\ j - 1 \in 0 .. n - 1
  OBVIOUS
<1>2. \A k \in 0 .. n - 1 : k + 1 \in 1 .. n /\ (k + 1) - 1 = k
  OBVIOUS
<1>3. <<>> \o s = s
  <2>1. \A j \in 1 .. n : st[j - 1] \in U
    OBVIOUS
  <2> HIDE DEF U
  <2>2. s \in Seq(U)
    BY <2>1
  <2> HIDE DEF s
  <2> QED
    BY <2>2
<1> HIDE DEF s
<1>4. ToSet(s) = {st[k] : k \in 0 .. n - 1}
  <2>1. \A k \in 0 .. n - 1 : s[k + 1] = st[k]
    BY <1>1, <1>2
  <2> QED
    BY <1>1, <1>2, <2>1 DEF ToSet
<1> QED
  BY <1>3, <1>4 DEF s

(* What the program sees when it runs is the live part of a drawing in which  *)
(* its slots and the objects drawn lead to nothing else.                    *)
LEMMA Observed ==
  ASSUME GCInv', phase' = "mutator", Observe,
         NEW N \in SUBSET AllObjects', NEW objs, Drawn(objs, N, ids', mem', ids'),
         \A h \in N : \A f \in FieldsAt(mem', h) : Leads(mem'[f], N),
         \A j \in 0 .. sp' - 1 : Leads(stack'[j], N)
  PROVE  /\ view'.roots = [j \in 1 .. sp' |-> ValueOf(stack'[j - 1], ids')]
         /\ view'.objects = [i \in Abstract!Live(view'.roots, objs) |-> objs[i]]
         /\ ViewInv' /\ Reach' \in SUBSET N
<1> DEFINE s == [j \in 1 .. sp' |-> stack'[j - 1]]
           O == AllObjects'
           W == {stack'[k] : k \in 0 .. sp' - 1}
<1>1. /\ TypeOK' /\ ProgramInv' /\ HeapInv'
  BY DEF GCInv, TypeInv
<1>2. /\ Sound(mem', O, heap'.begin, heap'.current) /\ Holding(mem', O, O) /\ DOMAIN ids' = O
      /\ UNBOXED(stack'[0]) /\ (\A j \in 1 .. sp' - 1 : Is(stack'[j], O))
  BY <1>1 DEF HeapInv, Rooted
<1>2a. extra_roots' = <<>>
  BY <1>1 DEF ProgramInv, Ends
<1>3. sp' \in Nat /\ sp' >= 1 /\ sp' <= STACK_MAX_SIZE /\ STACK_MAX_SIZE \in Nat
  BY <1>1, SizesAssumption DEF ProgramInv, Ends
<1>4. /\ stack' \in [Slots -> Word]
      /\ mem' \in [heap'.begin .. heap'.begin + heap'.size - 1 -> Word]
      /\ heap'.begin \in Nat /\ heap'.size \in Nat
  BY <1>1 DEF TypeOK, IsChunk
<1>5. IsFiniteSet(DOMAIN mem')
  <2>1. DOMAIN mem' = heap'.begin .. heap'.begin + heap'.size - 1 /\ heap'.begin + heap'.size - 1 \in Int
    BY <1>4
  <2> QED
    BY <1>4, <2>1, FS_Interval
<1>6. \A j \in 0 .. sp' - 1 : Is(stack'[j], O)
  <2>1. 0 \in Slots
    BY <1>3 DEF Slots
  <2>2. Is(stack'[0], O)
    BY <1>2, <1>4, <2>1 DEF Is
  <2>3. \A j \in 0 .. sp' - 1 : j = 0 \/ j \in 1 .. sp' - 1
    <3> DEFINE p == sp'
    <3>1. p \in Nat
      BY <1>3
    <3> HIDE DEF p
    <3>2. \A j \in 0 .. p - 1 : j = 0 \/ j \in 1 .. p - 1
      BY ONLY <3>1
    <3> QED
      BY <3>2 DEF p
  <2> HIDE DEF O
  <2>4. \A j \in 1 .. sp' - 1 : Is(stack'[j], O)
    BY <1>2
  <2> QED
    BY ONLY <2>2, <2>3, <2>4
<1>7. <<>> \o s = s /\ ToSet(s) = W
  <2>1. sp' \in Nat
    BY <1>3
  <2>2. LET r == [j \in 1 .. sp' |-> stack'[j - 1]]
        IN  <<>> \o r = r /\ ToSet(r) = {stack'[k] : k \in 0 .. sp' - 1}
    BY ONLY <2>1, SlotWords
  <2> QED
    BY ONLY <2>2
<1>7a. InUseSlots' = s
  BY <1>7 DEF InUseSlots
<1>8. DOMAIN s = 1 .. sp' /\ \A j \in 1 .. sp' : s[j] = stack'[j - 1] /\ j - 1 \in 0 .. sp' - 1
  <2>1. \A j \in 1 .. sp' : j - 1 \in 0 .. sp' - 1
    <3> DEFINE p == sp'
    <3>1. p \in Nat
      BY <1>3
    <3> HIDE DEF p
    <3>2. \A j \in 1 .. p : j - 1 \in 0 .. p - 1
      BY ONLY <3>1
    <3> QED
      BY <3>2 DEF p
  <2>2. DOMAIN s = 1 .. sp' /\ \A j \in 1 .. sp' : s[j] = stack'[j - 1]
    OBVIOUS
  <2> QED
    BY ONLY <2>1, <2>2
<1> HIDE DEF s, O
<1>10. RootWords' = W
  <2>1. Len(extra_roots') = 0
    BY <1>2a
  <2> QED
    BY <2>1 DEF RootWords
<1> HIDE DEF W
<1>11. \A j \in DOMAIN s : Is(s[j], O) /\ Leads(s[j], N)
  BY <1>6, <1>8
<1>12. LET g == Graph(s, mem', ids')
       IN  /\ g.roots = [j \in DOMAIN s |-> ValueOf(s[j], ids')]
           /\ g.objects = [i \in Abstract!Live(g.roots, objs) |-> objs[i]]
           /\ Reached(mem', O, ToSet(s)) \in SUBSET N
           /\ Drawn(g.objects, Reached(mem', O, ToSet(s)), ids', mem', ids')
  BY <1>2, <1>5, <1>11, Snapshot DEF O
<1>13. view' = Graph(s, mem', ids')
  BY <1>7a DEF Observe
<1> HIDE DEF Graph
<1>14. Reach' = Reached(mem', O, ToSet(s))
  BY <1>7, <1>10 DEF Reach, O
<1>15. view'.roots = [j \in 1 .. sp' |-> ValueOf(stack'[j - 1], ids')]
  BY <1>8, <1>12, <1>13
<1>16. RootsSeen(sp, ids, ids)'
  <2>1. Len(extra_roots') = 0
    BY <1>2a
  <2>2. \A j \in 1 .. sp' : ~ (j > sp') /\ j - 1 < sp'
    BY <1>3
  <2>3. 1 .. sp' + Len(extra_roots') = 1 .. sp'
    <3> DEFINE e == Len(extra_roots')
    <3>1. e = 0
      BY <2>1
    <3> HIDE DEF e
    <3>2. 1 .. sp' + e = 1 .. sp'
      BY <1>3, <3>1
    <3> QED
      BY <3>2 DEF e
  <2> QED
    BY <1>15, <2>2, <2>3 DEF RootsSeen
<1>17. Drawn(view'.objects, Reach', ids', mem', ids')
  BY <1>12, <1>13, <1>14
<1>18. ViewInv'
  BY <1>16, <1>17 DEF ViewInv
<1> QED
  BY <1>12, <1>13, <1>14, <1>15, <1>18

-----------------------------------------------------------------------------
(* Sequences given by their elements.                                       *)
Listed(s, n) == s = [j \in 1 .. n |-> s[j]]

(* A sequence given by its elements has them and its length.                *)
LEMMA ListedIs ==
  ASSUME NEW n \in Nat, NEW s, Listed(s, n)
  PROVE  /\ s \in Seq({s[j] : j \in 1 .. n}) /\ Len(s) = n /\ DOMAIN s = 1 .. n
<1> DEFINE U == {s[j] : j \in 1 .. n}
<1>1. \A j \in 1 .. n : s[j] \in U
  OBVIOUS
<1> HIDE DEF U
<1>2. s = [j \in 1 .. n |-> s[j]]
  BY DEF Listed
<1>3. s \in [1 .. n -> U]
  BY <1>1, <1>2
<1>4. s \in Seq(U)
  BY <1>3
<1>5. DOMAIN s = 1 .. n
  BY <1>3
<1>6. Len(s) = n
  BY <1>4, <1>5
<1> QED
  BY <1>4, <1>5, <1>6 DEF U

(* Two such sequences with the same elements are equal.                     *)
LEMMA SameListed ==
  ASSUME NEW n \in Nat, NEW s, Listed(s, n), NEW t, Listed(t, n), \A j \in 1 .. n : s[j] = t[j]
  PROVE  s = t
BY DEF Listed

(* What is left of s when k elements are taken off, and v put in their place. *)
LEMMA UnderIs ==
  ASSUME NEW n \in Nat, NEW s, Listed(s, n), NEW k \in 0 .. n
  PROVE  /\ Listed(SubSeq(s, 1, n - k), n - k)
         /\ \A j \in 1 .. n - k : SubSeq(s, 1, n - k)[j] = s[j]
<1> DEFINE U == {s[j] : j \in 1 .. n}
<1>1. s \in Seq(U) /\ Len(s) = n
  BY ListedIs
<1> HIDE DEF U
<1> DEFINE t == SubSeq(s, 1, n - k)
<1>2. t = [j \in 1 .. (n - k) |-> s[j]]
  BY <1>1
<1> HIDE DEF t
<1>3. \A j \in 1 .. n - k : t[j] = s[j]
  BY <1>2
<1>4. Listed(t, n - k)
  BY <1>2, <1>3 DEF Listed
<1> QED
  BY <1>3, <1>4 DEF t

(* One value more at the end.                                               *)
LEMMA AppendIs ==
  ASSUME NEW n \in Nat, NEW s, Listed(s, n), NEW v, NEW t, Listed(t, n + 1),
         \A j \in 1 .. n : t[j] = s[j], t[n + 1] = v
  PROVE  t = Append(s, v)
<1> DEFINE U == {s[j] : j \in 1 .. n} \cup {v}
           r == Append(s, v)
<1>1. s \in Seq({s[j] : j \in 1 .. n}) /\ Len(s) = n
  BY ListedIs
<1>2. s \in Seq(U) /\ v \in U
  BY <1>1
<1> HIDE DEF U
<1>3. /\ r \in Seq(U) /\ Len(r) = n + 1 /\ (\A j \in 1 .. n : r[j] = s[j]) /\ r[n + 1] = v
  BY <1>1, <1>2
<1> HIDE DEF r
<1>4. r = [j \in 1 .. n + 1 |-> r[j]]
  BY <1>3
<1>5. \A j \in 1 .. n + 1 : j \in 1 .. n \/ j = n + 1
  OBVIOUS
<1>6. \A j \in 1 .. n + 1 : r[j] = t[j]
  BY <1>3, <1>5
<1>7. r = t
  BY <1>4, <1>6, SameListed DEF Listed
<1> QED
  BY <1>7 DEF r

(* The last k values give way to one.                                       *)
LEMMA PutIs ==
  ASSUME NEW n \in Nat, NEW s, Listed(s, n), NEW k \in 0 .. n, NEW v,
         NEW t, Listed(t, n - k + 1), \A j \in 1 .. n - k : t[j] = s[j], t[n - k + 1] = v
  PROVE  t = Append(SubSeq(s, 1, Len(s) - k), v)
<1> DEFINE u == SubSeq(s, 1, n - k)
<1>1. Listed(u, n - k) /\ (\A j \in 1 .. n - k : u[j] = s[j]) /\ n - k \in Nat /\ Len(s) = n
  <2>1. Listed(u, n - k) /\ (\A j \in 1 .. n - k : u[j] = s[j])
    BY UnderIs
  <2>2. Len(s) = n
    BY ListedIs
  <2>3. n - k \in Nat
    OBVIOUS
  <2> QED
    BY <2>1, <2>2, <2>3
<1> HIDE DEF u
<1>2. t = Append(u, v)
  BY <1>1, AppendIs
<1> QED
  BY <1>1, <1>2 DEF u

(* The last k values.                                                       *)
LEMMA TopIs ==
  ASSUME NEW n \in Nat, NEW s, Listed(s, n), NEW k \in 0 .. n,
         NEW t, Listed(t, k), \A j \in 1 .. k : t[j] = s[n - k + j]
  PROVE  t = SubSeq(s, Len(s) - k + 1, Len(s))
<1> DEFINE U == {s[j] : j \in 1 .. n}
           r == SubSeq(s, n - k + 1, n)
<1>1. s \in Seq(U) /\ Len(s) = n
  BY ListedIs
<1> HIDE DEF U
<1>2. r = [j \in 1 .. k |-> s[n - k + j]]
  <2>1. \A j \in 1 .. k : (n - k + 1) + j - 1 = n - k + j
    OBVIOUS
  <2> QED
    BY <1>1, <2>1
<1> HIDE DEF r
<1>3. \A j \in 1 .. k : r[j] = s[n - k + j]
  BY <1>2
<1>4. Listed(r, k)
  BY <1>2, <1>3 DEF Listed
<1>5. t = r
  <2>1. k \in Nat
    OBVIOUS
  <2> QED
    BY <1>3, <1>4, <2>1, SameListed
<1> QED
  BY <1>1, <1>5 DEF r

-----------------------------------------------------------------------------
(* The mutator's steps.                                                     *)
LEMMA ReachFacts ==
  ASSUME NEW O \in SUBSET Nat, O = AllObjects, Holding(mem, O, O),
         sp \in Nat, \A j \in 0 .. sp - 1 : Is(stack[j], O)
  PROVE  /\ Reach \in SUBSET O
         /\ \A j \in 0 .. sp - 1 : Leads(stack[j], Reach)
         /\ \A h \in Reach : \A f \in FieldsAt(mem, h) : Leads(mem[f], Reach)
<1> DEFINE W == RootWords
           R == Reached(mem, O, W)
<1>1. R \in SUBSET O /\ Reach = R
  BY DEF Reached, Reach
<1>2. /\ \A w \in W : Is(w, O) => Leads(w, R)
      /\ \A x \in R : \A f \in FieldsAt(mem, x) : Is(mem[f], O) => Leads(mem[f], R)
  BY ReachedHolds
<1>3. \A j \in 0 .. sp - 1 : stack[j] \in W
  BY DEF RootWords
<1> HIDE DEF R, W
<1>4. \A h \in R : \A f \in FieldsAt(mem, h) : Leads(mem[f], R)
  BY <1>1, <1>2 DEF Holding
<1>5. \A j \in 0 .. sp - 1 : Leads(stack[j], R)
  BY <1>2, <1>3
<1> QED
  BY <1>1, <1>4, <1>5

(* What the invariant says of the stack while the program runs.             *)
LEMMA ViewFacts ==
  ASSUME WellBehaved, GCInv, ViewInv, phase = "mutator"
  PROVE  /\ Listed(view.roots, sp) /\ sp \in Nat
         /\ Len(view.roots) = sp /\ DOMAIN view.roots = 1 .. sp
         /\ \A j \in 1 .. sp : view.roots[j] = ValueOf(stack[j - 1], ids)
         /\ Drawn(view.objects, Reach, ids, mem, ids)
         /\ Reach \in SUBSET AllObjects
         /\ \A j \in 0 .. sp - 1 : Leads(stack[j], Reach)
         /\ \A h \in Reach : \A f \in FieldsAt(mem, h) : Leads(mem[f], Reach)
<1>1. /\ sp \in Nat /\ extra_roots = <<>>
      /\ Sound(mem, AllObjects, heap.begin, heap.current)
      /\ Holding(mem, AllObjects, AllObjects)
      /\ \A j \in 0 .. sp - 1 : Is(stack[j], AllObjects)
  BY MutatorFacts
<1>2. RootsSeen(sp, ids, ids) /\ Drawn(view.objects, Reach, ids, mem, ids)
  BY DEF ViewInv
<1>3. view.roots = [j \in 1 .. sp |-> ValueOf(stack[j - 1], ids)]
  <2> DEFINE e == Len(extra_roots)
  <2>1. e = 0
    BY <1>1
  <2>2. view.roots = [j \in 1 .. sp + e |->
                        IF j > sp THEN ValueOf(extra_roots[j - sp], ids)
                        ELSE ValueOf(stack[j - 1], IF j - 1 < sp THEN ids ELSE ids)]
    BY <1>2 DEF RootsSeen
  <2> HIDE DEF e
  <2>3. 1 .. sp + e = 1 .. sp /\ sp \in Nat
    BY <1>1, <2>1
  <2>4. \A j \in 1 .. sp : ~ (j > sp) /\ j - 1 < sp
    BY <2>3
  <2> QED
    BY <2>2, <2>3, <2>4
<1>4. \A j \in 1 .. sp : view.roots[j] = ValueOf(stack[j - 1], ids)
  BY <1>3
<1>5. Listed(view.roots, sp)
  BY <1>3, <1>4 DEF Listed
<1>6. Len(view.roots) = sp /\ DOMAIN view.roots = 1 .. sp
  BY <1>1, <1>5, ListedIs
<1>7. /\ Reach \in SUBSET AllObjects
      /\ \A j \in 0 .. sp - 1 : Leads(stack[j], Reach)
      /\ \A h \in Reach : \A f \in FieldsAt(mem, h) : Leads(mem[f], Reach)
  <2>1. AllObjects \in SUBSET Nat
    BY <1>1, SoundFacts
  <2> QED
    BY <1>1, <2>1, ReachFacts
<1> QED
  BY <1>1, <1>2, <1>4, <1>5, <1>6, <1>7

(* After an instruction that leaves the memory alone.                        *)
LEMMA StackShows ==
  ASSUME WellBehaved, GCInv, ViewInv, phase = "mutator", GCInv', phase' = "mutator", Observe,
         UNCHANGED <<heap, mem, ids>>,
         \A j \in 0 .. sp' - 1 : Leads(stack'[j], Reach)
  PROVE  /\ ViewInv'
         /\ Listed(view'.roots, sp') /\ sp' \in Nat
         /\ \A j \in 1 .. sp' : view'.roots[j] = ValueOf(stack'[j - 1], ids)
         /\ view'.objects = [i \in Abstract!Live(view'.roots, view.objects) |-> view.objects[i]]
<1>1. /\ Drawn(view.objects, Reach, ids, mem, ids)
      /\ Reach \in SUBSET AllObjects
      /\ \A h \in Reach : \A f \in FieldsAt(mem, h) : Leads(mem[f], Reach)
  BY ViewFacts
<1>2. AllObjects' = AllObjects
  BY DEF AllObjects
<1>3. mem' = mem /\ ids' = ids
  OBVIOUS
<1> DEFINE R == Reach
<1> HIDE DEF R
<1>4. /\ Drawn(view.objects, R, ids', mem', ids')
      /\ R \in SUBSET AllObjects'
      /\ \A h \in R : \A f \in FieldsAt(mem', h) : Leads(mem'[f], R)
      /\ \A j \in 0 .. sp' - 1 : Leads(stack'[j], R)
  BY <1>1, <1>2, <1>3 DEF R
<1>5. /\ view'.roots = [j \in 1 .. sp' |-> ValueOf(stack'[j - 1], ids')]
      /\ view'.objects = [i \in Abstract!Live(view'.roots, view.objects) |-> view.objects[i]]
      /\ ViewInv'
  BY <1>4, Observed
<1>6. sp' \in Nat
  BY SizesAssumption DEF GCInv, ProgramInv, Ends
<1>7. \A j \in 1 .. sp' : view'.roots[j] = ValueOf(stack'[j - 1], ids)
  BY <1>3, <1>5
<1>8. Listed(view'.roots, sp')
  BY <1>3, <1>5, <1>7 DEF Listed
<1> QED
  BY <1>5, <1>6, <1>7, <1>8

(* An instruction takes k values off the stack and puts one there.           *)
LEMMA PutShows ==
  ASSUME WellBehaved, GCInv, ViewInv, phase = "mutator", GCInv', phase' = "mutator", Observe,
         UNCHANGED <<heap, mem, ids>>,
         NEW k \in Nat, k <= sp, sp - k \in Slots, NEW w, Leads(w, Reach),
         stack' = [stack EXCEPT ![sp - k] = w], sp' = sp - k + 1
  PROVE  /\ ViewInv'
         /\ Abstract!Commit(Append(Abstract!Under(k), ValueOf(w, ids)), view.objects)
         /\ k = 0 => Abstract!Commit(Append(view.roots, ValueOf(w, ids)), view.objects)
<1> DEFINE v == ValueOf(w, ids)
           s == view.roots
           t == view'.roots
<1>1. /\ Listed(s, sp) /\ sp \in Nat
      /\ \A j \in 1 .. sp : s[j] = ValueOf(stack[j - 1], ids)
      /\ \A j \in 0 .. sp - 1 : Leads(stack[j], Reach)
  BY ViewFacts
<1>2. stack \in [Slots -> Word]
  BY MutatorFacts
<1>3. /\ \A j \in 0 .. sp' - 1 : j = sp - k \/ (j \in 0 .. sp - 1 /\ j # sp - k)
      /\ \A j \in 1 .. sp - k : j \in 1 .. sp /\ j - 1 \in 0 .. sp - 1 /\ j - 1 # sp - k /\ j \in 1 .. sp'
      /\ sp' \in 1 .. sp' /\ sp' - 1 = sp - k
  BY <1>1
<1>4. stack'[sp - k] = w /\ \A j : j # sp - k /\ j \in Slots => stack'[j] = stack[j]
  BY <1>2
<1>5. \A j \in 0 .. sp - 1 : j \in Slots
  <2>1. sp <= STACK_MAX_SIZE /\ STACK_MAX_SIZE \in Nat
    BY MutatorFacts
  <2> QED
    BY <1>1, <2>1 DEF Slots
<1>6. \A j \in 0 .. sp' - 1 : Leads(stack'[j], Reach)
  BY <1>1, <1>3, <1>4, <1>5
<1>7. /\ ViewInv'
      /\ Listed(t, sp')
      /\ \A j \in 1 .. sp' : t[j] = ValueOf(stack'[j - 1], ids)
      /\ view'.objects = [i \in Abstract!Live(t, view.objects) |-> view.objects[i]]
  BY <1>6, StackShows
<1>8. \A j \in 1 .. sp - k : t[j] = s[j]
  BY <1>1, <1>3, <1>4, <1>5, <1>7
<1>9. t[sp'] = v
  BY <1>3, <1>4, <1>7
<1>10. k \in 0 .. sp /\ sp - k + 1 = sp'
  BY <1>1
<1>11. Listed(t, sp - k + 1) /\ t[sp - k + 1] = v
  BY <1>7, <1>9, <1>10
<1> HIDE DEF v, s, t
<1>12. t = Append(SubSeq(s, 1, Len(s) - k), v)
  BY <1>1, <1>8, <1>10, <1>11, PutIs
<1>13. k = 0 => t = Append(s, v)
  <2> SUFFICES ASSUME k = 0 PROVE t = Append(s, v)
    OBVIOUS
  <2>1. sp - k = sp
    BY <1>1
  <2>2. Listed(t, sp + 1) /\ t[sp + 1] = v /\ \A j \in 1 .. sp : t[j] = s[j]
    BY <1>8, <1>11, <2>1
  <2> QED
    BY <1>1, <2>2, AppendIs
<1> QED
  BY <1>7, <1>12, <1>13 DEF Abstract!Commit, Abstract!Under, v, s, t

(* CONST shows a Push of an integer.                                        *)
LEMMA ConstShows ==
  ASSUME WellBehaved, GCInv, ViewInv, LiteralInv, GCInv', Const, Observe
  PROVE  ViewInv' /\ Abstract!Push
<1>1. /\ phase = "mutator" /\ I.op = "CONST" /\ phase' = phase
      /\ stack' = [stack EXCEPT ![sp - 0] = BOX(I.a)] /\ sp' = sp - 0 + 1
      /\ UNCHANGED <<heap, mem, ids>>
  BY DEF Const, At, Push, Quiet
<1>2. I.a \in Nat /\ Rise(I) = 1
  BY <1>1, MutatorFacts DEF Legal, Rise
<1>3. UNBOXED(BOX(I.a)) /\ UNBOX(BOX(I.a)) = I.a
  BY <1>2 DEF UNBOXED, UNBOX, BOX
<1>4. ValueOf(BOX(I.a), ids) = Abstract!IntValue(I.a) /\ Leads(BOX(I.a), Reach)
  BY <1>3 DEF ValueOf, Abstract!IntValue, Leads
<1>5. 0 <= sp /\ sp - 0 \in Slots
  <2>1. sp \in Nat /\ sp + 1 \in RESERVED .. STACK_MAX_SIZE /\ RESERVED \in Nat /\ STACK_MAX_SIZE \in Nat
    BY <1>1, <1>2, MutatorFacts
  <2> QED
    BY <2>1 DEF Slots
<1>6. ViewInv' /\ Abstract!Commit(Append(view.roots, Abstract!IntValue(I.a)), view.objects)
  BY <1>1, <1>4, <1>5, PutShows
<1>7. I.a \in INTS
  <2>1. Executable(todo, sp)
    BY <1>1 DEF GCInv, ProgramInv, Ends
  <2>2. 1 \in DOMAIN todo /\ I = todo[1]
    BY <2>1 DEF Executable, I
  <2> QED
    BY <1>1, <2>2 DEF LiteralInv, Ends
<1> QED
  BY <1>6, <1>7 DEF Abstract!Push

(* LD shows a Push of a copy.                                               *)
LEMMA LoadShows ==
  ASSUME WellBehaved, GCInv, ViewInv, GCInv', Load, Observe
  PROVE  ViewInv' /\ Abstract!Push
<1>1. /\ phase = "mutator" /\ I.op = "LD" /\ phase' = phase
      /\ stack' = [stack EXCEPT ![sp - 0] = stack[I.a]] /\ sp' = sp - 0 + 1
      /\ UNCHANGED <<heap, mem, ids>>
  BY DEF Load, At, Push, Quiet
<1>2. I.a \in 0 .. sp - 1 /\ Rise(I) = 1
  BY <1>1, MutatorFacts DEF Legal, Rise
<1>3. /\ Leads(stack[I.a], Reach) /\ DOMAIN view.roots = 1 .. sp
      /\ \A j \in 1 .. sp : view.roots[j] = ValueOf(stack[j - 1], ids)
  BY <1>1, <1>2, ViewFacts
<1>4. 0 <= sp /\ sp - 0 \in Slots /\ sp \in Nat
  <2>1. sp \in Nat /\ sp + 1 \in RESERVED .. STACK_MAX_SIZE /\ RESERVED \in Nat /\ STACK_MAX_SIZE \in Nat
    BY <1>1, <1>2, MutatorFacts
  <2> QED
    BY <2>1 DEF Slots
<1>5. ViewInv' /\ Abstract!Commit(Append(view.roots, ValueOf(stack[I.a], ids)), view.objects)
  BY <1>1, <1>3, <1>4, PutShows
<1>6. I.a + 1 \in DOMAIN view.roots /\ view.roots[I.a + 1] = ValueOf(stack[I.a], ids)
  <2>1. I.a + 1 \in 1 .. sp /\ (I.a + 1) - 1 = I.a
    BY <1>2, <1>4
  <2> QED
    BY <1>3, <2>1
<1> QED
  BY <1>5, <1>6 DEF Abstract!Push

(* ST shows an Assign.                                                      *)
LEMMA StoreShows ==
  ASSUME WellBehaved, GCInv, ViewInv, GCInv', Store, Observe
  PROVE  ViewInv' /\ Abstract!Assign
<1> DEFINE s == view.roots
           t == view'.roots
           a == I.a
<1>1. /\ phase = "mutator" /\ I.op = "ST" /\ phase' = phase
      /\ stack' = [stack EXCEPT ![a] = stack[sp - 1]] /\ sp' = sp
      /\ UNCHANGED <<heap, mem, ids>>
  BY DEF Store, At, Top, Quiet
<1>2. a \in 1 .. sp - 1 /\ stack \in [Slots -> Word]
      /\ \A j \in 0 .. sp - 1 : j \in Slots
  BY <1>1, MutatorFacts DEF Legal
<1>3. /\ Listed(s, sp) /\ sp \in Nat /\ Len(s) = sp /\ DOMAIN s = 1 .. sp
      /\ \A j \in 1 .. sp : s[j] = ValueOf(stack[j - 1], ids)
      /\ \A j \in 0 .. sp - 1 : Leads(stack[j], Reach)
  BY <1>1, ViewFacts
<1> HIDE DEF a
<1>4. sp - 1 \in 0 .. sp - 1 /\ \A j \in 0 .. sp - 1 : stack'[j] = IF j = a THEN stack[sp - 1] ELSE stack[j]
  BY <1>1, <1>2, <1>3
<1>5. \A j \in 0 .. sp' - 1 : Leads(stack'[j], Reach)
  BY <1>1, <1>3, <1>4
<1>6. /\ ViewInv'
      /\ Listed(t, sp)
      /\ \A j \in 1 .. sp : t[j] = ValueOf(stack'[j - 1], ids)
      /\ view'.objects = [i \in Abstract!Live(t, view.objects) |-> view.objects[i]]
  BY <1>1, <1>5, StackShows
<1> HIDE DEF s, t
<1>7. \A j \in 1 .. sp : t[j] = IF j = a + 1 THEN s[sp] ELSE s[j]
  <2>1. \A j \in 1 .. sp : j - 1 \in 0 .. sp - 1 /\ (j - 1 = a <=> j = a + 1)
    BY <1>2, <1>3
  <2>2. s[sp] = ValueOf(stack[sp - 1], ids)
    BY <1>2, <1>3
  <2> QED
    BY <1>3, <1>4, <1>6, <2>1, <2>2
<1>8. a + 1 \in DOMAIN s /\ s[Len(s) - 1 + 1] = s[sp]
  BY <1>2, <1>3
<1>9. t = [s EXCEPT ![a + 1] = s[sp]]
  <2> DEFINE r == [s EXCEPT ![a + 1] = s[sp]]
  <2>1. /\ r = [j \in 1 .. sp |-> r[j]]
        /\ \A j \in 1 .. sp : r[j] = IF j = a + 1 THEN s[sp] ELSE s[j]
    BY <1>3
  <2> HIDE DEF r
  <2>2. Listed(r, sp) /\ \A j \in 1 .. sp : r[j] = t[j]
    BY <1>7, <2>1 DEF Listed
  <2>3. r = t
    BY <1>3, <1>6, <2>2, SameListed
  <2> QED
    BY <2>3 DEF r
<1>10. Abstract!Commit([s EXCEPT ![a + 1] = s[Len(s) - 1 + 1]], view.objects)
  BY <1>6, <1>8, <1>9 DEF Abstract!Commit, t
<1> QED
  BY <1>6, <1>8, <1>10 DEF Abstract!Assign, Abstract!Top, s

(* DROP shows a Drop.                                                       *)
LEMMA DropShows ==
  ASSUME WellBehaved, GCInv, ViewInv, GCInv', Drop, Observe
  PROVE  ViewInv' /\ Abstract!Drop
<1> DEFINE s == view.roots
           t == view'.roots
<1>1. /\ phase = "mutator" /\ I.op = "DROP" /\ phase' = phase
      /\ stack' = stack /\ sp' = sp - 1
      /\ UNCHANGED <<heap, mem, ids>>
  BY DEF Drop, At, Quiet
<1>2. RESERVED \in Nat /\ RESERVED >= 1 /\ RESERVED + 1 <= sp
  BY <1>1, MutatorFacts DEF Legal, Needs
<1>3. /\ Listed(s, sp) /\ sp \in Nat /\ Len(s) = sp
      /\ \A j \in 1 .. sp : s[j] = ValueOf(stack[j - 1], ids)
      /\ \A j \in 0 .. sp - 1 : Leads(stack[j], Reach)
  BY <1>1, ViewFacts
<1>4. \A j \in 0 .. sp' - 1 : Leads(stack'[j], Reach)
  BY <1>1, <1>3
<1>5. /\ ViewInv'
      /\ Listed(t, sp')
      /\ \A j \in 1 .. sp' : t[j] = ValueOf(stack'[j - 1], ids)
      /\ view'.objects = [i \in Abstract!Live(t, view.objects) |-> view.objects[i]]
  BY <1>1, <1>4, StackShows
<1> HIDE DEF s, t
<1>6. /\ Listed(SubSeq(s, 1, sp - 1), sp - 1)
      /\ \A j \in 1 .. sp - 1 : SubSeq(s, 1, sp - 1)[j] = s[j]
  <2>1. 1 \in 0 .. sp
    BY <1>2, <1>3
  <2> QED
    BY <1>3, <2>1, UnderIs
<1>7. t = SubSeq(s, 1, Len(s) - 1)
  <2>1. sp - 1 \in Nat /\ \A j \in 1 .. sp - 1 : j \in 1 .. sp
    BY <1>2, <1>3
  <2>2. \A j \in 1 .. sp - 1 : t[j] = SubSeq(s, 1, sp - 1)[j]
    BY <1>1, <1>3, <1>5, <1>6, <2>1
  <2> DEFINE u == SubSeq(s, 1, sp - 1)
  <2>3. Listed(u, sp - 1) /\ Listed(t, sp - 1) /\ \A j \in 1 .. sp - 1 : t[j] = u[j]
    BY <1>1, <1>5, <1>6, <2>2
  <2> HIDE DEF u
  <2>4. t = u
    BY <2>1, <2>3, SameListed
  <2> QED
    BY <1>3, <2>4 DEF u
<1>8. s # <<>>
  <2>1. Len(s) # 0
    BY <1>2, <1>3
  <2> QED
    BY <2>1
<1> QED
  BY <1>5, <1>7, <1>8 DEF Abstract!Drop, Abstract!Commit, Abstract!Under, s, t

-----------------------------------------------------------------------------
(* Objects of one header whose fields have one value each are one object.    *)
LEMMA ObjectAlike ==
  ASSUME NEW m, NEW O, NEW b, NEW c, Sound(m, O, b, c), NEW h \in O,
         NEW n, NEW d \in Int, h + d \in Nat, n[h + d] = m[h], NEW names, NEW nameds,
         \A f \in FieldsAt(m, h) : ValueOf(n[f + d], nameds) = ValueOf(m[f], names)
  PROVE  ObjectAt(n, h + d, nameds) = ObjectAt(m, h, names)
<1> DEFINE F == Fields(m, h)
           G == Fields(n, h + d)
           i == FirstField(m[h])
           J == Size(m[h]) - i
<1>1. h \in Nat /\ m[h] \in Nat
  BY SoundFacts
<1>2. F \in Seq(Nat) /\ G \in Seq(Nat)
  BY <1>1, FieldsAre
<1>3. i \in Nat /\ J \in Int
  BY <1>1, SizeFacts
<1>4. F = [k \in 1 .. J |-> h + i + k - 1] /\ G = [k \in 1 .. J |-> (h + d) + i + k - 1]
  BY DEF Fields
<1> HIDE DEF i, J
<1>5. DOMAIN F = 1 .. J /\ DOMAIN G = 1 .. J
  BY <1>4
<1>6. \A k \in 1 .. J : F[k] = h + i + k - 1 /\ G[k] = (h + d) + i + k - 1
  BY <1>4
<1>7. \A k \in 1 .. J : F[k] \in FieldsAt(m, h)
  <2>1. DOMAIN F = 1 .. Len(F) /\ \A k \in 1 .. Len(F) : F[k] \in FieldsAt(m, h)
    BY FieldsIndexed
  <2> HIDE DEF F
  <2> QED
    BY <1>5, <2>1
<1> HIDE DEF F, G
<1>8. \A k \in 1 .. J : G[k] = F[k] + d
  BY <1>1, <1>3, <1>6
<1>9. 1 .. Len(F) = 1 .. J /\ 1 .. Len(G) = 1 .. J
  BY <1>2, <1>5
<1>10. \A k \in 1 .. J : ValueOf(n[G[k]], nameds) = ValueOf(m[F[k]], names)
  BY <1>7, <1>8
<1>11. [k \in 1 .. Len(G) |-> ValueOf(n[G[k]], nameds)] = [k \in 1 .. Len(F) |-> ValueOf(m[F[k]], names)]
  BY <1>9, <1>10
<1> QED
  BY <1>11 DEF ObjectAt, F, G

(* An object whose words stay is shown as before.                           *)
LEMMA ObjectSame ==
  ASSUME NEW m, NEW O, NEW b, NEW c, Sound(m, O, b, c), NEW h \in O,
         NEW n, n[h] = m[h], NEW names, \A f \in FieldsAt(m, h) : n[f] = m[f]
  PROVE  ObjectAt(n, h, names) = ObjectAt(m, h, names) /\ FieldsAt(n, h) = FieldsAt(m, h)
<1>1. h \in Nat /\ h + 0 = h /\ \A f \in FieldsAt(m, h) : f + 0 = f
  BY SoundFacts
<1>2. \A f \in FieldsAt(m, h) : ValueOf(n[f + 0], names) = ValueOf(m[f], names)
  BY <1>1
<1>3. ObjectAt(n, h + 0, names) = ObjectAt(m, h, names)
  BY <1>1, <1>2, ObjectAlike
<1> QED
  BY <1>1, <1>3 DEF FieldsAt

(* How an object's tag and length tell the number of its fields.             *)
LEMMA FieldCount ==
  ASSUME NEW m, NEW O, NEW b, NEW c, Sound(m, O, b, c), NEW h \in O
  PROVE  /\ TAG(m[h]) \in {ARRAY_TAG, SEXP_TAG} => Len(Fields(m, h)) = LEN(m[h])
         /\ TAG(m[h]) = STRING_TAG => Len(Fields(m, h)) = 0
<1> DEFINE x == m[h]
           l == LEN(x)
           J == Size(x) - FirstField(x)
<1>1. x \in Nat /\ h \in Nat
  BY SoundFacts
<1>2. l \in Nat /\ Size(x) \in Nat
  BY <1>1, SizeFacts DEF LEN
<1>3. Fields(m, h) \in Seq(Nat)
  BY <1>1, FieldsAre
<1>4. DOMAIN Fields(m, h) = 1 .. J
  BY DEF Fields
<1>5. TAG(x) = STRING_TAG => J = 0
  <2> SUFFICES ASSUME TAG(x) = STRING_TAG PROVE J = 0
    OBVIOUS
  <2>1. FirstField(x) = Size(x)
    BY DEF FirstField, STRING_TAG, ARRAY_TAG, SEXP_TAG
  <2> QED
    BY <1>2, <2>1
<1>6. TAG(x) = ARRAY_TAG => J = l
  <2> SUFFICES ASSUME TAG(x) = ARRAY_TAG PROVE J = l
    OBVIOUS
  <2>1. Size(x) = 2 + l /\ FirstField(x) = 2
    BY DEF Size, FirstField, STRING_TAG, ARRAY_TAG, SEXP_TAG, DATA_HEADER_SZ
  <2> QED
    BY <1>2, <2>1
<1>7. TAG(x) = SEXP_TAG => J = l
  <2> SUFFICES ASSUME TAG(x) = SEXP_TAG PROVE J = l
    OBVIOUS
  <2>1. Size(x) = 2 + (l + 1) /\ FirstField(x) = 2 + 1
    BY DEF Size, FirstField, STRING_TAG, ARRAY_TAG, SEXP_TAG, DATA_HEADER_SZ
  <2> QED
    BY <1>2, <2>1
<1> HIDE DEF J, l
<1>8. J \in Nat => Len(Fields(m, h)) = J
  BY <1>3, <1>4
<1>9. TAG(x) = STRING_TAG => Len(Fields(m, h)) = 0
  BY <1>5, <1>8
<1>10. TAG(x) \in {ARRAY_TAG, SEXP_TAG} => Len(Fields(m, h)) = l
  BY <1>2, <1>6, <1>7, <1>8
<1> QED
  BY <1>9, <1>10 DEF l

-----------------------------------------------------------------------------
(* Elements are loaded and stored.                                          *)
LEMMA ElementSeen ==
  ASSUME WellBehaved, GCInv, ViewInv, phase = "mutator",
         NEW i \in Nat, i + 1 <= sp, i >= 1, HasElement(Top(i + 1), Top(i))
  PROVE  LET s == view.roots
             h == HeaderOf(Top(i + 1))
             k == UNBOX(Top(i))
             o == view.objects[ids[h]]
         IN  /\ h \in Reach /\ k \in Nat /\ k < LEN(mem[h])
             /\ Len(s) = sp /\ s[Len(s) - (i + 1) + 1] = [kind |-> "ref", val |-> ids[h]]
             /\ s[Len(s) - i + 1] = [kind |-> "int", val |-> k]
             /\ o = ObjectAt(mem, h, ids) /\ o.tag = TAG(mem[h])
             /\ o.tag \in {ARRAY_TAG, SEXP_TAG, STRING_TAG}
             /\ o.tag # STRING_TAG => /\ k + 1 \in DOMAIN o.elems
                                      /\ o.elems[k + 1] = ValueOf(mem[Fields(mem, h)[k + 1]], ids)
                                      /\ Fields(mem, h)[k + 1] \in FieldsAt(mem, h)
                                      /\ Leads(mem[Fields(mem, h)[k + 1]], Reach)
<1> DEFINE O == AllObjects
           s == view.roots
           p == Top(i + 1)
           q == Top(i)
           h == HeaderOf(p)
           k == UNBOX(q)
           o == view.objects[ids[h]]
<1>1. /\ sp \in Nat /\ \A j \in 0 .. sp - 1 : Is(stack[j], O)
      /\ Sound(mem, O, heap.begin, heap.current) /\ DOMAIN ids = O
  BY MutatorFacts
<1>2. /\ Len(s) = sp /\ \A j \in 1 .. sp : s[j] = ValueOf(stack[j - 1], ids)
      /\ Drawn(view.objects, Reach, ids, mem, ids)
      /\ \A j \in 0 .. sp - 1 : Leads(stack[j], Reach)
      /\ \A g \in Reach : \A f \in FieldsAt(mem, g) : Leads(mem[f], Reach)
      /\ Reach \in SUBSET O
  BY ViewFacts
<1>3. /\ sp - i \in 0 .. sp - 1 /\ sp - (i + 1) \in 0 .. sp - 1
      /\ sp - i + 1 \in 1 .. sp /\ sp - (i + 1) + 1 \in 1 .. sp
      /\ (sp - i + 1) - 1 = sp - i /\ (sp - (i + 1) + 1) - 1 = sp - (i + 1)
  BY <1>1
<1>4. /\ Is(p, O) /\ Leads(p, Reach) /\ q \in Word
      /\ s[sp - (i + 1) + 1] = ValueOf(p, ids) /\ s[sp - i + 1] = ValueOf(q, ids)
  BY <1>1, <1>2, <1>3 DEF Top, Is
<1>5. ~ UNBOXED(p) /\ UNBOXED(q) /\ HasElement(p, q)
  BY DEF HasElement
<1> HIDE DEF p, q
<1>6. h \in O /\ k \in Nat /\ k < LEN(mem[h]) /\ TAG(mem[h]) \in {ARRAY_TAG, SEXP_TAG, STRING_TAG}
  BY <1>4, <1>5, HasElementFacts
<1>7. h \in Reach
  BY <1>4, <1>5 DEF Leads
<1>8. ValueOf(p, ids) = [kind |-> "ref", val |-> ids[h]]
  BY <1>1, <1>5, <1>6 DEF ValueOf, IsRef
<1>9. ValueOf(q, ids) = [kind |-> "int", val |-> k]
  BY <1>5 DEF ValueOf
<1>10. o = ObjectAt(mem, h, ids)
  BY <1>2, <1>7 DEF Drawn
<1> HIDE DEF o, h, k
<1>11. /\ o.tag = TAG(mem[h])
       /\ o.elems = [j \in 1 .. Len(Fields(mem, h)) |-> ValueOf(mem[Fields(mem, h)[j]], ids)]
  BY <1>10 DEF ObjectAt
<1>12. ASSUME TAG(mem[h]) # STRING_TAG
       PROVE  /\ k + 1 \in DOMAIN o.elems
              /\ o.elems[k + 1] = ValueOf(mem[Fields(mem, h)[k + 1]], ids)
              /\ Fields(mem, h)[k + 1] \in FieldsAt(mem, h)
              /\ Leads(mem[Fields(mem, h)[k + 1]], Reach)
  <2>1. Len(Fields(mem, h)) = LEN(mem[h])
    BY <1>1, <1>6, <1>12, FieldCount
  <2>2. LEN(mem[h]) \in Nat
    <3>1. mem[h] \in Nat
      BY <1>1, <1>6, SoundFacts
    <3> QED
      BY <3>1 DEF LEN
  <2>3. k + 1 \in 1 .. Len(Fields(mem, h))
    BY <1>6, <2>1, <2>2
  <2>4. Fields(mem, h)[k + 1] \in FieldsAt(mem, h)
    BY <1>1, <1>6, <2>3, FieldsIndexed
  <2> QED
    BY <1>2, <1>7, <1>11, <2>3, <2>4
<1>13. /\ s[Len(s) - (i + 1) + 1] = [kind |-> "ref", val |-> ids[h]]
       /\ s[Len(s) - i + 1] = [kind |-> "int", val |-> k]
  BY <1>2, <1>4, <1>8, <1>9
<1> QED
  BY <1>2, <1>6, <1>7, <1>10, <1>11, <1>12, <1>13 DEF o, h, k, p, q

(* A byte of a word.                                                        *)
LEMMA ByteRange ==
  ASSUME NEW x \in Nat, NEW k \in Nat
  PROVE  (x \div WEIGHT[k % 8]) % 256 \in 0 .. 255
<1> DEFINE w == WEIGHT[k % 8]
<1>1. w \in Nat \ {0}
  BY WeightFacts
<1> HIDE DEF w
<1>2. x \div w \in Nat
  BY <1>1
<1>3. (x \div w) % 256 \in 0 .. 255
  BY <1>2
<1> QED
  BY <1>3 DEF w

(* ELEM shows an Elem.                                                      *)
LEMMA ElemShows ==
  ASSUME WellBehaved, Ample, GCInv, ViewInv, GCInv', Elem, Observe
  PROVE  ViewInv' /\ Abstract!Elem
<1> DEFINE s == view.roots
           h == HeaderOf(Top(2))
           k == UNBOX(Top(1))
           o == view.objects[ids[h]]
           w == Element(h, k)
           v == ValueOf(w, ids)
<1>1. /\ phase = "mutator" /\ I.op = "ELEM" /\ phase' = phase
      /\ stack' = [stack EXCEPT ![sp - 2] = w] /\ sp' = sp - 2 + 1
      /\ UNCHANGED <<heap, mem, ids>>
      /\ HasElement(Top(2), Top(1))
  BY DEF Elem, At, Push, Quiet
<1>2. RESERVED + 2 <= sp /\ RESERVED \in Nat /\ sp \in Nat /\ sp <= STACK_MAX_SIZE /\ STACK_MAX_SIZE \in Nat
      /\ Sound(mem, AllObjects, heap.begin, heap.current)
  BY <1>1, MutatorFacts DEF Legal, Needs
<1>3. 2 <= sp /\ sp - 2 \in Slots
  BY <1>2 DEF Slots
<1>4. /\ h \in Reach /\ k \in Nat /\ k < LEN(mem[h])
      /\ Len(s) = sp /\ s[Len(s) - 2 + 1] = [kind |-> "ref", val |-> ids[h]]
      /\ s[Len(s) - 1 + 1] = [kind |-> "int", val |-> k]
      /\ o.tag = TAG(mem[h])
      /\ o.tag \in {ARRAY_TAG, SEXP_TAG, STRING_TAG}
      /\ o.tag # STRING_TAG => /\ k + 1 \in DOMAIN o.elems
                               /\ o.elems[k + 1] = ValueOf(mem[Fields(mem, h)[k + 1]], ids)
                               /\ Leads(mem[Fields(mem, h)[k + 1]], Reach)
  <2>1. 1 \in Nat /\ 1 + 1 <= sp /\ 1 >= 1 /\ 1 + 1 = 2
    BY <1>2, <1>3
  <2> QED
    BY <1>1, <2>1, ElementSeen
<1>5. w = IF TAG(mem[h]) = STRING_TAG THEN BOX(Byte(mem, h + DATA_HEADER_SZ, k))
          ELSE mem[Fields(mem, h)[k + 1]]
  BY DEF Element
<1> HIDE DEF w, h, k
<1>6. ASSUME Leads(w, Reach)
      PROVE  ViewInv' /\ Abstract!Commit(Append(Abstract!Under(2), v), view.objects)
  BY <1>1, <1>3, <1>6, PutShows
<1>7. CASE TAG(mem[h]) = STRING_TAG
  <2> DEFINE n == Byte(mem, h + DATA_HEADER_SZ, k)
  <2>1. n \in 0 .. 255
    <3> DEFINE a == (h + DATA_HEADER_SZ) + (k \div 8)
    <3>1. h \in AllObjects
      BY <1>1, <1>4, ViewFacts
    <3>2. a \in h + 2 .. Behind(mem, h) - 1
      BY <1>2, <1>4, <1>7, <3>1, ElementAt
    <3>3. /\ h \in Nat /\ Behind(mem, h) \in Nat /\ Behind(mem, h) <= heap.current
          /\ heap.begin <= h /\ heap.begin \in Nat /\ heap.current \in Nat
          /\ Typed(mem, heap.begin, heap.current)
      BY <1>2, <3>1, SoundFacts
    <3> HIDE DEF a
    <3>4. a \in heap.begin .. heap.current - 1
      BY <3>2, <3>3
    <3>5. mem[a] \in Nat
      BY <3>3, <3>4 DEF Typed
    <3>6. n = (mem[a] \div WEIGHT[k % 8]) % 256
      BY DEF Byte, a
    <3> QED
      BY <1>4, <3>5, <3>6, ByteRange
  <2> HIDE DEF n
  <2>2. UNBOXED(w) /\ UNBOX(w) = n
    BY <1>5, <1>7, <2>1 DEF n, UNBOXED, UNBOX, BOX
  <2>3. v = Abstract!IntValue(n) /\ Leads(w, Reach) /\ n \in INTS
    BY <2>1, <2>2 DEF ValueOf, Abstract!IntValue, Leads, Ample
  <2>4. ViewInv' /\ Abstract!Commit(Append(Abstract!Under(2), Abstract!IntValue(n)), view.objects)
    BY <1>6, <2>3
  <2>5. o.tag = STRING_TAG
    BY <1>4, <1>7
  <2> QED
    BY <1>3, <1>4, <2>3, <2>4, <2>5 DEF Abstract!Elem, Abstract!Top, o
<1>8. CASE TAG(mem[h]) # STRING_TAG
  <2>1. Leads(w, Reach) /\ v = o.elems[k + 1] /\ k + 1 \in DOMAIN o.elems
    BY <1>4, <1>5, <1>8
  <2>2. ViewInv' /\ Abstract!Commit(Append(Abstract!Under(2), o.elems[k + 1]), view.objects)
    BY <1>6, <2>1
  <2> QED
    BY <1>3, <1>4, <2>1, <2>2 DEF Abstract!Elem, Abstract!Top, o
<1> QED
  BY <1>7, <1>8

(* Memory with the same headers is divided alike.                           *)
LEMMA HeadersSame ==
  ASSUME NEW m, NEW O, NEW b, NEW c, Sound(m, O, b, c),
         NEW n, IsMemory(n, b, c), \A h \in O : n[h] = m[h]
  PROVE  Sound(n, O, b, c)
<1>1. \A h \in O : Behind(n, h) = Behind(m, h)
  BY DEF Behind
<1>2. Tiles(m, O, b, c) /\ \A h \in O : Behind(m, h) <= c /\ IsHeader(m[h])
  BY DEF Sound
<1>3. Tiles(n, O, b, c)
  BY <1>1, <1>2 DEF Tiles
<1> QED
  BY <1>1, <1>2, <1>3 DEF Sound

(* Storing an element writes one word: a field of an array, and no header    *)
(* or field of anything else.                                              *)
LEMMA StoreElementWrites ==
  ASSUME WellBehaved, GCInv, StoresSpareFlags, StoreElement
  PROVE  LET h == HeaderOf(Top(3))
             k == UNBOX(Top(2))
             array == TAG(mem[h]) = ARRAY_TAG
             a == Fields(mem, h)[k + 1]
         IN  /\ \A g \in AllObjects : mem'[g] = mem[g]
             /\ \A g \in AllObjects : \A f \in FieldsAt(mem, g) :
                  mem'[f] = IF array /\ f = a THEN Top(1) ELSE mem[f]
<1> DEFINE O == AllObjects
           h == HeaderOf(Top(3))
           k == UNBOX(Top(2))
           v == Top(1)
           tag == TAG(mem[h])
<1>1. /\ phase = "mutator" /\ I.op = "STA"
      /\ HasElement(Top(3), Top(2))
      /\ tag = ARRAY_TAG  => mem' = [mem EXCEPT ![Fields(mem, h)[k + 1]] = v]
      /\ tag = STRING_TAG => mem' = WithByte(mem, h + DATA_HEADER_SZ, k, UNBOX(v))
      /\ tag = SEXP_TAG   => mem' = WithByte(mem, h + 1, k, v % 256)
  BY DEF StoreElement, At, ARRAY_TAG, STRING_TAG, SEXP_TAG
<1>2. RESERVED + 3 <= sp
  BY <1>1, MutatorFacts DEF Legal, Needs
<1>3. sp - 2 \in 0 .. sp - 1 /\ sp - 3 \in 0 .. sp - 1
  <2>1. sp \in Nat /\ STACK_MAX_SIZE \in Nat /\ sp <= STACK_MAX_SIZE /\ RESERVED \in Nat /\ RESERVED >= 1
    BY <1>1, MutatorFacts
  <2> QED
    BY <1>2, <2>1
<1>4. Is(Top(3), O) /\ Top(2) \in Word
  BY <1>1, <1>3, MutatorFacts DEF Top, Is
<1>5. h \in O /\ k \in Nat /\ k < LEN(mem[h]) /\ tag \in {ARRAY_TAG, SEXP_TAG, STRING_TAG}
  BY <1>1, <1>4, HasElementFacts
<1>6. Sound(mem, O, heap.begin, heap.current)
  BY <1>1, MutatorFacts
<1>7. tag = SEXP_TAG => k \in 1 .. 7
  BY <1>1 DEF StoresSpareFlags, StoreElement
<1>8. \A g \in O : FieldsAt(mem, g) \subseteq DOMAIN mem
  BY <1>6, SoundFacts
<1> HIDE DEF h, k, v, tag
<1>9. CASE tag = ARRAY_TAG
  <2> DEFINE a == Fields(mem, h)[k + 1]
  <2>1. a \in FieldsAt(mem, h)
    BY <1>5, <1>6, <1>9, ElementAt DEF tag
  <2>2. \A g \in O : a # g
    BY <1>5, <1>6, <2>1, ForwardApart
  <2>3. mem' = [mem EXCEPT ![a] = v]
    BY <1>1, <1>9
  <2> HIDE DEF a
  <2>4. \A g \in O : mem'[g] = mem[g]
    BY <2>2, <2>3
  <2>5. \A g \in O : \A f \in FieldsAt(mem, g) : mem'[f] = IF f = a THEN v ELSE mem[f]
    BY <1>8, <2>3
  <2> QED
    BY <1>9, <2>4, <2>5 DEF a, v, h, k, tag
<1>10. ASSUME tag # ARRAY_TAG, NEW a, NEW w, Differs(mem', mem, a, w),
              \A g \in O : a # g /\ a \notin FieldsAt(mem, g)
       PROVE  /\ \A g \in O : mem'[g] = mem[g]
              /\ \A g \in O : \A f \in FieldsAt(mem, g) : mem'[f] = mem[f]
  BY <1>8, <1>10 DEF Differs
<1>11. CASE tag = STRING_TAG
  <2> DEFINE a == (h + DATA_HEADER_SZ) + (k \div 8)
             w == mem[a] + WEIGHT[k % 8] * (UNBOX(v) - ((mem[a] \div WEIGHT[k % 8]) % 256))
  <2>1. FieldsAt(mem, h) = {} /\ a \in h + 2 .. Behind(mem, h) - 1
    BY <1>5, <1>6, <1>11, ElementAt DEF tag
  <2>2. Differs(mem', mem, a, w)
    BY <1>1, <1>11 DEF WithByte, Byte, Differs
  <2> HIDE DEF a, w
  <2>3. \A g \in O : a # g /\ (a \in FieldsAt(mem, g) => g = h)
    BY <1>5, <1>6, <2>1, PayloadApart
  <2>4. tag # ARRAY_TAG
    BY <1>11 DEF ARRAY_TAG, STRING_TAG
  <2>5. /\ \A g \in O : mem'[g] = mem[g]
        /\ \A g \in O : \A f \in FieldsAt(mem, g) : mem'[f] = mem[f]
    BY <1>10, <2>1, <2>2, <2>3, <2>4
  <2> QED
    BY <2>4, <2>5 DEF v, h, k, tag
<1>12. CASE tag = SEXP_TAG
  <2> DEFINE w == mem[h + 1] + WEIGHT[k % 8] * ((v % 256) - ((mem[h + 1] \div WEIGHT[k % 8]) % 256))
  <2>1. h \in Nat /\ k \div 8 = 0
    <3>1. k \in 1 .. 7
      BY <1>7, <1>12
    <3> QED
      BY <1>5, <1>6, <3>1, SoundFacts
  <2>2. Differs(mem', mem, h + 1, w)
    <3>1. (h + 1) + k \div 8 = h + 1
      BY <2>1
    <3>2. mem' = WithByte(mem, h + 1, k, v % 256)
      BY <1>1, <1>12
    <3>3. LET a == (h + 1) + k \div 8
          IN  mem' = [mem EXCEPT ![a] =
                        mem[a] + WEIGHT[k % 8] * ((v % 256) - ((mem[a] \div WEIGHT[k % 8]) % 256))]
      BY <3>2 DEF WithByte, Byte
    <3> QED
      BY <3>1, <3>3 DEF Differs
  <2> HIDE DEF w
  <2>3. \A g \in O : h + 1 # g /\ h + 1 \notin FieldsAt(mem, g)
    BY <1>5, <1>6, ForwardApart
  <2>4. tag # ARRAY_TAG
    BY <1>12 DEF ARRAY_TAG, SEXP_TAG
  <2>5. /\ \A g \in O : mem'[g] = mem[g]
        /\ \A g \in O : \A f \in FieldsAt(mem, g) : mem'[f] = mem[f]
    BY <1>10, <2>2, <2>3, <2>4
  <2> QED
    BY <2>4, <2>5 DEF v, h, k, tag
<1> QED
  BY <1>5, <1>9, <1>11, <1>12

Stored(q, p, i, k, x) == q = [p EXCEPT ![i].elems[k] = x]

(* One field of one object changes, and all that is drawn.                  *)
LEMMA ElementStored ==
  ASSUME NEW m, NEW O, NEW b, NEW c, Sound(m, O, b, c), NEW N \in SUBSET O,
         NEW names, NEW objs, Drawn(objs, N, names, m, names),
         NEW h \in N, NEW k \in 1 .. Len(Fields(m, h)), NEW v, NEW n,
         \A g \in O : n[g] = m[g],
         NEW a, a = Fields(m, h)[k], n[a] = v, \A g \in O : \A f \in FieldsAt(m, g) : f # a => n[f] = m[f],
         NEW new, Stored(new, objs, names[h], k, ValueOf(v, names))
  PROVE  Drawn(new, N, names, n, names)
<1> DEFINE i == names[h]
           x == ValueOf(v, names)
           o == [objs[i] EXCEPT !.elems[k] = x]
           made == [objs EXCEPT ![i] = o]
<1>1. /\ \A g, e \in N : names[g] = names[e] => g = e
      /\ objs = [j \in {names[g] : g \in N} |-> objs[j]]
      /\ \A g \in N : objs[names[g]] = ObjectAt(m, g, names)
  BY DEF Drawn
<1>2. /\ made = [j \in {names[g] : g \in N} |-> made[j]]
      /\ \A j \in {names[g] : g \in N} : made[j] = IF j = i THEN o ELSE objs[j]
  BY <1>1
<1>3. a \in FieldsAt(m, h) /\ a \in h + 2 .. Behind(m, h) - 1
  BY FieldsIndexed, SoundFacts
<1>4. \A g \in O : a \in FieldsAt(m, g) => g = h
  BY <1>3, PayloadApart
<1> HIDE DEF made
<1>5. ASSUME NEW g \in N, g # h PROVE made[names[g]] = ObjectAt(n, g, names)
  <2>1. \A f \in FieldsAt(m, g) : n[f] = m[f]
    BY <1>4, <1>5
  <2>2. ObjectAt(n, g, names) = ObjectAt(m, g, names)
    BY <2>1, ObjectSame
  <2>3. names[g] # i
    BY <1>1, <1>5
  <2> QED
    BY <1>1, <1>2, <2>2, <2>3
<1>6. made[names[h]] = ObjectAt(n, h, names)
  <2> DEFINE F == Fields(m, h)
             J == 1 .. Len(F)
             e == ObjectAt(m, h, names).elems
             d == ObjectAt(n, h, names).elems
  <2>1. n[h] = m[h] /\ Fields(n, h) = F
    BY DEF Fields
  <2>2. objs[i] = ObjectAt(m, h, names)
    BY <1>1
  <2>3. e = [j \in J |-> ValueOf(m[F[j]], names)] /\ d = [j \in J |-> ValueOf(n[F[j]], names)]
    BY <2>1 DEF ObjectAt
  <2>4. \A j \in J : F[j] \in FieldsAt(m, h)
    BY FieldsIndexed
  <2>5. \A j \in J : F[j] = F[k] => j = k
    <3>1. DOMAIN F = J
      BY FieldsIndexed
    <3>2. F = [j \in 1 .. Size(m[h]) - FirstField(m[h]) |-> h + FirstField(m[h]) + j - 1]
      BY DEF Fields
    <3>3. h \in Nat /\ m[h] \in Nat
      BY SoundFacts
    <3>4. FirstField(m[h]) \in Nat
      BY <3>3, SizeFacts
    <3> HIDE DEF F
    <3>5. \A j \in J : F[j] = h + FirstField(m[h]) + j - 1
      BY <3>1, <3>2
    <3>6. \A j \in J : j \in Int
      OBVIOUS
    <3>7. k \in J
      BY DEF F
    <3> HIDE DEF J
    <3> QED
      BY <3>3, <3>4, <3>5, <3>6, <3>7
  <2> HIDE DEF F, J
  <2>6. \A j \in J : n[F[j]] = IF j = k THEN v ELSE m[F[j]]
    BY <2>4, <2>5 DEF F
  <2>7. d = [e EXCEPT ![k] = x]
    BY <2>3, <2>6
  <2> HIDE DEF e, d, x
  <2>8. ObjectAt(m, h, names) = [tag |-> TAG(m[h]), elems |-> e]
        /\ ObjectAt(n, h, names) = [tag |-> TAG(m[h]), elems |-> d]
    BY <2>1 DEF ObjectAt, e, d
  <2>9. o = [tag |-> TAG(m[h]), elems |-> d]
    BY <2>2, <2>7, <2>8
  <2> QED
    BY <1>2, <2>8, <2>9
<1>7. Drawn(made, N, names, n, names)
  BY <1>1, <1>2, <1>5, <1>6 DEF Drawn
<1>8. made = new
  BY DEF made, Stored
<1> QED
  BY <1>7, <1>8

(* STA shows a Store.                                                       *)
LEMMA StoreElementShows ==
  ASSUME WellBehaved, GCInv, ViewInv, StoresSpareFlags, GCInv', StoreElement, Observe
  PROVE  ViewInv' /\ Abstract!Store
<1> DEFINE O == AllObjects
           R == Reach
           s == view.roots
           t == view'.roots
           h == HeaderOf(Top(3))
           k == UNBOX(Top(2))
           v == Top(1)
           o == view.objects[ids[h]]
           F == Fields(mem, h)
           x == ValueOf(v, ids)
           objs == IF o.tag = ARRAY_TAG THEN [view.objects EXCEPT ![ids[h]].elems[k + 1] = x]
                   ELSE view.objects
<1>1. /\ phase = "mutator" /\ I.op = "STA" /\ phase' = phase
      /\ stack' = [stack EXCEPT ![sp - 3] = v] /\ sp' = sp - 3 + 1
      /\ heap' = heap /\ ids' = ids
      /\ HasElement(Top(3), Top(2))
  BY DEF StoreElement, At, Push, Quiet
<1>2. /\ RESERVED + 3 <= sp /\ RESERVED \in Nat /\ RESERVED >= 1 /\ sp \in Nat
      /\ Sound(mem, O, heap.begin, heap.current) /\ Holding(mem, O, O)
      /\ stack \in [Slots -> Word] /\ \A j \in 0 .. sp - 1 : j \in Slots
  BY <1>1, MutatorFacts DEF Legal, Needs
<1>3. /\ Listed(s, sp) /\ Len(s) = sp
      /\ \A j \in 1 .. sp : s[j] = ValueOf(stack[j - 1], ids)
      /\ Drawn(view.objects, R, ids, mem, ids) /\ R \in SUBSET O
      /\ \A j \in 0 .. sp - 1 : Leads(stack[j], R)
      /\ \A g \in R : \A f \in FieldsAt(mem, g) : Leads(mem[f], R)
  BY <1>1, ViewFacts
<1>4. /\ h \in R /\ k \in Nat
      /\ s[Len(s) - 3 + 1] = [kind |-> "ref", val |-> ids[h]]
      /\ s[Len(s) - 2 + 1] = [kind |-> "int", val |-> k]
      /\ o = ObjectAt(mem, h, ids) /\ o.tag = TAG(mem[h])
      /\ o.tag \in {ARRAY_TAG, SEXP_TAG, STRING_TAG}
      /\ o.tag # STRING_TAG => k + 1 \in DOMAIN o.elems
  <2>1. 2 \in Nat /\ 2 + 1 <= sp /\ 2 >= 1 /\ 2 + 1 = 3
    BY <1>2
  <2> QED
    BY <1>1, <2>1, ElementSeen
<1>5. /\ sp - 1 \in 0 .. sp - 1 /\ sp - 3 \in 0 .. sp - 1 /\ sp \in 1 .. sp /\ sp' = sp - 2
      /\ \A j \in 1 .. sp - 3 : j \in 1 .. sp /\ j - 1 # sp - 3 /\ j - 1 \in 0 .. sp - 1
  BY <1>1, <1>2
<1>6. /\ \A g \in O : mem'[g] = mem[g]
      /\ \A g \in O : \A f \in FieldsAt(mem, g) :
           mem'[f] = IF TAG(mem[h]) = ARRAY_TAG /\ f = F[k + 1] THEN v ELSE mem[f]
  BY <1>1, StoreElementWrites
<1>7. Leads(v, R) /\ s[sp] = x /\ Len(s) - 1 + 1 = sp
  BY <1>2, <1>3, <1>5 DEF Top
<1>8. stack'[sp - 3] = v /\ \A j \in 0 .. sp - 1 : j # sp - 3 => stack'[j] = stack[j]
  BY <1>1, <1>2, <1>5
<1> HIDE DEF x, v, o, h, k, s, t, R
<1>9. AllObjects' = O
  <2>1. IsMemory(mem', heap.begin, heap.current)
    <3>1. Sound(mem', AllObjects', heap'.begin, heap'.current)
      BY <1>1 DEF GCInv, HeapInv
    <3> QED
      BY <1>1, <3>1 DEF Sound
  <2>2. Sound(mem', O, heap.begin, heap.current)
    BY <1>2, <1>6, <2>1, HeadersSame
  <2>3. Objects(mem', heap.begin, heap.current) = O
    BY <2>2, SoundObjects
  <2> QED
    BY <1>1, <2>3 DEF AllObjects
<1>10. \A g \in O : FieldsAt(mem', g) = FieldsAt(mem, g)
  BY <1>6 DEF FieldsAt
<1>11. \A g \in R : \A f \in FieldsAt(mem', g) : Leads(mem'[f], R)
  BY <1>3, <1>6, <1>7, <1>10
<1>12. \A j \in 0 .. sp' - 1 : Leads(stack'[j], R)
  <2>1. \A j \in 0 .. sp' - 1 : j \in 0 .. sp - 1
    BY <1>2, <1>5
  <2> QED
    BY <1>3, <1>7, <1>8, <2>1
<1>13. Drawn(objs, R, ids, mem', ids)
  <2>1. CASE o.tag = ARRAY_TAG
    <3> DEFINE a == F[k + 1]
    <3>1. \A g \in O : \A f \in FieldsAt(mem, g) : mem'[f] = IF f = a THEN v ELSE mem[f]
      BY <1>4, <1>6, <2>1
    <3>2. k + 1 \in 1 .. Len(F)
      <4>1. k + 1 \in DOMAIN o.elems
        BY <1>4, <2>1 DEF ARRAY_TAG, STRING_TAG
      <4> QED
        BY <1>4, <4>1 DEF ObjectAt
    <3>4. h \in O /\ a \in FieldsAt(mem, h)
      BY <1>2, <1>3, <1>4, <3>2, FieldsIndexed
    <3>5. a = Fields(mem, h)[k + 1]
      OBVIOUS
    <3> HIDE DEF F, a
    <3>6. mem'[a] = v /\ \A g \in O : \A f \in FieldsAt(mem, g) : f # a => mem'[f] = mem[f]
      BY <3>1, <3>4
    <3>3. Stored(objs, view.objects, ids[h], k + 1, ValueOf(v, ids))
      BY <2>1 DEF x, Stored
    <3> DEFINE l == k + 1
    <3>7. /\ Sound(mem, O, heap.begin, heap.current) /\ R \in SUBSET O
          /\ Drawn(view.objects, R, ids, mem, ids) /\ h \in R
          /\ \A g \in O : mem'[g] = mem[g]
      BY <1>2, <1>3, <1>4, <1>6
    <3>8. /\ l \in 1 .. Len(Fields(mem, h)) /\ a = Fields(mem, h)[l]
          /\ Stored(objs, view.objects, ids[h], l, ValueOf(v, ids))
      BY <3>2, <3>3, <3>5 DEF F
    <3> HIDE DEF objs, O, l
    <3> QED
      BY <3>6, <3>7, <3>8, ElementStored
  <2>2. CASE o.tag # ARRAY_TAG
    <3>1. \A g \in O : \A f \in FieldsAt(mem, g) : mem'[f] = mem[f]
      BY <1>4, <1>6, <2>2
    <3>2. \A g \in R : ObjectAt(mem', g, ids) = ObjectAt(mem, g, ids)
      BY <1>2, <1>3, <1>6, <3>1, ObjectSame
    <3> QED
      BY <1>3, <2>2, <3>2 DEF Drawn
  <2> QED
    BY <2>1, <2>2
<1> HIDE DEF objs
<1>14. /\ t = [j \in 1 .. sp' |-> ValueOf(stack'[j - 1], ids)]
       /\ view'.objects = [i \in Abstract!Live(t, objs) |-> objs[i]]
       /\ ViewInv'
  <2>1. /\ R \in SUBSET AllObjects' /\ Drawn(objs, R, ids', mem', ids')
    BY <1>1, <1>3, <1>9, <1>13
  <2>2. /\ view'.roots = [j \in 1 .. sp' |-> ValueOf(stack'[j - 1], ids')]
        /\ view'.objects = [i \in Abstract!Live(view'.roots, objs) |-> objs[i]]
        /\ ViewInv'
    BY <1>1, <1>11, <1>12, <2>1, Observed
  <2> QED
    BY <1>1, <2>2 DEF t
<1>15. t = Append(SubSeq(s, 1, Len(s) - 3), x)
  <2>1. \A j \in 1 .. sp' : t[j] = ValueOf(stack'[j - 1], ids)
    BY <1>14
  <2>2. Listed(t, sp')
    BY <1>14, <2>1 DEF Listed
  <2>3. sp' = sp - 3 + 1 /\ sp' \in 1 .. sp' /\ sp' - 1 = sp - 3 /\ 3 \in 0 .. sp
        /\ \A j \in 1 .. sp - 3 : j \in 1 .. sp'
    BY <1>1, <1>2, <1>5
  <2>4. t[sp'] = x
    BY <1>8, <2>1, <2>3 DEF x
  <2>5. \A j \in 1 .. sp - 3 : t[j] = s[j]
    BY <1>3, <1>5, <1>8, <2>1, <2>3
  <2>6. Listed(t, sp - 3 + 1) /\ t[sp - 3 + 1] = x
    BY <2>2, <2>3, <2>4
  <2> QED
    <3>1. sp \in Nat /\ Listed(s, sp) /\ 3 \in 0 .. sp
      BY <1>2, <1>3, <2>3
    <3> QED
      BY <2>5, <2>6, <3>1, PutIs
<1>16. Abstract!Commit(Append(Abstract!Under(3), x), objs)
  BY <1>14, <1>15 DEF Abstract!Commit, Abstract!Under, s, t
<1>17. Abstract!Top(3).kind = "ref" /\ Abstract!Top(2).kind = "int" /\ Abstract!Top(1) = x
       /\ Abstract!Top(3).val = ids[h] /\ Abstract!Top(2).val + 1 = k + 1 /\ Len(view.roots) >= 3
  BY <1>2, <1>3, <1>4, <1>7 DEF Abstract!Top, s
<1>18. o.tag = STRING_TAG \/ k + 1 \in DOMAIN o.elems
  BY <1>4
<1> QED
  BY <1>14, <1>16, <1>17, <1>18 DEF Abstract!Store, objs, o

-----------------------------------------------------------------------------
(* The integers of the statement, and the page the heap ends on.             *)
LEMMA AdvanceKeeps ==
  ASSUME Ample, LiteralInv, ProgramInv, phase \notin Ends, Advance
  PROVE  \A k \in DOMAIN todo' : todo'[k].op = "CONST" => todo'[k].a \in INTS
<1>1. prog \in DOMAIN Programs /\ Executable(todo, sp + Len(extra_roots))
  BY DEF ProgramInv
<1> DEFINE U == Range(todo)
<1>2. todo \in Seq(U)
  BY <1>1 DEF Executable
<1>3. \A k \in DOMAIN todo : todo[k].op = "CONST" => todo[k].a \in INTS
  BY DEF LiteralInv
<1> HIDE DEF U
<1>4. CASE Len(todo) > 1
  <2>1. todo' = Tail(todo)
    BY <1>4 DEF Advance
  <2>2. \A k \in DOMAIN Tail(todo) : k + 1 \in DOMAIN todo /\ Tail(todo)[k] = todo[k + 1]
    BY <1>2, <1>4
  <2> QED
    BY <1>3, <2>1, <2>2
<1>5. CASE ~ (Len(todo) > 1)
  <2>1. todo' \in Programs[prog]
    BY <1>5 DEF Advance
  <2> QED
    BY <1>1, <2>1 DEF Ample
<1> QED
  BY <1>4, <1>5

(* Literals stay among INTS, whatever statement is next.                    *)
LEMMA LiteralsKept ==
  ASSUME Ample, GCInv, LiteralInv, [Next]_vars
  PROVE  LiteralInv'
<1>1. CASE phase \in Ends
  <2>1. phase' \in Ends
    <3>1. phase \notin {"mutator"} \cup Collecting
      BY <1>1 DEF Ends, Collecting
    <3>2. ~ (Mutator \/ Collect \/ __shutdown)
      BY <3>1 DEF Mutator, Collect, Collecting, At, Const, Load, Store, Drop, Elem, StoreElement,
           Fail, Alloc, StartCollection, MarkRoot, Dequeue, compute_locations, NewHeap,
           update_references, FixSlot, scan_and_fix_region_roots, physically_relocate,
           EndCollection, __shutdown
    <3> QED
      BY <1>1, <3>2 DEF Next, Ended, vars
  <2> QED
    BY <2>1 DEF LiteralInv
<1>2. CASE phase \notin Ends
  <2>1. ASSUME Advance PROVE LiteralInv'
    BY <1>2, <2>1, AdvanceKeeps DEF GCInv, LiteralInv
  <2>2. ASSUME todo' = todo PROVE LiteralInv'
    BY <1>2, <2>2 DEF LiteralInv
  <2>3. CASE UNCHANGED vars
    BY <2>2, <2>3 DEF vars, program
  <2>4. CASE Mutator
    BY <2>1, <2>2, <2>4 DEF Mutator, Const, Load, Store, Drop, Elem, StoreElement, Fail, Alloc,
         Allocate, program
  <2>5. CASE Collect
    BY <2>1, <2>2, <2>5 DEF Collect, StartCollection, MarkRoot, Dequeue, compute_locations, NewHeap,
         update_references, FixSlot, scan_and_fix_region_roots, physically_relocate,
         EndCollection, Allocate, program
  <2>6. CASE __shutdown
    BY <2>2, <2>6 DEF __shutdown
  <2> QED
    BY <2>3, <2>4, <2>5, <2>6 DEF Next, Ended
<1> QED
  BY <1>1, <1>2

(* A mapped region ends on a page that can be mapped.                       *)
LEMMA EndsOnPage ==
  ASSUME NEW begin \in Nat, NEW n \in Nat \ {0}, PagesOf(begin, n) \subseteq Pages
  PROVE  \E q \in Pages : begin + n <= (q + 1) * PAGE
<1> DEFINE x == begin + n - 1
           q == x \div PAGE
           p == PAGE
<1>1. x \in Nat /\ begin <= x /\ PAGE \in Nat \ {0} /\ begin + n = x + 1
  BY SizesAssumption
<1>2. q \in Nat /\ x < (q + 1) * p
  BY <1>1, InPage
<1>3. begin \div PAGE <= q /\ begin \div PAGE \in Nat
  BY <1>1
<1>4. q \in Pages
  <2>1. q \in begin \div PAGE .. x \div PAGE
    BY <1>2, <1>3
  <2> QED
    BY <2>1 DEF PagesOf
<1>5. (q + 1) * p \in Nat
  BY <1>1, <1>2
<1> DEFINE y == (q + 1) * p
<1>6. x < y /\ y \in Nat
  BY <1>2, <1>5
<1> HIDE DEF y, x
<1>7. begin + n <= y
  BY <1>1, <1>6
<1> QED
  BY <1>4, <1>7 DEF y

(* Every heap is a mapped region.                                           *)
LEMMA PlacedKept ==
  ASSUME GCInv, Placed, [Next]_vars
  PROVE  Placed'
<1> DEFINE Stays == heap'.begin = heap.begin /\ heap'.size = heap.size /\ (phase \in Ends => phase' \in Ends)
<1>1. ASSUME Stays PROVE Placed'
  BY <1>1 DEF Placed
<1>2. CASE UNCHANGED vars
  BY <1>1, <1>2 DEF vars
<1>3. ASSUME NEW chunk \in [begin : Nat, size : Nat, current : Nat], NEW m, NEW names, NEW i, NEW popped,
             Allocate(chunk, m, names, i, popped)
      PROVE  heap'.begin = chunk.begin /\ heap'.size = chunk.size
  BY <1>3 DEF Allocate
<1>4. heap \in [begin : Nat, size : Nat, current : Nat]
  BY DEF GCInv, TypeInv, TypeOK, IsChunk
<1>5. CASE Mutator
  <2>1. phase = "mutator"
    BY <1>5 DEF Mutator, Const, Load, Store, Drop, Elem, StoreElement, Fail, Alloc, At
  <2>2. CASE Alloc
    <3>1. heap'.begin = heap.begin /\ heap'.size = heap.size
      BY <1>3, <1>4, <2>2 DEF Alloc
    <3> QED
      BY <1>1, <2>1, <3>1 DEF Ends
  <2>3. CASE ~ Alloc
    <3>1. heap' = heap
      BY <1>5, <2>3 DEF Mutator, Const, Load, Store, Drop, Elem, StoreElement, Fail, Quiet
    <3> QED
      BY <1>1, <2>1, <3>1 DEF Ends
  <2> QED
    BY <2>2, <2>3
<1>6. CASE Collect
  <2>1. phase \notin Ends
    BY <1>6 DEF Collect, StartCollection, MarkRoot, Dequeue, compute_locations, NewHeap,
         update_references, FixSlot, scan_and_fix_region_roots, physically_relocate,
         EndCollection, At, Ends
  <2>2. CASE NewHeap
    <3>1. CASE Places(NextHeapSize) = {}
      <4>1. phase' = "exhausted"
        BY <2>2, <3>1 DEF NewHeap
      <4> QED
        BY <4>1 DEF Placed, Ends
    <3>2. CASE Places(NextHeapSize) # {}
      <4>1. PICK n \in Places(NextHeapSize) :
              heap' = Chunk(n * PAGE, NextHeapSize, heap.current - heap.begin)
        BY <2>2, <3>2 DEF NewHeap
      <4>2. n \in Pages /\ PagesOf(n * PAGE, NextHeapSize) \subseteq Pages
        BY <4>1 DEF Places
      <4>3. n * PAGE \in Nat
        <5>1. n \in Nat /\ PAGE \in Nat
          BY <4>2, SizesAssumption
        <5> QED
          BY <5>1
      <4>4. NextHeapSize \in Nat \ {0}
        <5>1. TypeInv /\ ProgramInv /\ phase = "map"
          BY <2>2 DEF GCInv, NewHeap
        <5>2. Size(Requested(I)) \in Nat
          BY <5>1, RequestedFacts DEF Ends
        <5>3. NextHeapSize \in Nat /\ NextHeapSize > 0
          BY <5>1, <5>2, NextHeapSizeFacts
        <5> QED
          BY <5>3
      <4>5. heap'.begin = n * PAGE /\ heap'.size = NextHeapSize
        BY <4>1 DEF Chunk
      <4>6. \E q \in Pages : n * PAGE + NextHeapSize <= (q + 1) * PAGE
        BY <4>2, <4>3, <4>4, EndsOnPage
      <4> QED
        BY <4>5, <4>6 DEF Placed
    <3> QED
      BY <3>1, <3>2
  <2>3. CASE EndCollection
    <3> DEFINE chunk == [heap EXCEPT !.current = heap.begin + live]
    <3>1. chunk \in [begin : Nat, size : Nat, current : Nat] /\ chunk.begin = heap.begin /\ chunk.size = heap.size
      <4>1. live \in Nat
        BY DEF GCInv, TypeInv, TypeOK
      <4> QED
        BY <1>4, <4>1
    <3>2. heap'.begin = heap.begin /\ heap'.size = heap.size
      <4>1. CASE FitsIn(chunk, Size(Requested(I)))
        <5>1. Allocate(chunk, mem, ids, FreshId({ids[h] : h \in DOMAIN ids}), 0)
          BY <2>3, <4>1 DEF EndCollection
        <5> HIDE DEF chunk
        <5> QED
          BY <1>3, <3>1, <5>1
      <4>2. CASE ~ FitsIn(chunk, Size(Requested(I)))
        BY <2>3, <4>2 DEF EndCollection
      <4> QED
        BY <4>1, <4>2
    <3> QED
      BY <1>1, <2>1, <3>2
  <2>4. CASE ~ NewHeap /\ ~ EndCollection
    <3>1. heap' = heap
      BY <1>6, <2>4 DEF Collect, StartCollection, MarkRoot, Dequeue, compute_locations,
         update_references, FixSlot, scan_and_fix_region_roots, physically_relocate
    <3> QED
      BY <1>1, <2>1, <3>1
  <2> QED
    BY <2>2, <2>3, <2>4
<1>7. CASE __shutdown
  BY <1>7 DEF __shutdown, Placed, Ends
<1> QED
  BY <1>2, <1>5, <1>6, <1>7 DEF Next, Ended

-----------------------------------------------------------------------------
(* A number that names no object drawn.                                     *)
LEMMA FreshIdIs ==
  ASSUME NEW T, IsFiniteSet(T)
  PROVE  FreshId(T) \in 0 .. Cardinality(T) /\ FreshId(T) \notin T
<1> DEFINE n == Cardinality(T)
           L == {j \in Nat : j \notin T}
<1>1. n \in Nat
  BY FS_CardinalityType
<1>2. \E j \in 0 .. n : j \notin T
  <2> SUFFICES ASSUME 0 .. n \subseteq T PROVE FALSE
    OBVIOUS
  <2>1. IsFiniteSet(0 .. n) /\ Cardinality(0 .. n) = n + 1
    BY <1>1, FS_Interval
  <2>2. Cardinality(0 .. n) <= n
    BY FS_Subset
  <2> HIDE DEF n
  <2> QED
    BY <1>1, <2>1, <2>2
<1>3. PICK i \in L : \A k \in L : i <= k
  <2>1. L \in SUBSET Nat /\ L # {}
    BY <1>2
  <2> HIDE DEF L
  <2> QED
    BY <2>1, LeastNatural
<1>4. i \in 0 .. n /\ i \notin T /\ \A j \in 0 .. i - 1 : j \in T
  <2>1. \A j \in 0 .. i - 1 : j \in Nat /\ ~ (i <= j)
    OBVIOUS
  <2> QED
    BY <1>1, <1>2, <1>3, <2>1
<1> HIDE DEF n
<1> QED
  BY <1>4 DEF FreshId, n

(* No more names than addresses.                                            *)
LEMMA FewNames ==
  ASSUME NEW q \in Nat, NEW N \in SUBSET (0 .. q - 1), NEW names
  PROVE  LET T == {names[h] : h \in N}
         IN  IsFiniteSet(T) /\ Cardinality(T) \in 0 .. q
<1> DEFINE T == {names[h] : h \in N}
<1>1. IsFiniteSet(0 .. q - 1) /\ Cardinality(0 .. q - 1) = q
  BY FS_Interval
<1>2. IsFiniteSet(N) /\ Cardinality(N) <= q
  BY <1>1, FS_Subset
<1>3. IsFiniteSet(T) /\ Cardinality(T) <= Cardinality(N)
  <2> DEFINE f == [h \in N |-> names[h]]
  <2>1. f \in Surjection(N, T)
    BY DEF Surjection
  <2> HIDE DEF f, T
  <2> QED
    BY <1>2, <2>1, FS_Surjection
<1>4. Cardinality(N) \in Nat /\ Cardinality(T) \in Nat
  BY <1>2, <1>3, FS_CardinalityType
<1> QED
  BY <1>2, <1>3, <1>4

(* A name that is free is among IDS.                                        *)
LEMMA FreshName ==
  ASSUME Ample, Placed, phase \notin Ends, heap.begin \in Nat, heap.size \in Nat,
         NEW N \in SUBSET (heap.begin .. heap.begin + heap.size - 1), NEW names
  PROVE  LET T == {names[h] : h \in N} IN FreshId(T) \in IDS /\ FreshId(T) \notin T
<1> DEFINE T == {names[h] : h \in N}
<1>1. PICK n \in Pages : heap.begin + heap.size <= (n + 1) * PAGE
  BY DEF Placed
<1> DEFINE q == (n + 1) * PAGE
<1>2. q \in Nat /\ 0 .. q \subseteq IDS
  <2>1. n \in Nat /\ PAGE \in Nat
    BY SizesAssumption
  <2> QED
    BY <2>1 DEF Ample
<1> HIDE DEF q
<1>3. heap.begin + heap.size <= q
  BY <1>1 DEF q
<1>4. N \in SUBSET (0 .. q - 1)
  BY <1>2, <1>3
<1>5. IsFiniteSet(T) /\ Cardinality(T) \in 0 .. q
  BY <1>2, <1>4, FewNames
<1> HIDE DEF T
<1>6. FreshId(T) \in 0 .. Cardinality(T) /\ FreshId(T) \notin T
  BY <1>5, FreshIdIs
<1>7. FreshId(T) \in 0 .. q
  BY <1>2, <1>5, <1>6
<1> QED
  BY <1>2, <1>6, <1>7 DEF T

(* An object is drawn as before when its header and its fields are.          *)
LEMMA DrawnSame ==
  ASSUME NEW m, NEW O, NEW b, NEW c, Sound(m, O, b, c), NEW N \in SUBSET O,
         NEW objs, NEW own, NEW names, Drawn(objs, N, own, m, names),
         NEW n, \A h \in N : n[h] = m[h] /\ \A f \in FieldsAt(m, h) : n[f] = m[f]
  PROVE  Drawn(objs, N, own, n, names)
<1>1. \A h \in N : ObjectAt(n, h, names) = ObjectAt(m, h, names)
  BY ObjectSame
<1> QED
  BY <1>1 DEF Drawn

(* A run that has ended shows what it showed.                               *)
LEMMA EndShows ==
  ASSUME phase' \in Ends, Observe
  PROVE  ViewInv' /\ UNCHANGED Abstract!vars
<1>1. phase' \notin {"mutator", "roots", "queue", "map", "fields", "stack", "move"}
  BY DEF Ends
<1>2. view' = view
  BY <1>1 DEF Observe
<1>3. ViewInv'
  BY <1>1 DEF ViewInv
<1> QED
  BY <1>2, <1>3 DEF Abstract!vars

-----------------------------------------------------------------------------
(* Marking.                                                                *)
LEMMA StartShows ==
  ASSUME WellBehaved, GCInv, ViewInv, StartCollection, Observe
  PROVE  ViewInv' /\ UNCHANGED Abstract!vars
<1> DEFINE n == PoppedBefore(I)
<1>1. /\ phase = "mutator" /\ phase' = "roots" /\ view' = view
      /\ UNCHANGED <<stack, heap, mem, ids>>
      /\ sp' = sp - n /\ extra_roots' = [k \in 1 .. n |-> Top(k)]
      /\ I.op \in Allocators
  BY DEF StartCollection, At, Observe
<1>2. sp \in Nat /\ Legal(I, sp) /\ RESERVED \in Nat /\ RESERVED >= 1 /\ extra_roots = <<>>
  BY <1>1, MutatorFacts
<1>3. n \in {0, 1} /\ RESERVED + n <= sp
  <2>1. n \in {0, 1} /\ PoppedAfter(I) \in Nat /\ RESERVED + n + PoppedAfter(I) <= sp
    BY <1>1, <1>2, AllocatorFacts
  <2> HIDE DEF n
  <2> QED
    BY <1>2, <2>1
<1>4. Listed(view.roots, sp) /\ \A j \in 1 .. sp : view.roots[j] = ValueOf(stack[j - 1], ids)
  BY <1>1, ViewFacts
<1>5. Drawn(view.objects, Reach, ids, mem, ids)
  BY <1>1, ViewFacts
<1> HIDE DEF n
<1>6. Listed(extra_roots', n) /\ \A k \in 1 .. n : extra_roots'[k] = stack[sp - k]
  BY <1>1 DEF Listed, Top
<1>7. Len(extra_roots') = n
  BY <1>3, <1>6, ListedIs
<1>8. Reach' = Reach
  <2>1. RootWords = {stack[k] : k \in 0 .. sp - 1}
    <3>1. Len(extra_roots) = 0
      BY <1>2
    <3>2. \A k \in 1 .. Len(extra_roots) : FALSE
      BY <3>1
    <3> QED
      BY <3>2 DEF RootWords
  <2>2. RootWords' = {stack[k] : k \in 0 .. sp - n - 1} \cup {stack[sp - k] : k \in 1 .. n}
    BY <1>1, <1>6, <1>7 DEF RootWords
  <2>3. \A k \in 0 .. sp - 1 : k \in 0 .. sp - n - 1 \/ (k = sp - 1 /\ 1 \in 1 .. n)
    BY <1>2, <1>3
  <2>4. (\A k \in 0 .. sp - n - 1 : k \in 0 .. sp - 1) /\ \A k \in 1 .. n : sp - k \in 0 .. sp - 1
    BY <1>2, <1>3
  <2>5. RootWords' = RootWords
    BY <2>1, <2>2, <2>3, <2>4
  <2> QED
    BY <1>1, <2>5 DEF Reach, AllObjects
<1>9. RootsSeen(sp, ids, ids)'
  <2> DEFINE root(j) == IF j > sp' THEN ValueOf(extra_roots'[j - sp'], ids')
                        ELSE ValueOf(stack'[j - 1], IF j - 1 < sp' THEN ids' ELSE ids')
  <2>1. sp' + Len(extra_roots') = sp
    BY <1>1, <1>2, <1>3, <1>7
  <2>2. ASSUME NEW j \in 1 .. sp PROVE view.roots[j] = root(j)
    <3>1. CASE j > sp'
      <4>1. j - sp' \in 1 .. n /\ sp - (j - sp') = j - 1
        BY <1>1, <1>2, <1>3, <3>1
      <4>2. extra_roots'[j - sp'] = stack[j - 1]
        BY <1>6, <4>1
      <4> QED
        BY <1>1, <1>4, <3>1, <4>2
    <3>2. CASE ~ (j > sp')
      BY <1>1, <1>4, <3>2
    <3> QED
      BY <3>1, <3>2
  <2>3. view.roots = [j \in 1 .. sp |-> view.roots[j]]
    BY <1>4 DEF Listed
  <2> HIDE DEF root
  <2>4. view.roots = [j \in 1 .. sp |-> root(j)]
    BY <2>2, <2>3
  <2>5. view'.roots = [j \in 1 .. sp' + Len(extra_roots') |-> root(j)]
    BY <1>1, <2>1, <2>4
  <2> QED
    BY <2>5 DEF RootsSeen, root
<1>10. Drawn(view'.objects, Reach', ids', mem', ids')
  BY <1>1, <1>5, <1>8
<1>11. ViewInv'
  BY <1>1, <1>9, <1>10 DEF ViewInv
<1> QED
  BY <1>1, <1>11 DEF Abstract!vars

(* A step that changes marks alone shows nothing.                           *)
LEMMA MarkingShows ==
  ASSUME GCInv, ViewInv, phase \in {"roots", "queue"}, phase' \in {"roots", "queue"}, Observe,
         SameHeap(mem, mem', AllObjects), UNCHANGED <<program, heap, ids>>
  PROVE  ViewInv' /\ UNCHANGED Abstract!vars
<1>1. view' = view /\ UNCHANGED <<stack, sp, extra_roots>>
  BY DEF Observe, program
<1>2. Sound(mem, AllObjects, heap.begin, heap.current)
  BY DEF GCInv, HeapInv
<1>3. Sound(mem', AllObjects, heap.begin, heap.current)
  BY <1>2, SameHeapFacts
<1>4. AllObjects' = AllObjects
  <2>1. Objects(mem', heap.begin, heap.current) = AllObjects
    BY <1>3, SoundObjects
  <2> QED
    BY <2>1 DEF AllObjects
<1>5. RootsSeen(sp, ids, ids) /\ Drawn(view.objects, Reach, ids, mem, ids)
  BY DEF ViewInv
<1>6. Reach' = Reach
  <2>1. RootWords' = RootWords
    BY <1>1 DEF RootWords
  <2>2. Reached(mem', AllObjects, RootWords) = Reached(mem, AllObjects, RootWords)
    BY <1>2, ReachedSame
  <2> QED
    BY <1>4, <2>1, <2>2 DEF Reach
<1>7. \A h \in AllObjects : mem'[h] = mem[h] /\ \A f \in FieldsAt(mem, h) : mem'[f] = mem[f]
  BY <1>2, SameHeapFacts
<1>8. Reach \in SUBSET AllObjects
  BY DEF Reach, Reached
<1>9. Drawn(view.objects, Reach, ids, mem', ids)
  BY <1>2, <1>5, <1>7, <1>8, DrawnSame
<1>10. RootsSeen(sp, ids, ids)'
  BY <1>1, <1>5 DEF RootsSeen
<1>11. Drawn(view'.objects, Reach', ids', mem', ids')
  BY <1>1, <1>6, <1>9
<1>12. ViewInv'
  BY <1>10, <1>11 DEF ViewInv
<1> QED
  BY <1>1, <1>12 DEF Abstract!vars

(* Marking a root shows nothing.                                            *)
LEMMA MarkRootShows ==
  ASSUME GCInv, ViewInv, MarkRoot, Observe, prog' = prog
  PROVE  ViewInv' /\ UNCHANGED Abstract!vars
<1>1. /\ phase = "roots" /\ phase' \in {"roots", "queue"}
      /\ UNCHANGED <<program, heap, ids>>
  BY DEF MarkRoot
<1>2. SameHeap(mem, mem', AllObjects)
  BY MarkRootKeeps
<1> QED
  BY <1>1, <1>2, MarkingShows

(* Taking an object off the queue shows nothing.                            *)
LEMMA DequeueShows ==
  ASSUME GCInv, ViewInv, Dequeue, Observe, prog' = prog
  PROVE  ViewInv' /\ UNCHANGED Abstract!vars
<1>1. /\ phase = "queue" /\ phase' \in {"roots", "queue"}
      /\ UNCHANGED <<program, heap, ids>>
  BY DEF Dequeue
<1>2. SameHeap(mem, mem', AllObjects)
  BY DequeueStep
<1> QED
  BY <1>1, <1>2, MarkingShows

(* What is marked in the end is what the program sees.                      *)
LEMMA MarkedIsSeen ==
  ASSUME GCInv, MarkingDone
  PROVE  Black(mem, AllObjects) = Reach
<1> DEFINE O == AllObjects
<1>1. /\ TypeInv /\ ProgramInv /\ phase = "roots"
      /\ Sound(mem, O, heap.begin, heap.current) /\ Holding(mem, O, O) /\ Rooted(O)
      /\ DOMAIN ids = O
  BY DEF GCInv, HeapInv, MarkingDone
<1>2. /\ sp \in Nat /\ sp >= 1 /\ extra_roots \in Seq(Word) /\ stack[0] \in Word
      /\ IsFiniteSet(DOMAIN mem)
  <2>1. sp \in Nat /\ sp >= 1 /\ sp <= STACK_MAX_SIZE /\ STACK_MAX_SIZE \in Nat
    BY <1>1, SizesAssumption DEF ProgramInv, Ends
  <2>2. 0 \in Slots
    BY <2>1 DEF Slots
  <2>3. stack \in [Slots -> Word] /\ extra_roots \in Seq(Word)
        /\ mem \in [heap.begin .. heap.begin + heap.size - 1 -> Word]
        /\ heap.begin \in Nat /\ heap.size \in Nat
    BY <1>1 DEF TypeInv, TypeOK, IsChunk
  <2>4. DOMAIN mem = heap.begin .. heap.begin + heap.size - 1 /\ heap.begin + heap.size - 1 \in Int
    BY <2>3
  <2>5. IsFiniteSet(DOMAIN mem)
    <3>1. heap.begin \in Int /\ heap.begin + heap.size - 1 \in Int
      BY <2>3
    <3>2. IsFiniteSet(heap.begin .. heap.begin + heap.size - 1)
      BY <3>1, FS_Interval
    <3> QED
      BY <2>4, <3>2
  <2>6. stack[0] \in Word
    BY <2>2, <2>3
  <2> QED
    BY <2>1, <2>3, <2>5, <2>6
<1>3. ToSet(InUseSlots \o extra_roots) = RootWords
  BY <1>2, SlotsInUse DEF RootWords
<1>4. \A w \in RootWords : Is(w, O)
  <2>1. Is(stack[0], O)
    BY <1>1, <1>2 DEF Rooted, Is
  <2>2. \A k \in 0 .. sp - 1 : k = 0 \/ k \in 1 .. sp - 1
    BY <1>2
  <2> QED
    BY <1>1, <2>1, <2>2 DEF Rooted, RootWords
<1>5. InUse = Reach
  <2> HIDE DEF O
  <2>1. Held(RootWords, mem, ids) = Reached(mem, O, RootWords)
    BY <1>1, <1>2, <1>4, HeldIs
  <2> QED
    BY <1>3, <2>1 DEF InUse, Reach, O
<1>6. Marked = InUse
  BY MarkedFollows DEF MarkedIsReachable
<1>7. Marked = Black(mem, O)
  BY DEF Marked, Black
<1> QED
  BY <1>5, <1>6, <1>7

(* Forward addresses show nothing: what is marked is what is seen.          *)
LEMMA LocationsShow ==
  ASSUME GCInv, ViewInv, compute_locations, Observe, prog' = prog
  PROVE  ViewInv' /\ UNCHANGED Abstract!vars
<1>1. /\ phase = "roots" /\ phase' = "map" /\ next > Len(Roots)
      /\ UNCHANGED <<stack, sp, extra_roots, heap, ids, view>>
  BY DEF compute_locations, Observe, program
<1>2. Sound(mem, AllObjects, heap.begin, heap.current)
  BY <1>1 DEF GCInv, HeapInv
<1>3. SameHeap(mem, mem', AllObjects) /\ Black(mem', AllObjects) = Black(mem, AllObjects)
  BY LocationsKeep
<1>4. AllObjects' = AllObjects
  <2>1. Sound(mem', AllObjects, heap.begin, heap.current)
    BY <1>2, <1>3, SameHeapFacts
  <2>2. Objects(mem', heap.begin, heap.current) = AllObjects
    BY <2>1, SoundObjects
  <2> QED
    BY <1>1, <2>2 DEF AllObjects
<1>5. Black(mem, AllObjects) = Reach
  BY <1>1, MarkedIsSeen DEF MarkingDone
<1>6. RootsSeen(sp, ids, ids) /\ Drawn(view.objects, Reach, ids, mem, ids)
  BY <1>1 DEF ViewInv
<1>7. \A h \in AllObjects : mem'[h] = mem[h] /\ \A f \in FieldsAt(mem, h) : mem'[f] = mem[f]
  BY <1>2, <1>3, SameHeapFacts
<1>8. Reach \in SUBSET AllObjects
  BY DEF Reach, Reached
<1>9. Drawn(view.objects, Reach, ids, mem', ids)
  BY <1>2, <1>6, <1>7, <1>8, DrawnSame
<1>10. RootsSeen(sp, ids, ids)'
  BY <1>1, <1>6 DEF RootsSeen
<1>11. Drawn(view'.objects, Black(mem', AllObjects'), ids', mem', ids')
  BY <1>1, <1>3, <1>4, <1>5, <1>9
<1>12. ViewInv'
  BY <1>1, <1>10, <1>11 DEF ViewInv
<1> QED
  BY <1>1, <1>12 DEF Abstract!vars

-----------------------------------------------------------------------------
(* Compaction: objects move and keep their names.                           *)
LEMMA NamesAgree ==
  ASSUME NEW S \in SUBSET Nat, NEW w, Is(w, S), NEW names, NEW nameds,
         S \subseteq DOMAIN names, S \subseteq DOMAIN nameds, \A h \in S : nameds[h] = names[h]
  PROVE  ValueOf(w, nameds) = ValueOf(w, names)
<1>1. CASE UNBOXED(w)
  BY <1>1 DEF ValueOf
<1>2. CASE ~ UNBOXED(w)
  <2>1. PICK h \in S : w = Content(h)
    BY <1>2 DEF Is
  <2>2. HeaderOf(w) = h
    BY <2>1, ContentFacts
  <2>3. IsRef(w, names) /\ IsRef(w, nameds) /\ nameds[HeaderOf(w)] = names[HeaderOf(w)]
    BY <1>2, <2>2 DEF IsRef
  <2> QED
    BY <1>2, <2>3 DEF ValueOf
<1> QED
  BY <1>1, <1>2

(* Objects that move and keep their names and values are drawn as before.   *)
LEMMA Redrawn ==
  ASSUME NEW objs, NEW N, NEW own, NEW m, NEW names, Drawn(objs, N, own, m, names),
         NEW to, NEW M, \A h \in N : to[h] \in M, \A g \in M : \E h \in N : g = to[h],
         NEW owned, \A h \in N : owned[to[h]] = own[h],
         NEW n, NEW nameds, \A h \in N : ObjectAt(n, to[h], nameds) = ObjectAt(m, h, names)
  PROVE  Drawn(objs, M, owned, n, nameds)
<1>1. /\ \A g, h \in N : own[g] = own[h] => g = h
      /\ objs = [i \in {own[h] : h \in N} |-> objs[i]]
      /\ \A h \in N : objs[own[h]] = ObjectAt(m, h, names)
  BY DEF Drawn
<1>2. ASSUME NEW x \in M, NEW y \in M, owned[x] = owned[y] PROVE x = y
  <2>1. PICK g \in N : x = to[g]
    OBVIOUS
  <2>2. PICK h \in N : y = to[h]
    OBVIOUS
  <2>3. own[g] = own[h]
    BY <1>2, <2>1, <2>2
  <2> QED
    BY <1>1, <2>1, <2>2, <2>3
<1>3. {owned[x] : x \in M} = {own[h] : h \in N}
  <2>1. \A x \in M : \E h \in N : owned[x] = own[h]
    OBVIOUS
  <2>2. \A h \in N : \E x \in M : own[h] = owned[x]
    OBVIOUS
  <2> QED
    BY <2>1, <2>2
<1>4. objs = [i \in {owned[x] : x \in M} |-> objs[i]]
  BY <1>1, <1>3
<1>5. ASSUME NEW x \in M PROVE objs[owned[x]] = ObjectAt(n, x, nameds)
  <2>1. PICK h \in N : x = to[h]
    OBVIOUS
  <2>2. owned[x] = own[h] /\ ObjectAt(n, x, nameds) = ObjectAt(m, h, names)
    BY <2>1
  <2> QED
    BY <1>1, <2>2
<1> QED
  BY <1>2, <1>4, <1>5 DEF Drawn

(* The copy of the heap shows nothing.                                      *)
LEMMA NewHeapShows ==
  ASSUME Addressable, GCInv, ViewInv, NewHeap, Observe, prog' = prog
  PROVE  ViewInv' /\ UNCHANGED Abstract!vars
<1>1. /\ phase = "map" /\ UNCHANGED <<stack, sp, extra_roots>>
      /\ GCInv' /\ (phase' = "exhausted" \/ \E d : Copied(d))
  BY NewHeapKeeps DEF NewHeap, program
<1>2. CASE phase' = "exhausted"
  BY <1>2, EndShows DEF Ends
<1>3. CASE \E d : Copied(d)
  <2> DEFINE O == AllObjects
             B == Black(mem, O)
             C == Black(mem, AllObjects)'
             names == OldNames'
             own == DestNames(Black(mem, AllObjects))'
  <2>1. PICK d : Copied(d)
    BY <1>3
  <2>2. /\ d \in Int /\ phase' = "fields" /\ old' = heap /\ heap'.begin = heap.begin + d
        /\ \A h \in O : /\ h + d \in Nat /\ mem'[h + d] = mem[h]
                        /\ \A f \in FieldsAt(mem, h) : mem'[f + d] = mem[f]
        /\ C = Shifted(B, d) /\ Olds' = B
        /\ \A h \in B : ids'[Dest(mem, h + d)'] = ids[h]
    BY <2>1 DEF Copied
  <2>3. view' = view
    BY <2>2 DEF Observe
  <2>4. /\ Sound(mem, O, heap.begin, heap.current) /\ DOMAIN ids = O
        /\ heap.begin \in Nat
    BY <1>1 DEF GCInv, HeapInv, TypeInv, TypeOK, IsChunk
  <2>5. B \in SUBSET O /\ O \in SUBSET Nat
    BY <2>4, SoundFacts DEF Black
  <2>6. /\ \A h \in B : \A f \in FieldsAt(mem, h) : Is(mem[f], B)
        /\ UNBOXED(stack[0])
        /\ \A k \in 1 .. sp - 1 : Is(stack[k], B)
        /\ \A k \in 1 .. Len(extra_roots) : Is(extra_roots[k], B)
    <3>1. Rooted(Olds)'
      BY <1>1, <2>2 DEF GCInv, CopyInv
    <3>2. /\ UNBOXED(stack[0])
          /\ \A k \in 1 .. sp - 1 : Is(stack[k], B)
          /\ \A k \in 1 .. Len(extra_roots) : Is(extra_roots[k], B)
      BY <1>1, <2>2, <3>1 DEF Rooted
    <3>3. \A h \in B : \A f \in FieldsAt(mem, h) : Is(mem[f], O) /\ Leads(mem[f], B)
      BY <1>1, <2>5 DEF GCInv, HeapInv, MapInv, Holding
    <3>4. \A h \in B : \A f \in FieldsAt(mem, h) : Is(mem[f], B)
      BY <2>5, <3>3, IsWhatLeads
    <3> QED
      BY <3>2, <3>4
  <2>7. DOMAIN names = B /\ \A h \in B : names[h] = ids[h]
    <3>1. ASSUME NEW h \in B PROVE h - old'.begin + heap'.begin = h + d
      <4> DEFINE x == heap.begin
      <4>1. old'.begin = x /\ heap'.begin = x + d /\ x \in Nat
        BY <2>2, <2>4
      <4>2. h \in Nat /\ d \in Int
        BY <2>2, <2>5
      <4> HIDE DEF x
      <4>3. h - x + (x + d) = h + d
        BY <4>1, <4>2
      <4> QED
        BY <4>1, <4>3
    <3>2. DOMAIN names = B /\ \A h \in B : names[h] = ids'[Dest(mem, h - old.begin + heap.begin)']
      BY <2>2 DEF OldNames
    <3> HIDE DEF names, B
    <3> QED
      BY <2>2, <3>1, <3>2
  <2>8. \A h \in B : h + d \in C /\ own[h + d] = ids[h]
    <3>1. \A h \in B : h + d \in C
      BY <2>2 DEF Shifted
    <3>2. \A x \in C : own[x] = ids'[Dest(mem, x)']
      BY DEF DestNames
    <3> HIDE DEF own, B, C
    <3> QED
      BY <2>2, <3>1, <3>2
  <2>9. \A x \in C : \E h \in B : x = h + d
    BY <2>2 DEF Shifted
  <2> HIDE DEF names, own, B, C, O
  <2>10. ASSUME NEW w, Is(w, B) PROVE ValueOf(w, names) = ValueOf(w, ids)
    <3>1. B \in SUBSET Nat /\ B \subseteq DOMAIN ids /\ B \subseteq DOMAIN names
      BY <2>4, <2>5, <2>7
    <3> QED
      BY <2>7, <2>10, <3>1, NamesAgree
  <2>11. ASSUME NEW h \in B PROVE ObjectAt(mem', h + d, names) = ObjectAt(mem, h, ids)
    <3>1. h \in O /\ d \in Int /\ h + d \in Nat /\ mem'[h + d] = mem[h]
      BY <2>2, <2>5
    <3>2. \A f \in FieldsAt(mem, h) : ValueOf(mem'[f + d], names) = ValueOf(mem[f], ids)
      BY <2>2, <2>6, <2>10, <3>1
    <3> QED
      BY <2>4, <3>1, <3>2, ObjectAlike
  <2>12. Drawn(view.objects, B, ids, mem, ids) /\ RootsSeen(sp, ids, ids)
    BY <1>1 DEF ViewInv, B, O
  <2>13. Drawn(view.objects, C, own, mem', names)
    <3> DEFINE to == [h \in B |-> h + d]
    <3>1. \A h \in B : to[h] = h + d
      OBVIOUS
    <3> HIDE DEF to
    <3>2. /\ \A h \in B : to[h] \in C
          /\ \A g \in C : \E h \in B : g = to[h]
          /\ \A h \in B : own[to[h]] = ids[h]
          /\ \A h \in B : ObjectAt(mem', to[h], names) = ObjectAt(mem, h, ids)
      BY <2>8, <2>9, <2>11, <3>1
    <3> QED
      BY <2>12, <3>2, Redrawn
  <2>14. RootsSeen(0, ids, OldNames)'
    <3> DEFINE L == 1 .. sp + Len(extra_roots)
               was(j) == IF j > sp THEN ValueOf(extra_roots[j - sp], ids)
                         ELSE ValueOf(stack[j - 1], IF j - 1 < sp THEN ids ELSE ids)
               root(j) == IF j > sp THEN ValueOf(extra_roots[j - sp], names)
                          ELSE ValueOf(stack[j - 1], IF j - 1 < 0 THEN ids' ELSE names)
    <3>1. view.roots = [j \in L |-> was(j)]
      BY <2>12 DEF RootsSeen
    <3>2. sp \in Nat /\ Len(extra_roots) \in Nat
      BY <1>1 DEF GCInv, TypeInv, TypeOK
    <3>3. ASSUME NEW j \in L PROVE was(j) = root(j)
      <4>1. CASE j > sp
        <5>1. j - sp \in 1 .. Len(extra_roots)
          BY <3>2, <4>1
        <5>2. ValueOf(extra_roots[j - sp], names) = ValueOf(extra_roots[j - sp], ids)
          BY <2>6, <2>10, <5>1
        <5> QED
          BY <4>1, <5>2
      <4>2. CASE ~ (j > sp)
        <5>1. j - 1 = 0 \/ j - 1 \in 1 .. sp - 1
          BY <3>2, <4>2
        <5>2. ~ (j - 1 < 0)
          BY <3>2
        <5>3. ValueOf(stack[j - 1], names) = ValueOf(stack[j - 1], ids)
          <6>1. CASE j - 1 = 0
            BY <2>6, <6>1 DEF ValueOf
          <6>2. CASE j - 1 \in 1 .. sp - 1
            BY <2>6, <2>10, <6>2
          <6> QED
            BY <5>1, <6>1, <6>2
        <5> QED
          BY <4>2, <5>2, <5>3
      <4> QED
        BY <4>1, <4>2
    <3> HIDE DEF was, root, L
    <3>4. view.roots = [j \in L |-> root(j)]
      BY <3>1, <3>3
    <3> QED
      BY <1>1, <2>3, <3>4 DEF RootsSeen, root, L, names
  <2>15. Drawn(view.objects, Black(mem, AllObjects), DestNames(Black(mem, AllObjects)), mem, OldNames)'
    BY <2>3, <2>13 DEF C, own, names
  <2>16. ViewInv'
    BY <2>2, <2>14, <2>15 DEF ViewInv
  <2> QED
    BY <2>3, <2>16 DEF Abstract!vars
<1> QED
  BY <1>1, <1>2, <1>3

(* A reference that is brought up to date denotes what it did.               *)
LEMMA FixedValue ==
  ASSUME GCInv, phase \in {"fields", "stack"}, NEW w, Is(w, Olds)
  PROVE  ValueOf(Fixed(w), ids) = ValueOf(w, OldNames)
<1>0. TypeInv /\ RoomInv /\ CopyInv
  BY DEF GCInv
<1>1. CASE UNBOXED(w)
  BY <1>1 DEF Fixed, PointsToOld, ValueOf
<1>2. CASE ~ UNBOXED(w)
  <2>1. PICK o \in Olds : w = Content(o)
    BY <1>2 DEF Is
  <2>2. PICK x \in Black(mem, AllObjects) : o = x - heap.begin + old.begin
    BY <2>1 DEF Olds
  <2> DEFINE y == Dest(mem, x)
  <2>3. /\ PointsToOld(w) /\ y \in DOMAIN ids /\ y \in Nat /\ NewAddress(w) = Content(y)
    BY <1>0, <2>1, <2>2, NewAddressIs
  <2>4. /\ o \in Nat /\ o - old.begin + heap.begin = x
    <3>1. Sound(mem, AllObjects, heap.begin, heap.current) /\ x \in AllObjects
      BY <1>0 DEF CopyInv, Black
    <3>2. x \in Nat /\ x >= heap.begin /\ heap.begin \in Nat
      BY <3>1, SoundFacts
    <3>3. old.begin \in Nat
      BY <1>0 DEF RoomInv
    <3> QED
      BY <2>2, <3>2, <3>3
  <2>5. DOMAIN OldNames = Olds /\ OldNames[o] = ids[y]
    BY <2>1, <2>4 DEF OldNames
  <2>6. HeaderOf(w) = o
    BY <2>1, <2>4, ContentFacts
  <2>7. ~ UNBOXED(Content(y)) /\ HeaderOf(Content(y)) = y
    BY <2>3, ContentFacts
  <2> HIDE DEF y
  <2>8. ValueOf(w, OldNames) = [kind |-> "ref", val |-> ids[y]]
    BY <1>2, <2>1, <2>5, <2>6 DEF ValueOf, IsRef
  <2>9. ValueOf(Content(y), ids) = [kind |-> "ref", val |-> ids[y]]
    BY <2>3, <2>7 DEF ValueOf, IsRef
  <2> QED
    BY <2>3, <2>8, <2>9 DEF Fixed
<1> QED
  BY <1>1, <1>2

(* Correcting the fields shows nothing.                                     *)
LEMMA FieldsShow ==
  ASSUME GCInv, ViewInv, update_references, Observe, prog' = prog
  PROVE  ViewInv' /\ UNCHANGED Abstract!vars
<1> DEFINE O == AllObjects
           B == Black(mem, O)
           own == DestNames(B)
<1>1. /\ phase = "fields" /\ phase' = "stack" /\ next' = 1 /\ view' = view
      /\ UNCHANGED <<stack, sp, extra_roots, heap, old, ids>>
  BY DEF update_references, FIRST_ROOT, program, Observe
<1>2. /\ GCInv' /\ AllObjects' = O /\ Olds' = Olds /\ Black(mem', O) = B
      /\ \A h \in O : mem'[h] = mem[h] /\ Holds(mem', h) = Holds(mem, h)
      /\ \A h \in B : \A f \in FieldsAt(mem, h) : mem'[f] = Fixed(mem[f])
  BY FieldsFixed
<1>3. /\ Sound(mem, O, heap.begin, heap.current) /\ Holding(mem, B, Olds)
      /\ UNBOXED(stack[0])
      /\ heap.begin \in Nat /\ old.begin \in Nat
  BY <1>1 DEF GCInv, CopyInv, RoomInv, TypeInv, TypeOK, IsChunk, Rooted
<1>4. B \in SUBSET O /\ O \in SUBSET Nat
  BY <1>3, SoundFacts DEF Black
<1>5. \A h \in B : Dest(mem, h)' = Dest(mem, h)
  BY <1>1, <1>2, <1>4 DEF Dest, Rebased
<1>6. OldNames' = OldNames
  <2> DEFINE at(a) == a - old.begin + heap.begin
  <2>1. \A a \in Olds : at(a) \in B
    <3>1. ASSUME NEW x \in B PROVE (x - heap.begin + old.begin) - old.begin + heap.begin = x
      <4> DEFINE y == heap.begin
                 z == old.begin
      <4>1. x \in Nat /\ y \in Nat /\ z \in Nat
        BY <1>3, <1>4
      <4> HIDE DEF y, z
      <4>2. (x - y + z) - z + y = x
        BY <4>1
      <4> QED
        BY <4>2 DEF y, z
    <3> QED
      BY <3>1 DEF Olds
  <2>2. \A a \in Olds : Dest(mem, at(a))' = Dest(mem, at(a))
    BY <1>1, <1>5, <2>1
  <2>3. OldNames' = [a \in Olds |-> ids[Dest(mem, at(a))']]
    BY <1>1, <1>2 DEF OldNames
  <2> HIDE DEF at
  <2>4. OldNames' = [a \in Olds |-> ids[Dest(mem, at(a))]]
    BY <2>2, <2>3
  <2> QED
    BY <2>4 DEF OldNames, at
<1>7. DestNames(B)' = own
  <2>1. B' = B
    BY <1>2
  <2>2. DestNames(B)' = [h \in B' |-> ids'[Dest(mem, h)']]
    BY DEF DestNames
  <2> HIDE DEF B
  <2>3. DestNames(B)' = [h \in B |-> ids[Dest(mem, h)]]
    BY <1>1, <1>5, <2>1, <2>2
  <2> QED
    BY <2>3 DEF DestNames
<1>8. RootsSeen(0, ids, OldNames) /\ Drawn(view.objects, B, own, mem, OldNames)
  BY <1>1 DEF ViewInv
<1> HIDE DEF own, O, B
<1>9. ASSUME NEW h \in B PROVE ObjectAt(mem', h, ids) = ObjectAt(mem, h, OldNames)
  <2> DEFINE d == 0
  <2>1. h \in O /\ h \in Nat /\ d \in Int /\ h + d = h
    BY <1>4
  <2>2. \A f \in FieldsAt(mem, h) : f \in Nat /\ f + d = f
    <3>1. FieldsAt(mem, h) \subseteq h + 2 .. Behind(mem, h) - 1
      BY <1>3, <2>1, SoundFacts
    <3> QED
      BY <2>1, <3>1
  <2> HIDE DEF d
  <2>3. \A f \in FieldsAt(mem, h) : ValueOf(mem'[f + d], ids) = ValueOf(mem[f], OldNames)
    <3>1. \A f \in FieldsAt(mem, h) : Is(mem[f], Olds)
      BY <1>3, <2>1 DEF Holding
    <3>2. \A f \in FieldsAt(mem, h) : ValueOf(Fixed(mem[f]), ids) = ValueOf(mem[f], OldNames)
      BY <1>1, <3>1, FixedValue
    <3> QED
      BY <1>2, <2>2, <3>2
  <2>4. mem'[h + d] = mem[h] /\ h + d \in Nat
    BY <1>2, <2>1
  <2>5. ObjectAt(mem', h + d, ids) = ObjectAt(mem, h, OldNames)
    BY <1>3, <2>1, <2>3, <2>4, ObjectAlike
  <2> QED
    BY <2>1, <2>5
<1>10. Drawn(view.objects, B, own, mem', ids)
  BY <1>8, <1>9 DEF Drawn
<1>11. RootsSeen(1, ids, OldNames)
  <2> DEFINE L == 1 .. sp + Len(extra_roots)
             was(j) == IF j > sp THEN ValueOf(extra_roots[j - sp], OldNames)
                       ELSE ValueOf(stack[j - 1], IF j - 1 < 0 THEN ids ELSE OldNames)
             root(j) == IF j > sp THEN ValueOf(extra_roots[j - sp], OldNames)
                        ELSE ValueOf(stack[j - 1], IF j - 1 < 1 THEN ids ELSE OldNames)
  <2>1. view.roots = [j \in L |-> was(j)]
    BY <1>8 DEF RootsSeen
  <2>2. ASSUME NEW j \in L PROVE was(j) = root(j)
    <3>1. j \in Nat /\ j >= 1
      OBVIOUS
    <3>2. CASE j = 1
      <4>1. j - 1 = 0 /\ ~ (j - 1 < 0) /\ j - 1 < 1
        BY <3>2
      <4>2. ValueOf(stack[0], ids) = ValueOf(stack[0], OldNames)
        BY <1>3 DEF ValueOf
      <4> QED
        BY <4>1, <4>2
    <3>3. CASE j # 1
      <4>1. ~ (j - 1 < 0) /\ ~ (j - 1 < 1)
        BY <3>1, <3>3
      <4> QED
        BY <4>1
    <3> QED
      BY <3>2, <3>3
  <2> HIDE DEF was, root, L
  <2>3. view.roots = [j \in L |-> root(j)]
    BY <2>1, <2>2
  <2> QED
    BY <2>3 DEF RootsSeen, root, L
<1>12. RootsSeen(next, ids, OldNames)'
  BY <1>1, <1>6, <1>11 DEF RootsSeen
<1>13. Drawn(view.objects, Black(mem, AllObjects), DestNames(Black(mem, AllObjects)), mem, ids)'
  BY <1>1, <1>2, <1>7, <1>10 DEF B, O
<1>14. ViewInv'
  BY <1>1, <1>12, <1>13 DEF ViewInv
<1> QED
  BY <1>1, <1>14 DEF Abstract!vars

(* Correcting a slot shows nothing.                                         *)
LEMMA SlotShows ==
  ASSUME GCInv, ViewInv, FixSlot, Observe, prog' = prog
  PROVE  ViewInv' /\ UNCHANGED Abstract!vars
<1> DEFINE w == stack[next]
<1>1. /\ phase = "stack" /\ next <= LastFixed
      /\ UNCHANGED <<sp, extra_roots, heap, mem, old, ids>>
  BY DEF FixSlot
<1>2. phase' \in {"stack", "crashed"}
  BY <1>1 DEF FixSlot
<1>3. CASE phase' = "crashed"
  BY <1>3, EndShows DEF Ends
<1>4. CASE phase' = "stack"
  <2>1. view' = view
    BY <1>4 DEF Observe
  <2>2. /\ next \in 1 .. STACK_MAX_SIZE + 1
        /\ \A j \in 1 .. sp - 1 : Is(stack[j], IF j < next THEN DOMAIN ids ELSE Olds)
        /\ STACK_MAX_SIZE \in Nat /\ sp \in 0 .. STACK_MAX_SIZE /\ stack \in [Slots -> Word]
    BY <1>1, SizesAssumption DEF GCInv, CopyInv, TypeInv, TypeOK
  <2>3. next' = next + 1 /\ next \in Nat /\ next >= 1
    BY <1>1, <1>4, <2>2 DEF FixSlot
  <2>4. \A j \in 0 .. sp - 1 : j # next => stack'[j] = stack[j]
    <3>1. \A j \in 0 .. sp - 1 : j \in Slots
      BY <2>2 DEF Slots
    <3>2. stack' = stack \/ stack' = [stack EXCEPT ![next] = NewAddress(w)]
      BY <1>1, <1>4 DEF FixSlot
    <3> QED
      BY <2>2, <3>1, <3>2
  <2>5. next \in 1 .. sp - 1 => stack'[next] = Fixed(w)
    <3>1. next \in 1 .. sp - 1 => next \in Slots
      BY <2>2 DEF Slots
    <3>2. CASE PointsToOld(w)
      <4>1. stack' = [stack EXCEPT ![next] = NewAddress(w)]
        BY <1>1, <1>4, <3>2 DEF FixSlot
      <4> QED
        BY <2>2, <3>1, <3>2, <4>1 DEF Fixed
    <3>3. CASE ~ PointsToOld(w)
      <4>1. stack' = stack
        BY <1>1, <3>3 DEF FixSlot
      <4> QED
        BY <3>3, <4>1 DEF Fixed
    <3> QED
      BY <3>2, <3>3
  <2>6. next \in 1 .. sp - 1 => ValueOf(stack'[next], ids) = ValueOf(w, OldNames)
    <3>1. next \in 1 .. sp - 1 => Is(w, Olds)
      <4>1. ~ (next < next)
        BY <2>3
      <4> QED
        BY <2>2, <4>1
    <3> QED
      BY <1>1, <2>5, <3>1, FixedValue
  <2>7. AllObjects' = AllObjects
    BY <1>1 DEF AllObjects
  <2>8. Olds' = Olds
    BY <1>1, <2>7 DEF Olds
  <2>9. \A h : Dest(mem, h)' = Dest(mem, h)
    BY <1>1 DEF Dest, Rebased
  <2>10. OldNames' = OldNames
    BY <1>1, <2>8, <2>9 DEF OldNames
  <2>11. DestNames(Black(mem, AllObjects))' = DestNames(Black(mem, AllObjects))
    BY <1>1, <2>7, <2>9 DEF DestNames
  <2>12. /\ RootsSeen(next, ids, OldNames)
         /\ Drawn(view.objects, Black(mem, AllObjects), DestNames(Black(mem, AllObjects)), mem, ids)
    BY <1>1 DEF ViewInv
  <2>13. RootsSeen(next, ids, OldNames)'
    <3> DEFINE L == 1 .. sp + Len(extra_roots)
               was(j) == IF j > sp THEN ValueOf(extra_roots[j - sp], OldNames)
                         ELSE ValueOf(stack[j - 1], IF j - 1 < next THEN ids ELSE OldNames)
               root(j) == IF j > sp THEN ValueOf(extra_roots[j - sp], OldNames)
                          ELSE ValueOf(stack'[j - 1], IF j - 1 < next + 1 THEN ids ELSE OldNames)
    <3>1. view.roots = [j \in L |-> was(j)]
      BY <2>12 DEF RootsSeen
    <3>2. ASSUME NEW j \in L PROVE was(j) = root(j)
      <4>1. j \in Nat /\ j >= 1 /\ sp \in Nat
        BY <2>2
      <4>2. CASE j > sp
        BY <4>2
      <4>3. CASE ~ (j > sp) /\ j - 1 = next
        <5>1. next \in 1 .. sp - 1 /\ ~ (j - 1 < next) /\ j - 1 < next + 1
          BY <2>3, <4>1, <4>3
        <5> QED
          BY <2>6, <4>3, <5>1
      <4>4. CASE ~ (j > sp) /\ j - 1 # next
        <5>1. j - 1 \in 0 .. sp - 1 /\ (j - 1 < next + 1 <=> j - 1 < next)
          BY <2>3, <4>1, <4>4
        <5> QED
          BY <2>4, <4>4, <5>1
      <4> QED
        BY <4>2, <4>3, <4>4
    <3> HIDE DEF was, root, L
    <3>3. view.roots = [j \in L |-> root(j)]
      BY <3>1, <3>2
    <3> QED
      BY <1>1, <2>1, <2>3, <2>10, <3>3 DEF RootsSeen, root, L
  <2>14. Drawn(view.objects, Black(mem, AllObjects), DestNames(Black(mem, AllObjects)), mem, ids)'
    BY <1>1, <2>1, <2>7, <2>11, <2>12
  <2>15. ViewInv'
    BY <1>4, <2>13, <2>14 DEF ViewInv
  <2> QED
    BY <2>1, <2>15 DEF Abstract!vars
<1> QED
  BY <1>2, <1>3, <1>4

(* Correcting the extra roots shows nothing.                                *)
LEMMA RootsShow ==
  ASSUME GCInv, ViewInv, scan_and_fix_region_roots, Observe, prog' = prog
  PROVE  ViewInv' /\ UNCHANGED Abstract!vars
<1>1. /\ phase = "stack" /\ phase' = "move" /\ next > LastFixed /\ view' = view
      /\ UNCHANGED <<stack, sp, heap, mem, old, ids>>
      /\ extra_roots' = [k \in DOMAIN extra_roots |-> Fixed(extra_roots[k])]
  BY DEF scan_and_fix_region_roots, Observe, Fixed
<1>2. Rest' = AllObjects /\ Done' = {}
  BY RootsFixed
<1>3. /\ next \in Nat /\ STACK_MAX_SIZE \in Nat /\ sp \in 0 .. STACK_MAX_SIZE
      /\ extra_roots \in Seq(Word)
      /\ \A k \in 1 .. Len(extra_roots) : Is(extra_roots[k], Olds)
  BY <1>1, SizesAssumption DEF GCInv, CopyInv, TypeInv, TypeOK
<1>4. \A j \in 0 .. sp - 1 : j < next
  BY <1>1, <1>3 DEF LastFixed
<1>5. /\ RootsSeen(next, ids, OldNames)
      /\ Drawn(view.objects, Black(mem, AllObjects), DestNames(Black(mem, AllObjects)), mem, ids)
  BY <1>1 DEF ViewInv
<1>6. Len(extra_roots) \in Nat /\ DOMAIN extra_roots = 1 .. Len(extra_roots)
  BY <1>3
<1>7. /\ Len(extra_roots') = Len(extra_roots)
      /\ \A k \in 1 .. Len(extra_roots) : extra_roots'[k] = Fixed(extra_roots[k])
  <2> DEFINE n == Len(extra_roots)
             t == extra_roots'
  <2>1. t = [k \in 1 .. n |-> Fixed(extra_roots[k])]
    BY <1>1, <1>6
  <2>2. Listed(t, n) /\ \A k \in 1 .. n : t[k] = Fixed(extra_roots[k])
    BY <2>1 DEF Listed
  <2> HIDE DEF n, t
  <2>3. Len(t) = n
    BY <1>6, <2>2, ListedIs DEF n
  <2> QED
    BY <2>2, <2>3 DEF n, t
<1>8. \A k \in 1 .. Len(extra_roots) : ValueOf(extra_roots'[k], ids) = ValueOf(extra_roots[k], OldNames)
  BY <1>1, <1>3, <1>7, FixedValue
<1>9. RootsSeen(sp, ids, ids)'
  <2> DEFINE L == 1 .. sp + Len(extra_roots)
             was(j) == IF j > sp THEN ValueOf(extra_roots[j - sp], OldNames)
                       ELSE ValueOf(stack[j - 1], IF j - 1 < next THEN ids ELSE OldNames)
             root(j) == IF j > sp THEN ValueOf(extra_roots'[j - sp], ids)
                        ELSE ValueOf(stack[j - 1], IF j - 1 < sp THEN ids ELSE ids)
  <2>1. view.roots = [j \in L |-> was(j)]
    BY <1>5 DEF RootsSeen
  <2>2. ASSUME NEW j \in L PROVE was(j) = root(j)
    <3>1. CASE j > sp
      <4>1. j - sp \in 1 .. Len(extra_roots)
        BY <1>3, <1>6, <3>1
      <4> QED
        BY <1>8, <3>1, <4>1
    <3>2. CASE ~ (j > sp)
      <4>1. j - 1 \in 0 .. sp - 1
        BY <1>3, <1>6, <3>2
      <4>2. j - 1 < next
        BY <1>4, <4>1
      <4> QED
        BY <3>2, <4>2
    <3> QED
      BY <3>1, <3>2
  <2> HIDE DEF was, root, L
  <2>3. view.roots = [j \in L |-> root(j)]
    BY <2>1, <2>2
  <2> QED
    BY <1>1, <1>7, <2>3 DEF RootsSeen, root, L
<1>10. Moving' = Black(mem, AllObjects)
  BY <1>1, <1>2 DEF Moving
<1>11. MoveNames' = DestNames(Black(mem, AllObjects))
  <2>1. \A h : Dest(mem, h)' = Dest(mem, h)
    BY <1>1 DEF Dest, Rebased
  <2>2. \A h : h \notin Done'
    BY <1>2
  <2>3. MoveNames' = [h \in Moving' |-> IF h \in Done' THEN ids'[h] ELSE ids'[Dest(mem, h)']]
    BY DEF MoveNames
  <2>4. MoveNames' = [h \in Black(mem, AllObjects) |-> ids[Dest(mem, h)]]
    BY <1>1, <1>10, <2>1, <2>2, <2>3
  <2> QED
    BY <2>4 DEF DestNames
<1>12. Drawn(view.objects, Moving, MoveNames, mem, ids)'
  BY <1>1, <1>5, <1>10, <1>11
<1>13. ViewInv'
  BY <1>1, <1>9, <1>12 DEF ViewInv
<1> QED
  BY <1>1, <1>13 DEF Abstract!vars

(* Moving an object shows nothing.                                          *)
LEMMA MoveShows ==
  ASSUME GCInv, ViewInv, physically_relocate, Observe, prog' = prog
  PROVE  ViewInv' /\ UNCHANGED Abstract!vars
<1> DEFINE B == Black(mem, Rest)
           F == Frontier
           N == Moving
           M == Moving'
           to == [x \in N |-> IF x = next THEN F ELSE x]
<1>1. /\ phase = "move" /\ phase' = "move" /\ view' = view
      /\ UNCHANGED <<stack, sp, extra_roots, heap, old, ids>>
  BY DEF physically_relocate, program, Observe
<1>2. GCInv' /\ Relocated
  BY ObjectMoved
<1>3. /\ B' = B \ {next}
      /\ \A x \in Done \cup (B \ {next}) : mem'[x] = mem[x] /\ \A f \in FieldsAt(mem, x) : mem'[f] = mem[f]
      /\ \A x \in B \ {next} : Dest(mem, x)' = Dest(mem, x)
      /\ next \notin B => Done' = Done
      /\ next \in B => /\ Done' = Done \cup {F} /\ Dest(mem, next) = F /\ mem'[F] = mem[next]
                       /\ \A f \in FieldsAt(mem, next) : mem'[f + (F - next)] = mem[f]
  BY <1>2 DEF Relocated
<1>4. /\ Sound(mem, Rest, next, heap.current) /\ Sound(mem, Done, heap.begin, F)
      /\ F \in heap.begin .. next /\ next \in Nat /\ heap.begin \in Nat
  BY <1>1 DEF GCInv, MoveInv, TypeInv, TypeOK, IsChunk
<1>5. /\ Sound(mem', Rest', next', heap'.current) /\ Sound(mem', Done', heap'.begin, Frontier')
      /\ Frontier' \in heap'.begin .. next' /\ next' \in Nat /\ heap'.begin \in Nat
  BY <1>1, <1>2 DEF GCInv, MoveInv, TypeInv, TypeOK, IsChunk
<1>6. /\ \A x \in Done : x \in Nat /\ x < F /\ x # next
      /\ \A x \in B : x \in Nat /\ x >= next /\ x \notin Done /\ x \in Rest
      /\ F \in Nat /\ F <= next
  <2>1. F \in Nat /\ F <= next
    BY <1>4
  <2>2. \A x \in Done : x \in Nat /\ x < F
    BY <1>4, <2>1, SoundFacts
  <2>3. \A x \in Rest : x \in Nat /\ x >= next
    BY <1>4, SoundFacts
  <2>4. \A x \in B : x \in Rest
    BY DEF Black
  <2> HIDE DEF B, F
  <2>5. \A x \in Done : x # next
    BY <1>4, <2>1, <2>2
  <2>6. \A x \in B : x \notin Done
    BY <1>4, <2>1, <2>2, <2>3, <2>4
  <2> QED
    BY <2>1, <2>2, <2>3, <2>4, <2>5, <2>6
<1>7. \A x \in B' : x \notin Done'
  <2> DEFINE E == Frontier'
             D == Done'
             R == Rest'
             e == next'
  <2>1. E \in Nat /\ E <= e /\ e \in Nat
    BY <1>5
  <2>2. \A x \in D : x \in Nat /\ x < E
    BY <1>5, <2>1, SoundFacts
  <2>3. \A x \in R : x \in Nat /\ x >= e
    BY <1>5, SoundFacts
  <2>4. \A x \in B' : x \in R
    BY DEF Black
  <2> HIDE DEF E, D, R, e, B
  <2>5. \A x \in B' : x \notin D
    BY <2>1, <2>2, <2>3, <2>4
  <2> QED
    BY <2>5 DEF D
<1>8. N = Done \cup B /\ M = Done' \cup B'
  BY DEF Moving
<1>9. /\ \A x \in N : MoveNames[x] = IF x \in Done THEN ids[x] ELSE ids[Dest(mem, x)]
      /\ \A x \in M : MoveNames'[x] = IF x \in Done' THEN ids[x] ELSE ids[Dest(mem, x)']
  BY <1>1 DEF MoveNames
<1>10. RootsSeen(sp, ids, ids) /\ Drawn(view.objects, N, MoveNames, mem, ids)
  BY <1>1 DEF ViewInv
<1>11. \A x \in N : to[x] = IF x = next THEN F ELSE x
  OBVIOUS
<1> DEFINE C == B'
<1> HIDE DEF B, F, N, M, C, to
<1>12. /\ \A x \in Done : to[x] = x /\ x \in Done'
       /\ \A x \in B \ {next} : to[x] = x /\ x \in C
       /\ next \in B => to[next] = F /\ F \in Done'
  BY <1>3, <1>6, <1>8, <1>11 DEF C
<1>13. \A x \in N : to[x] \in M
  BY <1>8, <1>12 DEF C
<1>14. \A y \in M : \E x \in N : y = to[x]
  <2>1. \A y \in Done' : y \in Done \/ (next \in B /\ y = F)
    BY <1>3
  <2>2. \A y \in C : y \in B \ {next}
    BY <1>3 DEF C
  <2> QED
    BY <1>8, <1>12, <2>1, <2>2 DEF C
<1>15. \A x \in N : MoveNames'[to[x]] = MoveNames[x]
  <2>1. \A x \in Done : MoveNames'[to[x]] = MoveNames[x]
    BY <1>8, <1>9, <1>12
  <2>2. \A x \in B \ {next} : MoveNames'[to[x]] = MoveNames[x]
    <3>1. \A x \in B \ {next} : x \notin Done /\ x \notin Done'
      BY <1>6, <1>7, <1>12 DEF C
    <3> QED
      BY <1>3, <1>8, <1>9, <1>12, <3>1 DEF C
  <2>3. next \in B => MoveNames'[to[next]] = MoveNames[next]
    BY <1>3, <1>6, <1>8, <1>9, <1>12
  <2> QED
    BY <1>8, <2>1, <2>2, <2>3
<1>16. \A x \in N : ObjectAt(mem', to[x], ids) = ObjectAt(mem, x, ids)
  <2>1. ASSUME NEW x \in Done PROVE ObjectAt(mem', x, ids) = ObjectAt(mem, x, ids)
    <3>1. mem'[x] = mem[x] /\ \A f \in FieldsAt(mem, x) : mem'[f] = mem[f]
      BY <1>3
    <3> QED
      BY <1>4, <3>1, ObjectSame
  <2>2. ASSUME NEW x \in B \ {next} PROVE ObjectAt(mem', x, ids) = ObjectAt(mem, x, ids)
    <3>1. x \in Rest /\ mem'[x] = mem[x] /\ \A f \in FieldsAt(mem, x) : mem'[f] = mem[f]
      BY <1>3, <1>6
    <3> QED
      BY <1>4, <3>1, ObjectSame
  <2>3. ASSUME next \in B PROVE ObjectAt(mem', F, ids) = ObjectAt(mem, next, ids)
    <3> DEFINE d == F - next
    <3>1. next \in Rest /\ d \in Int /\ next + d = F /\ next + d \in Nat
      BY <1>4, <1>6, <2>3
    <3>2. \A f \in FieldsAt(mem, next) : mem'[f + d] = mem[f]
      BY <1>3, <2>3
    <3> HIDE DEF d
    <3>3. mem'[next + d] = mem[next]
      BY <1>3, <2>3, <3>1
    <3>4. \A f \in FieldsAt(mem, next) : ValueOf(mem'[f + d], ids) = ValueOf(mem[f], ids)
      BY <3>2
    <3>5. Sound(mem, Rest, next, heap.current)
      BY <1>4
    <3>6. ObjectAt(mem', next + d, ids) = ObjectAt(mem, next, ids)
      BY ONLY <3>1, <3>3, <3>4, <3>5, ObjectAlike
    <3> QED
      BY <3>1, <3>6
  <2> QED
    BY <1>8, <1>12, <2>1, <2>2, <2>3
<1>17. Drawn(view.objects, M, MoveNames', mem', ids)
  BY <1>10, <1>13, <1>14, <1>15, <1>16, Redrawn
<1>18. RootsSeen(sp, ids, ids)'
  BY <1>1, <1>10 DEF RootsSeen
<1>19. ViewInv'
  BY <1>1, <1>17, <1>18 DEF ViewInv, M
<1> QED
  BY <1>1, <1>19 DEF Abstract!vars

-----------------------------------------------------------------------------
(* Allocation.                                                             *)
FieldCountOf(header) == Size(header) - FirstField(header)

(* What each allocator makes of the slots.                                   *)
LEMMA MakesWhat ==
  ASSUME I.op \in Allocators, NEW n \in Nat, Legal(I, n)
  PROVE  /\ I.op \in {"CALL_Barray", "SEXP"} =>
              /\ I.a \in Nat /\ PoppedAfter(I) = I.a /\ PoppedBefore(I) = 0
              /\ TAG(Requested(I)) \in {ARRAY_TAG, SEXP_TAG}
              /\ FieldCountOf(Requested(I)) = I.a
              /\ \A j \in 1 .. I.a : FieldValues(I)[j] = stack[sp - (I.a - j + 1)]
         /\ I.op = "CLOSURE" =>
              /\ I.caps \in Seq(0 .. n - 1) /\ PoppedAfter(I) = 0 /\ PoppedBefore(I) = 0
              /\ TAG(Requested(I)) = CLOSURE_TAG
              /\ FieldCountOf(Requested(I)) = Len(I.caps)
              /\ \A j \in 1 .. Len(I.caps) : FieldValues(I)[j] = stack[I.caps[j]]
         /\ I.op \in {"STRING", "CALL_Lstring"} =>
              /\ PoppedAfter(I) = 0 /\ PoppedBefore(I) \in {0, 1}
              /\ TAG(Requested(I)) = STRING_TAG
              /\ FieldCountOf(Requested(I)) = 0
<1>1. CASE I.op \in {"CALL_Barray", "SEXP"}
  <2>1. I.a \in Nat /\ PoppedAfter(I) = I.a /\ PoppedBefore(I) = 0
        /\ FieldValues(I) = [k \in 1 .. PoppedAfter(I) |-> Top(PoppedAfter(I) - k + 1)]
    BY <1>1 DEF Legal, PoppedAfter, PoppedBefore, FieldValues, Allocators
  <2>2. PICK t \in {3, 5} : t \in {ARRAY_TAG, SEXP_TAG} /\ Requested(I) = Header(t, I.a)
    BY <1>1 DEF Requested, ARRAY_TAG, SEXP_TAG
  <2>3. TAG(Requested(I)) = t /\ LEN(Requested(I)) = I.a
    <3>1. t \in 0 .. 7
      OBVIOUS
    <3> QED
      BY <2>1, <2>2, <3>1, HeaderFacts
  <2>4. FieldCountOf(Requested(I)) = I.a
    BY <2>1, <2>3 DEF FieldCountOf, Size, FirstField, STRING_TAG, ARRAY_TAG, SEXP_TAG, DATA_HEADER_SZ
  <2>5. \A j \in 1 .. I.a : FieldValues(I)[j] = stack[sp - (I.a - j + 1)]
    BY <2>1 DEF Top
  <2> QED
    BY <1>1, <2>1, <2>2, <2>3, <2>4, <2>5
<1>2. CASE I.op = "CLOSURE"
  <2> DEFINE l == Len(I.caps)
  <2>1. I.caps \in Seq(0 .. n - 1) /\ PoppedAfter(I) = 0 /\ PoppedBefore(I) = 0 /\ l \in Nat
        /\ FieldValues(I) = [k \in 1 .. l |-> stack[I.caps[k]]]
        /\ Requested(I) = Header(7, l + 1)
    BY <1>2 DEF Legal, PoppedAfter, PoppedBefore, FieldValues, Requested, CLOSURE_TAG
  <2> HIDE DEF l
  <2>2. TAG(Requested(I)) = 7 /\ LEN(Requested(I)) = l + 1
    <3>1. 7 \in 0 .. 7 /\ l + 1 \in Nat
      BY <2>1
    <3>2. TAG(Header(7, l + 1)) = 7 /\ LEN(Header(7, l + 1)) = l + 1
      BY <3>1, HeaderFacts
    <3>3. Requested(I) = Header(7, l + 1)
      BY <2>1
    <3> QED
      BY <3>2, <3>3
  <2>3. FieldCountOf(Requested(I)) = l
    BY <2>1, <2>2 DEF FieldCountOf, Size, FirstField, STRING_TAG, ARRAY_TAG, SEXP_TAG, DATA_HEADER_SZ
  <2>4. \A j \in 1 .. l : FieldValues(I)[j] = stack[I.caps[j]]
    BY <2>1
  <2> QED
    BY <1>2, <2>1, <2>2, <2>3, <2>4 DEF l, CLOSURE_TAG
<1>3. CASE I.op \in {"STRING", "CALL_Lstring"}
  <2>1. /\ I.a \in Nat /\ Requested(I) = Header(1, I.a)
        /\ PoppedAfter(I) = 0 /\ PoppedBefore(I) \in {0, 1}
    BY <1>3 DEF Legal, Requested, STRING_TAG, Allocators, PoppedAfter, PoppedBefore
  <2>2. TAG(Requested(I)) = STRING_TAG
    <3>1. 1 \in 0 .. 7
      OBVIOUS
    <3> QED
      BY <2>1, <3>1, HeaderFacts DEF STRING_TAG
  <2>3. FirstField(Requested(I)) = Size(Requested(I))
    BY <2>2 DEF FirstField, STRING_TAG, ARRAY_TAG
  <2>4. Size(Requested(I)) \in Nat
    <3>1. Requested(I) \in Nat
      BY AllocatorFacts
    <3> QED
      BY <3>1, SizeFacts
  <2>5. FieldCountOf(Requested(I)) = 0
    BY <2>3, <2>4 DEF FieldCountOf
  <2> QED
    BY <1>3, <2>1, <2>2, <2>5
<1> QED
  BY <1>1, <1>2, <1>3

(* The object that has been added, as it is drawn.                           *)
LEMMA NewDrawn ==
  ASSUME I.op \in Allocators, NEW n \in Nat, Legal(I, n),
         NEW O, NEW h, NEW m, Added(m, O, h, Requested(I), FieldValues(I)), NEW names
  PROVE  LET o == ObjectAt(m, h, names)
             l == FieldCountOf(Requested(I))
         IN  /\ l \in Nat /\ o.tag = TAG(Requested(I)) /\ Listed(o.elems, l)
             /\ \A j \in 1 .. l : o.elems[j] = ValueOf(FieldValues(I)[j], names)
             /\ \A f \in FieldsAt(m, h) : \E j \in 1 .. l : m[f] = FieldValues(I)[j]
<1> DEFINE l == FieldCountOf(Requested(I))
           i == FirstField(Requested(I))
           s == Size(Requested(I))
           fs == Fields(m, h)
           values == FieldValues(I)
<1>1. l \in Nat
  <2>1. I.op = "CLOSURE" => Len(I.caps) \in Nat
    BY MakesWhat
  <2> QED
    BY <2>1, MakesWhat DEF Allocators
<1>2. /\ h \in Nat /\ m[h] = Requested(I) /\ i \in Nat /\ s \in Nat /\ l = s - i
      /\ \A k \in 1 .. l : m[h + i + (k - 1)] = values[k]
  <2>1. Requested(I) \in Nat
    BY AllocatorFacts
  <2> QED
    BY <2>1, SizeFacts DEF Added, FieldCountOf
<1>3. fs = [k \in 1 .. l |-> h + i + (k - 1)]
  BY <1>2 DEF Fields, FieldCountOf
<1>4. FieldsAt(m, h) = h + i .. h + s - 1
  BY <1>2 DEF FieldsAt
<1> HIDE DEF l, i, s, values
<1>5. Len(fs) = l /\ \A k \in 1 .. l : fs[k] = h + i + (k - 1)
  <2>1. \A k \in 1 .. l : h + i + (k - 1) \in Int
    BY <1>2
  <2> HIDE DEF fs
  <2>2. fs \in Seq(Int)
    BY <1>1, <1>3, <2>1
  <2>3. DOMAIN fs = 1 .. l
    BY <1>3
  <2> QED
    BY <1>1, <1>3, <2>2, <2>3
<1> HIDE DEF fs
<1>6. ObjectAt(m, h, names) = [tag |-> TAG(m[h]), elems |-> [k \in 1 .. Len(fs) |-> ValueOf(m[fs[k]], names)]]
  BY DEF ObjectAt, fs
<1> DEFINE es == ObjectAt(m, h, names).elems
<1>7. es = [k \in 1 .. l |-> ValueOf(m[fs[k]], names)]
  BY <1>5, <1>6
<1> HIDE DEF es
<1>8. \A j \in 1 .. l : es[j] = ValueOf(values[j], names)
  BY <1>2, <1>5, <1>7
<1>9. Listed(es, l)
  BY <1>7 DEF Listed
<1>10. ObjectAt(m, h, names).tag = TAG(Requested(I))
  BY <1>2, <1>6
<1>11. ASSUME NEW f \in FieldsAt(m, h) PROVE \E j \in 1 .. l : m[f] = values[j]
  <2> DEFINE j == f - h - i + 1
  <2>1. j \in 1 .. l /\ h + i + (j - 1) = f
    BY <1>2, <1>4
  <2> HIDE DEF j
  <2> QED
    BY <1>2, <2>1
<1> QED
  BY <1>1, <1>8, <1>9, <1>10, <1>11 DEF es, l, values

(* The new object is made of the values that were popped or captured.       *)
LEMMA MadeShows ==
  ASSUME I.op \in Allocators, NEW n \in Nat, Legal(I, n), PoppedBefore(I) = 0 => sp = n,
         Listed(view.roots, n), \A j \in 1 .. sp : view.roots[j] = ValueOf(stack[j - 1], ids),
         NEW o, o.tag = TAG(Requested(I)), Listed(o.elems, FieldCountOf(Requested(I))),
         \A j \in 1 .. FieldCountOf(Requested(I)) : o.elems[j] = ValueOf(FieldValues(I)[j], ids)
  PROVE  Abstract!MadeFrom(o, PoppedBefore(I) + PoppedAfter(I))
<1> DEFINE l == FieldCountOf(Requested(I))
           values == FieldValues(I)
           es == o.elems
           s == view.roots
<1>1. PoppedAfter(I) \in Nat /\ RESERVED + PoppedBefore(I) + PoppedAfter(I) <= n /\ RESERVED \in Nat
  BY AllocatorFacts, SizesAssumption
<1>2. Len(s) = n /\ DOMAIN s = 1 .. n
  BY ListedIs
<1>3. l \in Nat => DOMAIN es = 1 .. l /\ Len(es) = l
  BY ListedIs
<1>4. Listed(es, l) /\ (\A j \in 1 .. l : es[j] = ValueOf(values[j], ids))
      /\ \A j \in 1 .. sp : s[j] = ValueOf(stack[j - 1], ids)
  OBVIOUS
<1> HIDE DEF es, s
<1>5. CASE I.op \in {"CALL_Barray", "SEXP"}
  <2> DEFINE a == I.a
  <2>1. /\ a \in Nat /\ PoppedAfter(I) = a /\ PoppedBefore(I) = 0 /\ l = a
        /\ o.tag \in {ARRAY_TAG, SEXP_TAG}
        /\ \A j \in 1 .. a : values[j] = stack[sp - (a - j + 1)]
    BY <1>5, MakesWhat
  <2> HIDE DEF l, values, a
  <2>2. sp = n /\ a \in 0 .. n
    <3>1. RESERVED + 0 + a <= n
      BY <1>1, <2>1
    <3>2. sp = n
      BY <2>1
    <3> QED
      BY <1>1, <2>1, <3>1, <3>2
  <2>3. ASSUME NEW j \in 1 .. a PROVE es[j] = s[n - a + j]
    <3> DEFINE r == n - a + j
    <3>1. r \in 1 .. sp /\ r - 1 = sp - (a - j + 1)
      BY <2>1, <2>2
    <3> HIDE DEF r
    <3>2. s[r] = ValueOf(stack[r - 1], ids)
      BY <1>4, <3>1
    <3>3. es[j] = ValueOf(stack[r - 1], ids)
      BY <1>4, <2>1, <3>1
    <3> QED
      BY <3>2, <3>3 DEF r
  <2>4. Listed(es, a)
    BY <1>4, <2>1
  <2>5. Listed(s, n)
    BY DEF s
  <2>6. es = SubSeq(s, Len(s) - a + 1, Len(s))
    BY <2>2, <2>3, <2>4, <2>5, TopIs
  <2>7. PoppedBefore(I) + PoppedAfter(I) = a
    BY <2>1
  <2>8. Abstract!MadeFrom(o, a)
    <3>1. o.elems = SubSeq(view.roots, Len(view.roots) - a + 1, Len(view.roots))
      BY <2>6 DEF es, s
    <3>2. o.tag \in {ARRAY_TAG, SEXP_TAG}
      BY <2>1
    <3>3. o.tag # STRING_TAG
      BY <3>2 DEF ARRAY_TAG, SEXP_TAG, STRING_TAG
    <3> QED
      BY ONLY <3>1, <3>2, <3>3 DEF Abstract!MadeFrom
  <2> QED
    BY <2>7, <2>8
<1>6. CASE I.op = "CLOSURE"
  <2>1. /\ I.caps \in Seq(0 .. n - 1) /\ PoppedAfter(I) = 0 /\ PoppedBefore(I) = 0
        /\ o.tag = CLOSURE_TAG /\ l = Len(I.caps)
        /\ \A j \in 1 .. Len(I.caps) : values[j] = stack[I.caps[j]]
    BY <1>6, MakesWhat
  <2> DEFINE k == Len(I.caps)
  <2>2. k \in Nat /\ \A j \in 1 .. k : I.caps[j] \in 0 .. n - 1
    BY <2>1
  <2> HIDE DEF l, values, k
  <2>3. sp = n
    BY <2>1
  <2>4. l = k /\ \A j \in 1 .. k : values[j] = stack[I.caps[j]]
    BY <2>1 DEF k
  <2>5. ASSUME NEW j \in DOMAIN es PROVE \E r \in DOMAIN s : es[j] = s[r]
    <3> DEFINE r == I.caps[j] + 1
    <3>1. j \in 1 .. k
      BY <1>3, <2>2, <2>4, <2>5
    <3>2. r \in 1 .. sp /\ r - 1 = I.caps[j]
      BY <2>2, <2>3, <3>1
    <3>3. es[j] = ValueOf(stack[I.caps[j]], ids)
      BY <1>4, <2>4, <3>1
    <3> HIDE DEF r
    <3>4. es[j] = s[r]
      BY <1>4, <3>2, <3>3
    <3> QED
      BY <1>2, <2>3, <3>2, <3>4
  <2>6. \A j \in DOMAIN o.elems : \E r \in DOMAIN view.roots : o.elems[j] = view.roots[r]
    BY <2>5 DEF es, s
  <2>7. PoppedBefore(I) + PoppedAfter(I) = 0
    BY <2>1
  <2>8. o.tag \notin {ARRAY_TAG, SEXP_TAG} /\ o.tag # STRING_TAG
    BY <2>1 DEF ARRAY_TAG, SEXP_TAG, STRING_TAG, CLOSURE_TAG
  <2> QED
    BY <2>6, <2>7, <2>8 DEF Abstract!MadeFrom
<1>7. CASE I.op \in {"STRING", "CALL_Lstring"}
  <2>1. /\ PoppedAfter(I) = 0 /\ PoppedBefore(I) \in {0, 1} /\ o.tag = STRING_TAG /\ l = 0
    BY <1>7, MakesWhat
  <2>2. PoppedBefore(I) + PoppedAfter(I) \in {0, 1}
    BY <2>1
  <2>3. o.elems = <<>>
    <3>1. Listed(es, 0) /\ 0 \in Nat
      BY <1>4, <2>1
    <3>2. es \in Seq({es[j] : j \in 1 .. 0}) /\ Len(es) = 0
      BY <3>1, ListedIs
    <3> DEFINE U == {es[j] : j \in 1 .. 0}
    <3> HIDE DEF U
    <3>3. es \in Seq(U) /\ Len(es) = 0
      BY <3>2 DEF U
    <3>4. es = <<>>
      BY <3>3
    <3> QED
      BY <3>4 DEF es
  <2>4. o.tag \notin {ARRAY_TAG, SEXP_TAG}
    BY <2>1 DEF ARRAY_TAG, SEXP_TAG, STRING_TAG
  <2> QED
    BY <2>1, <2>2, <2>3, <2>4 DEF Abstract!MadeFrom
<1> QED
  BY <1>5, <1>6, <1>7 DEF Allocators

(* An object is added to a drawing under a name that is not in it.           *)
LEMMA DrawnMore ==
  ASSUME NEW m, NEW N, NEW names, NEW objs, Drawn(objs, N, names, m, names),
         NEW h, NEW i, \A x \in N : names[x] # i,
         NEW n, NEW nameds, nameds[h] = i, \A x \in N : nameds[x] = names[x],
         \A x \in N : ObjectAt(n, x, nameds) = ObjectAt(m, x, names),
         NEW new, DOMAIN new = DOMAIN objs \cup {i}, new = [j \in DOMAIN new |-> new[j]],
         new[i] = ObjectAt(n, h, nameds), \A j \in DOMAIN objs : j # i => new[j] = objs[j]
  PROVE  /\ i \notin DOMAIN objs
         /\ Drawn(new, N \cup {h}, nameds, n, nameds)
<1>1. /\ \A g, x \in N : names[g] = names[x] => g = x
      /\ DOMAIN objs = {names[x] : x \in N}
      /\ \A x \in N : objs[names[x]] = ObjectAt(m, x, names)
  BY DEF Drawn
<1>2. i \notin DOMAIN objs
  BY <1>1
<1>3. DOMAIN new = DOMAIN objs \cup {i}
  OBVIOUS
<1>4. new[i] = ObjectAt(n, h, nameds) /\ \A j \in DOMAIN objs : new[j] = objs[j]
  BY <1>2
<1>5. {nameds[x] : x \in N \cup {h}} = DOMAIN new
  <2>1. \A x \in N \cup {h} : nameds[x] \in DOMAIN new
    BY <1>1, <1>3
  <2>2. \A j \in DOMAIN new : \E x \in N \cup {h} : j = nameds[x]
    BY <1>1, <1>3
  <2> QED
    BY <2>1, <2>2
<1>6. new = [j \in DOMAIN new |-> new[j]]
  OBVIOUS
<1> HIDE DEF ObjectAt
<1>7. \A g, x \in N \cup {h} : nameds[g] = nameds[x] => g = x
  BY <1>1
<1>8. ASSUME NEW x \in N \cup {h} PROVE new[nameds[x]] = ObjectAt(n, x, nameds)
  <2>1. CASE x \in N
    <3>1. nameds[x] = names[x] /\ names[x] \in DOMAIN objs
      BY <1>1, <2>1
    <3> QED
      BY <1>1, <1>4, <2>1, <3>1
  <2>2. CASE x = h
    BY <1>4, <2>2
  <2> QED
    BY <2>1, <2>2
<1>9. new = [j \in {nameds[x] : x \in N \cup {h}} |-> new[j]]
  BY <1>5, <1>6
<1> QED
  BY <1>2, <1>7, <1>8, <1>9 DEF Drawn

(* The object made is one of those the program sees.                         *)
LEMMA MadeIsLive ==
  ASSUME NEW vs, NEW k \in DOMAIN vs, NEW i, vs[k] = Abstract!Ref(i), NEW objs, i \in DOMAIN objs
  PROVE  i \in Abstract!Live(vs, objs)
<1>1. vs[k].kind = "ref" /\ vs[k].val = i
  BY DEF Abstract!Ref
<1>2. i \in Abstract!RefsIn(vs)
  BY <1>1 DEF Abstract!RefsIn
<1> QED
  BY <1>2 DEF Abstract!Live

(* The fields of a new object are copies of slots.                           *)
LEMMA ValuesAreSlots ==
  ASSUME I.op \in Allocators, NEW n \in Nat, Legal(I, n), PoppedBefore(I) = 0 => sp = n
  PROVE  \A j \in 1 .. FieldCountOf(Requested(I)) : \E r \in 0 .. sp - 1 : FieldValues(I)[j] = stack[r]
<1> DEFINE l == FieldCountOf(Requested(I))
           values == FieldValues(I)
<1>1. PoppedAfter(I) \in Nat /\ RESERVED + PoppedBefore(I) + PoppedAfter(I) <= n /\ RESERVED \in Nat
  BY AllocatorFacts, SizesAssumption
<1>2. CASE I.op \in {"CALL_Barray", "SEXP"}
  <2> DEFINE a == I.a
  <2>1. /\ a \in Nat /\ PoppedAfter(I) = a /\ PoppedBefore(I) = 0 /\ l = a
        /\ \A j \in 1 .. a : values[j] = stack[sp - (a - j + 1)]
    BY <1>2, MakesWhat
  <2> HIDE DEF l, values, a
  <2>2. sp = n /\ a <= n
    <3>1. RESERVED + 0 + a <= n
      BY <1>1, <2>1
    <3>2. sp = n
      BY <2>1
    <3> QED
      BY <1>1, <2>1, <3>1, <3>2
  <2>3. ASSUME NEW j \in 1 .. l PROVE sp - (a - j + 1) \in 0 .. sp - 1 /\ j \in 1 .. a
    BY <2>1, <2>2
  <2> QED
    BY <2>1, <2>3 DEF l, values
<1>3. CASE I.op = "CLOSURE"
  <2>1. /\ I.caps \in Seq(0 .. n - 1) /\ PoppedBefore(I) = 0 /\ l = Len(I.caps)
        /\ \A j \in 1 .. Len(I.caps) : values[j] = stack[I.caps[j]]
    BY <1>3, MakesWhat
  <2> HIDE DEF l, values
  <2>2. \A j \in 1 .. l : I.caps[j] \in 0 .. n - 1
    BY <2>1
  <2>3. sp = n
    BY <2>1
  <2> QED
    BY <2>1, <2>2, <2>3 DEF l, values
<1>4. CASE I.op \in {"STRING", "CALL_Lstring"}
  <2>1. l = 0
    BY <1>4, MakesWhat
  <2> QED
    BY <2>1
<1> QED
  BY <1>2, <1>3, <1>4 DEF Allocators

(* An object allocated among those drawn shows a Make.                      *)
LEMMA AllocationShows ==
  ASSUME GCInv', phase' = "mutator", Observe, I.op \in Allocators,
         NEW O, NEW b, NEW c, Sound(mem, O, b, c), Holding(mem, O, O), DOMAIN ids = O, Rooted(O),
         stack[0] \in Word, extra_roots \in Seq(Word), PoppedBefore(I) = 0 => Len(extra_roots) = 0,
         RootsSeen(sp, ids, ids),
         NEW N \in SUBSET O, Drawn(view.objects, N, ids, mem, ids),
         \A x \in N : \A f \in FieldsAt(mem, x) : Leads(mem[f], N),
         \A j \in 0 .. sp - 1 : Leads(stack[j], N),
         NEW h, NEW i \in IDS, \A x \in N : ids[x] # i, Allocated(O, i, h)
  PROVE  ViewInv' /\ Abstract!Make
<1> DEFINE e == Len(extra_roots)
           n == sp + e
           pb == PoppedBefore(I)
           pa == PoppedAfter(I)
           k == pb + pa
           values == FieldValues(I)
           l == FieldCountOf(Requested(I))
           s == view.roots
           t == view'.roots
           o == ObjectAt(mem', h, ids')
           M == N \cup {h}
           new == [j \in DOMAIN view.objects \cup {i} |-> IF j = i THEN o ELSE view.objects[j]]
<1>1. /\ AllObjects' = O \cup {h}
      /\ Added(mem', O, h, Requested(I), values)
      /\ ids'[h] = i /\ \A x \in O : ids'[x] = ids[x]
      /\ sp \in Nat /\ Legal(I, n)
      /\ sp' \in Nat /\ sp' >= 1 /\ sp' - 1 <= sp /\ sp' - 1 = n - k
      /\ stack'[sp' - 1] = Content(h) /\ \A j \in 0 .. sp' - 2 : stack'[j] = stack[j]
  BY ONLY Allocated(O, i, h) DEF Allocated
<1> DEFINE p == sp'
<1>1a. sp \in Nat /\ p \in Nat /\ p >= 1 /\ p - 1 <= sp /\ p - 1 = n - k
  BY ONLY <1>1
<1>2. /\ h \in Nat /\ h \notin O
      /\ \A x \in O : mem'[x] = mem[x] /\ \A f \in FieldsAt(mem, x) : mem'[f] = mem[f]
  BY <1>1 DEF Added
<1>3. O \in SUBSET Nat /\ DOMAIN ids' = O \cup {h}
  <2>1. HeapInv'
    BY DEF GCInv
  <2>2. DOMAIN ids' = AllObjects'
    BY <2>1 DEF HeapInv
  <2> QED
    BY <1>1, <2>2, SoundFacts
<1>4. e \in Nat /\ n \in Nat /\ n >= sp
  <2>1. e \in Nat
    OBVIOUS
  <2> HIDE DEF e
  <2> QED
    BY <1>1, <2>1
<1>5. /\ pb \in {0, 1} /\ pa \in Nat /\ k \in 0 .. n /\ (pb = 0 => sp = n)
  <2>1. pb \in {0, 1} /\ pa \in Nat /\ RESERVED + pb + pa <= n /\ RESERVED \in Nat
    BY <1>1, <1>4, AllocatorFacts, SizesAssumption
  <2>2. pb = 0 => e = 0
    OBVIOUS
  <2> HIDE DEF e, pb, pa
  <2>3. pb + pa \in 0 .. n
    BY <1>4, <2>1
  <2>4. pb = 0 => sp = n
    BY <1>1, <2>2
  <2> QED
    BY <2>1, <2>3, <2>4
(* The slots as they were seen.                                             *)
<1>6. Listed(s, n) /\ \A j \in 1 .. sp : s[j] = ValueOf(stack[j - 1], ids)
  <2>1. s = [j \in 1 .. n |-> IF j > sp THEN ValueOf(extra_roots[j - sp], ids)
                              ELSE ValueOf(stack[j - 1], IF j - 1 < sp THEN ids ELSE ids)]
    BY DEF RootsSeen
  <2>2. \A j \in 1 .. sp : j \in 1 .. n /\ ~ (j > sp)
    BY <1>1, <1>4
  <2> HIDE DEF s, n
  <2>3. \A j \in 1 .. sp : s[j] = ValueOf(stack[j - 1], ids)
    BY <2>1, <2>2
  <2>4. Listed(s, n)
    BY <2>1 DEF Listed
  <2> QED
    BY <2>3, <2>4
(* The values of the object's fields.                                       *)
<1>7. \A j \in 0 .. sp - 1 : Is(stack[j], O)
  <2>1. Is(stack[0], O)
    BY DEF Rooted, Is
  <2>2. \A j \in 0 .. sp - 1 : j = 0 \/ j \in 1 .. sp - 1
    BY <1>1
  <2> QED
    BY <2>1, <2>2 DEF Rooted
<1>8. \A j \in 1 .. l : Is(values[j], O) /\ Leads(values[j], N)
  <2>1. \A j \in 1 .. l : \E r \in 0 .. sp - 1 : values[j] = stack[r]
    BY <1>1, <1>4, <1>5, ValuesAreSlots
  <2> QED
    BY <1>7, <2>1
<1> HIDE DEF e, n, pb, pa, k, p
<1>9. /\ l \in Nat /\ o.tag = TAG(Requested(I)) /\ Listed(o.elems, l)
      /\ \A j \in 1 .. l : o.elems[j] = ValueOf(values[j], ids')
      /\ \A f \in FieldsAt(mem', h) : \E j \in 1 .. l : mem'[f] = values[j]
  BY <1>1, <1>4, NewDrawn
<1> HIDE DEF l, values
<1>10. ASSUME NEW w, Is(w, O) PROVE ValueOf(w, ids') = ValueOf(w, ids)
  <2>1. O \subseteq DOMAIN ids /\ O \subseteq DOMAIN ids'
    BY <1>3
  <2> QED
    BY <1>1, <1>3, <1>10, <2>1, NamesAgree
(* The objects drawn.                                                       *)
<1>11. ASSUME NEW x \in N
       PROVE  ObjectAt(mem', x, ids') = ObjectAt(mem, x, ids) /\ FieldsAt(mem', x) = FieldsAt(mem, x)
  <2>1. x \in O /\ mem'[x] = mem[x] /\ \A f \in FieldsAt(mem, x) : mem'[f] = mem[f]
    BY <1>2
  <2>2. FieldsAt(mem', x) = FieldsAt(mem, x)
    BY <2>1, ObjectSame
  <2>3. x \in Nat /\ x + 0 = x /\ \A f \in FieldsAt(mem, x) : f + 0 = f
    <3>1. FieldsAt(mem, x) \subseteq x + 2 .. Behind(mem, x) - 1 /\ x \in Nat /\ Behind(mem, x) \in Nat
      BY <2>1, SoundFacts
    <3>2. \A f \in FieldsAt(mem, x) : f \in Int
      BY <3>1
    <3> QED
      BY <3>1, <3>2
  <2>4. \A f \in FieldsAt(mem, x) : ValueOf(mem'[f + 0], ids') = ValueOf(mem[f], ids)
    <3>1. \A f \in FieldsAt(mem, x) : Is(mem[f], O)
      BY <2>1 DEF Holding
    <3> QED
      BY <1>10, <2>1, <2>3, <3>1
  <2>5. x + 0 \in Nat /\ 0 \in Int /\ mem'[x + 0] = mem[x]
    BY <2>1, <2>3
  <2>6. ObjectAt(mem', x + 0, ids') = ObjectAt(mem, x, ids)
    BY ONLY <2>1, <2>4, <2>5, ObjectAlike, Sound(mem, O, b, c)
  <2> QED
    BY <2>2, <2>3, <2>6
<1>12. \A x \in N : ids'[x] = ids[x]
  BY <1>1
<1> HIDE DEF o
<1>13. o = ObjectAt(mem', h, ids')
  BY DEF o
<1>14. /\ new = [j \in DOMAIN view.objects \cup {i} |-> IF j = i THEN o ELSE view.objects[j]]
       /\ DOMAIN new = DOMAIN view.objects \cup {i} /\ new[i] = o
       /\ \A j \in DOMAIN view.objects : j # i => new[j] = view.objects[j]
  OBVIOUS
<1>14a. new = [j \in DOMAIN new |-> new[j]]
  OBVIOUS
<1> HIDE DEF new, M
<1>15. /\ i \notin DOMAIN view.objects /\ i \in DOMAIN new /\ new[i] = o
       /\ Drawn(new, M, ids', mem', ids')
  <2>1. \A x \in N : ObjectAt(mem', x, ids') = ObjectAt(mem, x, ids)
    BY <1>11
  <2>2. ids'[h] = i
    BY <1>1
  <2>3. new[i] = ObjectAt(mem', h, ids')
    BY <1>13, <1>14
  <2>4. /\ DOMAIN new = DOMAIN view.objects \cup {i}
        /\ \A j \in DOMAIN view.objects : j # i => new[j] = view.objects[j]
    BY <1>14
  <2>5. Drawn(view.objects, N, ids, mem, ids) /\ \A x \in N : ids[x] # i
    OBVIOUS
  <2>6. i \notin DOMAIN view.objects /\ Drawn(new, N \cup {h}, ids', mem', ids')
    BY ONLY <1>12, <1>14a, <2>1, <2>2, <2>3, <2>4, <2>5, DrawnMore
  <2> QED
    BY <1>14, <2>6 DEF M
<1>16. N \subseteq M /\ h \in M /\ M \in SUBSET AllObjects'
  BY <1>1 DEF M
<1>17. ASSUME NEW x \in M, NEW f \in FieldsAt(mem', x) PROVE Leads(mem'[f], M)
  <2>1. CASE x \in N
    <3>1. f \in FieldsAt(mem, x) /\ mem'[f] = mem[f]
      BY <1>2, <1>11, <1>17, <2>1
    <3>2. Leads(mem[f], N)
      BY <2>1, <3>1
    <3> QED
      BY <1>16, <3>1, <3>2, LeadsMore
  <2>2. CASE x = h
    <3>1. Leads(mem'[f], N)
      BY <1>8, <1>9, <1>17, <2>2
    <3> QED
      BY <1>16, <3>1, LeadsMore
  <2> QED
    BY <2>1, <2>2 DEF M
<1>18. ASSUME NEW j \in 0 .. sp' - 1 PROVE Leads(stack'[j], M)
  <2>1. CASE j = sp' - 1
    <3>1. HeaderOf(stack'[j]) = h
      BY <1>1, <1>2, <2>1, ContentFacts
    <3> QED
      BY <1>16, <3>1 DEF Leads
  <2>2. CASE j # sp' - 1
    <3>1. j \in 0 .. sp' - 2 /\ j \in 0 .. sp - 1
      BY <1>1, <1>18, <2>2
    <3>2. stack'[j] = stack[j] /\ Leads(stack[j], N)
      BY <1>1, <3>1
    <3> QED
      BY <1>16, <3>2, LeadsMore
  <2> QED
    BY <2>1, <2>2
<1>19. /\ t = [j \in 1 .. sp' |-> ValueOf(stack'[j - 1], ids')]
       /\ view'.objects = [j \in Abstract!Live(t, new) |-> new[j]]
       /\ ViewInv'
  BY <1>15, <1>16, <1>17, <1>18, Observed
(* What the program sees.                                                   *)
<1>20. Listed(t, sp') /\ \A j \in 1 .. sp' : t[j] = ValueOf(stack'[j - 1], ids')
  BY <1>19 DEF Listed
<1> HIDE DEF s, t
<1>20a. n \in Nat /\ k \in 0 .. n
  BY <1>4, <1>5
<1>21. n - k + 1 = sp' /\ n - k = sp' - 1 /\ n - k <= sp
  <2>1. n - k + 1 = p /\ n - k = p - 1 /\ n - k <= sp
    BY ONLY <1>1a, <1>20a
  <2> QED
    BY <2>1 DEF p
<1>22. t[sp'] = Abstract!Ref(i)
  <2>1. sp' \in 1 .. sp'
    BY <1>1
  <2>2. t[sp'] = ValueOf(Content(h), ids')
    BY <1>1, <1>20, <2>1
  <2>3. ~ UNBOXED(Content(h)) /\ HeaderOf(Content(h)) = h /\ h \in DOMAIN ids' /\ ids'[h] = i
    BY <1>1, <1>2, <1>3, ContentFacts
  <2> QED
    BY <2>2, <2>3 DEF ValueOf, IsRef, Abstract!Ref
<1>23. ASSUME NEW j \in 1 .. n - k PROVE t[j] = s[j]
  <2>1. j \in 1 .. sp' /\ j \in 1 .. sp /\ j - 1 \in 0 .. sp' - 2 /\ j - 1 \in 0 .. sp - 1
    <3>1. j \in 1 .. p /\ j \in 1 .. sp /\ j - 1 \in 0 .. p - 2 /\ j - 1 \in 0 .. sp - 1
      BY ONLY <1>1a, <1>20a, j \in 1 .. n - k
    <3> QED
      BY <3>1 DEF p
  <2>2. stack'[j - 1] = stack[j - 1] /\ Is(stack[j - 1], O)
    BY <1>1, <1>7, <2>1
  <2> QED
    BY <1>6, <1>10, <1>20, <2>1, <2>2
<1>24. t = Append(SubSeq(s, 1, Len(s) - k), Abstract!Ref(i))
  <2>1. Listed(t, n - k + 1) /\ t[n - k + 1] = Abstract!Ref(i)
    BY <1>20, <1>21, <1>22
  <2>2. Listed(s, n) /\ \A j \in 1 .. n - k : t[j] = s[j]
    BY <1>6, <1>23
  <2> DEFINE v == Abstract!Ref(i)
  <2> HIDE DEF v
  <2>3. Listed(t, n - k + 1) /\ t[n - k + 1] = v
    BY <2>1 DEF v
  <2>4. t = Append(SubSeq(s, 1, Len(s) - k), v)
    BY ONLY <1>20a, <2>2, <2>3, PutIs
  <2> QED
    BY <2>4 DEF v
<1>25. i \in Abstract!Live(t, new)
  <2>1. sp' \in DOMAIN t
    <3>1. DOMAIN t = 1 .. sp'
      BY <1>1, <1>20, ListedIs
    <3> QED
      BY <1>1, <3>1
  <2> QED
    BY <1>15, <1>22, <2>1, MadeIsLive
<1>26. i \in DOMAIN view'.objects /\ view'.objects[i] = o
  BY <1>15, <1>19, <1>25
<1>27. Abstract!MadeFrom(o, k)
  <2>1. \A j \in 1 .. l : o.elems[j] = ValueOf(values[j], ids)
    BY <1>8, <1>9, <1>10
  <2>2. PoppedBefore(I) = 0 => sp = n
    BY <1>5 DEF pb
  <2>3. Legal(I, n) /\ n \in Nat /\ I.op \in Allocators /\ o.tag = TAG(Requested(I))
    BY <1>1, <1>4, <1>9
  <2>4. Listed(view.roots, n) /\ \A j \in 1 .. sp : view.roots[j] = ValueOf(stack[j - 1], ids)
    BY <1>6 DEF s
  <2>5. /\ Listed(o.elems, FieldCountOf(Requested(I)))
        /\ \A j \in 1 .. FieldCountOf(Requested(I)) : o.elems[j] = ValueOf(FieldValues(I)[j], ids)
    BY <1>9, <2>1 DEF l, values
  <2>6. Abstract!MadeFrom(o, PoppedBefore(I) + PoppedAfter(I))
    BY ONLY <2>2, <2>3, <2>4, <2>5, MadeShows
  <2> QED
    BY <2>6 DEF k, pb, pa
<1>28. k \in 0 .. Len(s)
  <2>1. Len(s) = n
    BY <1>4, <1>6, ListedIs
  <2> QED
    BY ONLY <1>20a, <2>1
<1>29. new = [j \in DOMAIN view.objects \cup {i} |-> IF j = i THEN view'.objects[i] ELSE view.objects[j]]
  BY <1>14, <1>26
<1>30. Abstract!Commit(t, [j \in DOMAIN view.objects \cup {i} |->
                            IF j = i THEN view'.objects[i] ELSE view.objects[j]])
  <2>1. Abstract!Commit(t, new)
    BY <1>19 DEF Abstract!Commit, t
  <2> QED
    BY <1>29, <2>1
<1>31. Abstract!Make
  <2>1. /\ i \in IDS \ DOMAIN view.objects /\ k \in 0 .. Len(view.roots)
        /\ view'.roots = Append(Abstract!Under(k), Abstract!Ref(i))
        /\ i \in DOMAIN view'.objects
        /\ Abstract!MadeFrom(view'.objects[i], k)
        /\ Abstract!Commit(view'.roots, [j \in DOMAIN view.objects \cup {i} |->
                            IF j = i THEN view'.objects[i] ELSE view.objects[j]])
    BY <1>15, <1>24, <1>26, <1>27, <1>28, <1>30 DEF s, t, Abstract!Under
  <2> QED
    BY <2>1 DEF Abstract!Make
<1> QED
  BY <1>19, <1>31

(* A reference to an object of O leads into O.                              *)
LEMMA IsLeads ==
  ASSUME NEW w, NEW O \in SUBSET Nat, Is(w, O)
  PROVE  Leads(w, O)
<1>1. CASE UNBOXED(w)
  BY <1>1 DEF Leads
<1>2. CASE \E h \in O : w = Content(h)
  BY <1>2, ContentFacts DEF Leads
<1> QED
  BY <1>1, <1>2 DEF Is

(* Allocation with room shows a Make.                                       *)
LEMMA AllocShows ==
  ASSUME Addressable, WellBehaved, Ample, Placed, GCInv, ViewInv, GCInv', Alloc, Observe, prog' = prog
  PROVE  ViewInv' /\ Abstract!Make
<1> DEFINE O == AllObjects
           N == Reach
           T == NamesOf(Held(ToSet(InUseSlots), mem, ids))
           i == FreshId(T)
<1>1. /\ phase = "mutator" /\ phase' = "mutator" /\ I.op \in Allocators
  BY DEF Alloc, At
<1>2. /\ Sound(mem, O, heap.begin, heap.current) /\ Holding(mem, O, O) /\ DOMAIN ids = O
      /\ extra_roots = <<>> /\ sp \in Nat /\ RESERVED >= 1 /\ RESERVED \in Nat
      /\ stack \in [Slots -> Word]
      /\ \A j \in 0 .. sp - 1 : j \in Slots /\ Is(stack[j], O)
      /\ mem \in [heap.begin .. heap.begin + heap.size - 1 -> Word]
  BY <1>1, MutatorFacts
<1>3. Rooted(O) /\ sp >= 1
  <2>1. sp \in RESERVED .. STACK_MAX_SIZE
    BY <1>1 DEF GCInv, ProgramInv, Ends
  <2>2. STACK_MAX_SIZE \in Nat
    BY SizesAssumption
  <2>3. sp >= 1
    BY ONLY <1>2, <2>1, <2>2
  <2> QED
    BY <1>1, <2>3 DEF GCInv, HeapInv
<1>4. stack[0] \in Word
  BY <1>2, <1>3
<1>5. extra_roots \in Seq(Word) /\ Len(extra_roots) = 0
  BY <1>2
<1>6. /\ RootsSeen(sp, ids, ids) /\ Drawn(view.objects, N, ids, mem, ids)
      /\ N \in SUBSET O /\ (\A j \in 0 .. sp - 1 : Leads(stack[j], N))
      /\ \A x \in N : \A f \in FieldsAt(mem, x) : Leads(mem[f], N)
  BY <1>1, ViewFacts DEF ViewInv
<1>7. heap.begin \in Nat /\ heap.size \in Nat /\ heap.current <= heap.begin + heap.size /\ heap.current \in Nat
  BY DEF GCInv, TypeInv, TypeOK, IsChunk
<1>8. IsFiniteSet(DOMAIN mem)
  <2>1. heap.begin \in Int /\ heap.begin + heap.size - 1 \in Int
    BY <1>7
  <2>2. IsFiniteSet(heap.begin .. heap.begin + heap.size - 1)
    BY <2>1, FS_Interval
  <2> QED
    BY <1>2, <2>2
<1>9. ToSet(InUseSlots) = RootWords
  <2>1. InUseSlots = [j \in 1 .. sp |-> stack[j - 1]]
    BY <1>2, SlotWords DEF InUseSlots
  <2>2. ToSet([j \in 1 .. sp |-> stack[j - 1]]) = {stack[k] : k \in 0 .. sp - 1}
    <3>1. sp \in Nat
      BY <1>2
    <3> QED
      BY ONLY <3>1, SlotWords
  <2>3. \A k \in 1 .. Len(extra_roots) : FALSE
    BY <1>5
  <2>4. RootWords = {stack[k] : k \in 0 .. sp - 1}
    BY <2>3 DEF RootWords
  <2> QED
    BY <2>1, <2>2, <2>4
<1>10. Held(ToSet(InUseSlots), mem, ids) = N
  <2>1. \A w \in RootWords : Is(w, O)
    <3>1. \A k \in 1 .. Len(extra_roots) : FALSE
      BY <1>5
    <3> QED
      BY <1>2, <3>1 DEF RootWords
  <2> HIDE DEF O
  <2>2. Held(RootWords, mem, ids) = Reached(mem, O, RootWords)
    BY <1>2, <1>8, <2>1, HeldIs
  <2> QED
    BY <1>9, <2>2 DEF Reach, O
<1>11. i \in IDS /\ \A x \in N : ids[x] # i
  <2>1. N \in SUBSET (heap.begin .. heap.begin + heap.size - 1)
    <3> DEFINE b == heap.begin
               c == heap.current
               z == heap.size
    <3>1. O \subseteq b .. c - 1
      BY <1>2, SoundFacts
    <3>2. b \in Nat /\ z \in Nat /\ c \in Nat /\ c <= b + z
      BY <1>7
    <3> HIDE DEF b, c, z, N
    <3>3. N \in SUBSET (b .. b + z - 1)
      BY <1>6, <3>1, <3>2
    <3> QED
      BY <3>3 DEF b, z
  <2> HIDE DEF N
  <2>2. phase \notin Ends
    BY <1>1 DEF Ends
  <2>3. T = {ids[x] : x \in N}
    BY <1>10 DEF NamesOf
  <2> HIDE DEF T
  <2>4. FreshId(T) \in IDS /\ FreshId(T) \notin T
    BY <1>7, <2>1, <2>2, <2>3, FreshName
  <2> QED
    BY <2>3, <2>4
<1>12. Allocated(O, i, heap.current)
  BY AllocKeeps
<1>13. PoppedBefore(I) = 0 => Len(extra_roots) = 0
  BY <1>5
<1> HIDE DEF O, N, i
<1> QED
  BY <1>1, <1>2, <1>3, <1>4, <1>5, <1>6, <1>11, <1>12, <1>13, AllocationShows

(* When all has moved, what is drawn is what is in the heap.                 *)
LEMMA EndCollectionShows ==
  ASSUME Addressable, WellBehaved, Ample, Placed, GCInv, ViewInv, EndCollection, Observe, prog' = prog
  PROVE  ViewInv' /\ Abstract!Make
<1> DEFINE O == DOMAIN ids
           i == FreshId(NamesOf(O))
           h == heap.begin + live
<1>1. phase = "move" /\ next >= heap.current
  BY DEF EndCollection
<1>2. GCInv' /\ phase' = "mutator" /\ Allocated(O, i, h)
  BY EndCollectionKeeps
<1>3. /\ Rest = {} /\ Done = O
      /\ Sound(mem, O, heap.begin, h) /\ Holding(mem, O, O) /\ Rooted(O)
      /\ FitsIn([heap EXCEPT !.current = h], Size(Requested(I)))
  BY <1>1, AllMoved
<1>4. /\ I.op \in Allocators /\ Len(extra_roots) = PoppedBefore(I)
      /\ sp \in Nat /\ sp >= 1 /\ sp <= STACK_MAX_SIZE /\ STACK_MAX_SIZE \in Nat
      /\ extra_roots \in Seq(Word) /\ stack \in [Slots -> Word]
      /\ heap.begin \in Nat /\ heap.size \in Nat /\ heap.current \in Nat
      /\ heap \in [begin : Nat, size : Nat, current : Nat] /\ live \in Nat
  <2>1. I.op \in Allocators /\ Len(extra_roots) = PoppedBefore(I) /\ sp \in RESERVED .. STACK_MAX_SIZE
    BY <1>1 DEF GCInv, ProgramInv, Ends
  <2>2. STACK_MAX_SIZE \in Nat /\ RESERVED \in Nat /\ RESERVED >= 1
    BY SizesAssumption
  <2>3. sp \in Nat /\ sp >= 1 /\ sp <= STACK_MAX_SIZE
    BY ONLY <2>1, <2>2
  <2>4. /\ extra_roots \in Seq(Word) /\ stack \in [Slots -> Word]
        /\ heap.begin \in Nat /\ heap.size \in Nat /\ heap.current \in Nat
        /\ heap \in [begin : Nat, size : Nat, current : Nat] /\ live \in Nat
    BY DEF GCInv, TypeInv, TypeOK, IsChunk
  <2> QED
    BY <2>1, <2>2, <2>3, <2>4
<1>5. stack[0] \in Word
  <2>1. 0 \in Slots
    BY <1>4 DEF Slots
  <2> QED
    BY <1>4, <2>1
<1>6. \A j \in 0 .. sp - 1 : Leads(stack[j], O)
  <2>1. \A j \in 0 .. sp - 1 : Is(stack[j], O)
    <3>1. Is(stack[0], O)
      BY <1>3, <1>5 DEF Rooted, Is
    <3>2. \A j \in 0 .. sp - 1 : j = 0 \/ j \in 1 .. sp - 1
      BY <1>4
    <3> QED
      BY <1>3, <3>1, <3>2 DEF Rooted
  <2> QED
    <3>1. O \in SUBSET Nat
      BY <1>3, SoundFacts
    <3> QED
      BY <2>1, <3>1, IsLeads
<1>7. /\ RootsSeen(sp, ids, ids) /\ Drawn(view.objects, Moving, MoveNames, mem, ids)
  BY <1>1 DEF ViewInv
<1>8. Moving = O /\ \A x \in O : MoveNames[x] = ids[x]
  <2>1. Black(mem, Rest) = {}
    BY <1>3 DEF Black
  <2>2. Moving = O
    BY <1>3, <2>1 DEF Moving
  <2>3. \A x \in Moving : MoveNames[x] = IF x \in Done THEN ids[x] ELSE ids[Dest(mem, x)]
    BY DEF MoveNames
  <2> QED
    BY <1>3, <2>2, <2>3
<1> HIDE DEF O
<1>9. Drawn(view.objects, O, ids, mem, ids)
  <2>1. Drawn(view.objects, O, MoveNames, mem, ids)
    BY <1>7, <1>8
  <2>2. {MoveNames[x] : x \in O} = {ids[x] : x \in O}
    BY <1>8
  <2> QED
    BY <1>8, <2>1, <2>2 DEF Drawn
<1>10. \A x \in O : \A f \in FieldsAt(mem, x) : Leads(mem[f], O)
  <2>1. O \in SUBSET Nat
    BY <1>3, SoundFacts
  <2> QED
    BY <1>3, <2>1, IsLeads DEF Holding
<1>11. i \in IDS /\ \A x \in O : ids[x] # i
  <2>1. O \in SUBSET (heap.begin .. heap.begin + heap.size - 1)
    <3> DEFINE b == heap.begin
               z == heap.size
    <3>1. O \subseteq b .. h - 1
      BY <1>3, SoundFacts
    <3>2. b \in Nat /\ z \in Nat /\ h \in Nat
      BY <1>4
    <3>3. h <= b + z
      <4>1. h + Size(Requested(I)) <= b + z
        BY <1>3, <1>4 DEF FitsIn
      <4>2. Size(Requested(I)) \in Nat
        BY <1>1, RequestedFacts DEF GCInv, Ends
      <4> HIDE DEF b, z, h
      <4> QED
        BY ONLY <3>2, <4>1, <4>2
    <3> HIDE DEF b, z, h
    <3>4. O \in SUBSET (b .. b + z - 1)
      BY ONLY <3>1, <3>2, <3>3
    <3> QED
      BY <3>4 DEF b, z
  <2>2. phase \notin Ends
    BY <1>1 DEF Ends
  <2> DEFINE T == NamesOf(O)
  <2>3. T = {ids[x] : x \in O}
    BY DEF NamesOf
  <2> HIDE DEF T
  <2>4. FreshId(T) \in IDS /\ FreshId(T) \notin T
    BY <1>4, <2>1, <2>2, <2>3, FreshName
  <2> QED
    BY <2>3, <2>4 DEF T
<1>12. PoppedBefore(I) = 0 => Len(extra_roots) = 0
  BY <1>4
<1>13. O \in SUBSET O /\ DOMAIN ids = O
  BY DEF O
<1> HIDE DEF i, h
<1> QED
  BY <1>2, <1>3, <1>4, <1>5, <1>6, <1>7, <1>9, <1>10, <1>11, <1>12, <1>13, AllocationShows

-----------------------------------------------------------------------------
(* The heap is empty and every slot a boxed 0 when the program starts.       *)
LEMMA ShownAtFirst ==
  ASSUME Addressable, WellBehaved, Ample, Init
  PROVE  ViewInv /\ Placed /\ LiteralInv /\ Abstract!Init
<1> DEFINE zero == [kind |-> "int", val |-> 0]
<1>1. /\ stack = [j \in Slots |-> BOX(0)] /\ sp = RESERVED /\ extra_roots = <<>>
      /\ prog \in DOMAIN Programs /\ todo \in Programs[prog] /\ phase = "mutator" /\ ids = <<>>
      /\ view = [roots |-> [j \in 1 .. RESERVED |-> zero], objects |-> <<>>]
  BY DEF Init
<1>2. PICK n \in Pages : /\ PagesOf(n * PAGE, MINIMUM_HEAP_CAPACITY) \subseteq Pages
                         /\ heap = Chunk(n * PAGE, MINIMUM_HEAP_CAPACITY, 0)
  BY DEF Init
<1>3. RESERVED \in Nat /\ RESERVED <= STACK_MAX_SIZE /\ STACK_MAX_SIZE \in Nat
  BY SizesAssumption
<1>4. view.roots = [j \in 1 .. RESERVED |-> zero] /\ view.objects = <<>>
  BY <1>1
<1>5. GCInv
  BY InitHolds
<1>6. AllObjects = {}
  <2>1. DOMAIN ids = AllObjects
    BY <1>1, <1>5, MutatorFacts
  <2>2. DOMAIN ids = {}
    BY <1>1
  <2> QED
    BY <2>1, <2>2
<1>7. RootsSeen(sp, ids, ids)
  <2>1. ASSUME NEW j \in 1 .. RESERVED
        PROVE  /\ ~ (j > sp)
               /\ ValueOf(stack[j - 1], IF j - 1 < sp THEN ids ELSE ids) = zero
    <3>1. j - 1 \in Slots /\ ~ (j > sp)
      BY <1>1, <1>3 DEF Slots
    <3>2. stack[j - 1] = BOX(0)
      BY <1>1, <3>1
    <3>3. UNBOXED(BOX(0)) /\ UNBOX(BOX(0)) = 0
      BY DEF UNBOXED, BOX, UNBOX
    <3> QED
      BY <3>1, <3>2, <3>3 DEF ValueOf
  <2>2. sp + Len(extra_roots) = RESERVED
    BY <1>1, <1>3
  <2> HIDE DEF zero
  <2> QED
    BY <1>4, <2>1, <2>2 DEF RootsSeen
<1>8. Drawn(view.objects, Reach, ids, mem, ids)
  <2>1. Reach = {}
    BY <1>6 DEF Reach, Reached
  <2>2. {ids[h] : h \in {}} = {} /\ <<>> = [i \in {} |-> <<>>[i]]
    OBVIOUS
  <2> QED
    BY <1>4, <2>1, <2>2 DEF Drawn
<1>9. ViewInv
  BY <1>1, <1>7, <1>8 DEF ViewInv
<1>10. Placed
  <2>1. n * PAGE \in Nat /\ MINIMUM_HEAP_CAPACITY \in Nat \ {0}
    <3>1. n \in Nat /\ PAGE \in Nat
      BY SizesAssumption
    <3> QED
      BY <3>1, SizesAssumption
  <2>2. heap.begin = n * PAGE /\ heap.size = MINIMUM_HEAP_CAPACITY
    BY <1>2 DEF Chunk
  <2> DEFINE b == n * PAGE
  <2> HIDE DEF b
  <2>3. \E q \in Pages : b + MINIMUM_HEAP_CAPACITY <= (q + 1) * PAGE
    BY <1>2, <2>1, EndsOnPage DEF b
  <2> QED
    BY <2>2, <2>3 DEF Placed, b
<1>11. LiteralInv
  BY <1>1 DEF LiteralInv, Ample
<1>12. Abstract!Init
  <2>1. [j \in 1 .. RESERVED |-> zero] \in Seq({zero})
    BY <1>3
  <2>2. Abstract!IntValue(0) = zero
    BY DEF Abstract!IntValue
  <2> QED
    BY <1>4, <2>1, <2>2 DEF Abstract!Init
<1> QED
  BY <1>9, <1>10, <1>11, <1>12

(* Every step shows a step of the promised memory or nothing at all.         *)
LEMMA StepShows ==
  ASSUME Addressable, WellBehaved, Ample, StoresSpareFlags,
         GCInv, RoomMade, ViewInv, Placed, LiteralInv, [Next]_vars
  PROVE  ViewInv' /\ [Abstract!Next]_(Abstract!vars)
<1>1. GCInv'
  BY StepKeeps
<1>2. CASE UNCHANGED vars
  <2>1. /\ UNCHANGED <<prog, stack, sp, extra_roots, todo, heap, mem, mapped, phase, ids>>
        /\ UNCHANGED <<next, head, tail, live, old, view>>
    BY <1>2 DEF vars, program, collector
  <2>2. AllObjects' = AllObjects /\ Rest' = Rest /\ RootWords' = RootWords
    BY <2>1 DEF AllObjects, Rest, RootWords
  <2>3. Reach' = Reach /\ Olds' = Olds
    BY <2>1, <2>2 DEF Reach, Olds
  <2>4. OldNames' = OldNames
    BY <2>1, <2>3 DEF OldNames, Dest, Rebased
  <2>5. Moving' = Moving
    BY <2>1, <2>2 DEF Moving, Done, Frontier
  <2>6. MoveNames' = MoveNames
    <3>1. Done' = Done
      BY <2>1, <2>2 DEF Done, Frontier
    <3>2. \A h : Dest(mem, h)' = Dest(mem, h)
      BY <2>1 DEF Dest, Rebased
    <3> QED
      BY <2>1, <2>5, <3>1, <3>2 DEF MoveNames
  <2>7. DestNames(Black(mem, AllObjects))' = DestNames(Black(mem, AllObjects))
    BY <2>1, <2>2 DEF DestNames, Dest, Rebased
  <2>8. ViewInv'
    BY <2>1, <2>2, <2>3, <2>4, <2>5, <2>6, <2>7 DEF ViewInv, RootsSeen
  <2> QED
    BY <2>1, <2>8 DEF Abstract!vars
<1>3. CASE (Mutator \/ Collect \/ __shutdown) /\ Observe /\ UNCHANGED prog
  <2>1. CASE Const
    BY <1>1, <1>3, <2>1, ConstShows DEF Abstract!Next
  <2>2. CASE Load
    BY <1>1, <1>3, <2>2, LoadShows DEF Abstract!Next
  <2>3. CASE Store
    BY <1>1, <1>3, <2>3, StoreShows DEF Abstract!Next
  <2>4. CASE Drop
    BY <1>1, <1>3, <2>4, DropShows DEF Abstract!Next
  <2>5. CASE Elem
    BY <1>1, <1>3, <2>5, ElemShows DEF Abstract!Next
  <2>6. CASE StoreElement
    BY <1>1, <1>3, <2>6, StoreElementShows DEF Abstract!Next
  <2>7. CASE Fail \/ __shutdown
    <3>1. phase' \in Ends
      BY <2>7 DEF Fail, __shutdown, Ends
    <3> QED
      BY <1>3, <3>1, EndShows
  <2>8. CASE Alloc
    BY <1>1, <1>3, <2>8, AllocShows DEF Abstract!Next
  <2>9. CASE StartCollection
    BY <1>3, <2>9, StartShows
  <2>10. CASE MarkRoot
    BY <1>3, <2>10, MarkRootShows
  <2>11. CASE Dequeue
    BY <1>3, <2>11, DequeueShows
  <2>12. CASE compute_locations
    BY <1>3, <2>12, LocationsShow
  <2>13. CASE NewHeap
    BY <1>3, <2>13, NewHeapShows
  <2>14. CASE update_references
    BY <1>3, <2>14, FieldsShow
  <2>15. CASE FixSlot
    BY <1>3, <2>15, SlotShows
  <2>16. CASE scan_and_fix_region_roots
    BY <1>3, <2>16, RootsShow
  <2>17. CASE physically_relocate
    BY <1>3, <2>17, MoveShows
  <2>18. CASE EndCollection
    BY <1>3, <2>18, EndCollectionShows DEF Abstract!Next
  <2> QED
    BY <1>3, <2>1, <2>2, <2>3, <2>4, <2>5, <2>6, <2>7, <2>8, <2>9, <2>10, <2>11, <2>12, <2>13,
       <2>14, <2>15, <2>16, <2>17, <2>18 DEF Mutator, Collect
<1> QED
  BY <1>2, <1>3 DEF Next, Ended

(* The collector implements the promise: whatever is read, stored, marked,   *)
(* moved and fixed up, the program sees integers and references to objects   *)
(* that last as long as a slot leads to them, with the elements they were    *)
(* given, and a collection shows nothing but the object it made room for.    *)
THEOREM CollectorImplementsObjects ==
  ASSUME Addressable, WellBehaved, Ample
  PROVE  Spec /\ []StoresSpareFlags => ImplementsObjects
<1>1. Init => GCInv /\ RoomMade /\ ViewInv /\ Placed /\ LiteralInv
  BY InitHolds, ShownAtFirst
<1>2. GCInv /\ RoomMade /\ ViewInv /\ Placed /\ LiteralInv /\ StoresSpareFlags /\ [Next]_vars
      => GCInv' /\ RoomMade' /\ ViewInv' /\ Placed' /\ LiteralInv'
  BY StepKeeps, StepShows, PlacedKept, LiteralsKept
<1>3. Init => Abstract!Init
  BY ShownAtFirst
<1>4. GCInv /\ RoomMade /\ ViewInv /\ Placed /\ LiteralInv /\ StoresSpareFlags /\ [Next]_vars
      => [Abstract!Next]_(Abstract!vars)
  BY StepShows
<1> QED
  BY <1>1, <1>2, <1>3, <1>4, PTL DEF Spec, ImplementsObjects, Abstract!Spec
=============================================================================
