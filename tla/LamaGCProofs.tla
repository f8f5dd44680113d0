----------------------------- MODULE LamaGCProofs -----------------------------
(***************************************************************************)
(* Proofs about the collector, for every size of stack, heap and page, and  *)
(* every set of programs, whatever pages mmap returns, that                  *)
(*   - execute each statement within the stack and leave the first global   *)
(*     alone, which is no root (WellBehaved);                               *)
(*   - store no byte over the flags in the forward word of an s-expression,  *)
(*     which is where STA writes (StoresSpareFlags);                        *)
(*   - run on a machine whose words hold eight bytes and the address of      *)
(*     every page (Addressable).                                            *)
(* The inductive invariant is GCInv: what the heap is made of (HeapInv) in   *)
(* every phase, what is white, grey and black while the queue is worked      *)
(* off (MarkInv), and what is where while memory is mapped, objects copied   *)
(* and roots corrected (MapInv, RoomInv, CopyInv, MoveInv).                 *)
(***************************************************************************)
EXTENDS LamaGC, Induction

-----------------------------------------------------------------------------
(***************************************************************************)
(* Words.                                                                  *)
(***************************************************************************)
LEMMA SizeFacts ==
  ASSUME NEW w \in Nat
  PROVE  /\ Size(w) \in Nat /\ Size(w) >= 2
         /\ FirstField(w) \in Nat /\ FirstField(w) >= 2
<1>1. LEN(w) \in Nat /\ TAG(w) \in 0 .. 7
  BY DEF LEN, TAG
<1>2. BYTES_TO_WORDS(LEN(w) + 1) \in Nat
  BY <1>1 DEF BYTES_TO_WORDS
<1>3. Size(w) \in Nat /\ Size(w) >= 2
  BY <1>1, <1>2 DEF Size, DATA_HEADER_SZ
<1> QED
  BY <1>3 DEF FirstField, DATA_HEADER_SZ

LEMMA ContentFacts ==
  ASSUME NEW h \in Nat
  PROVE  /\ Content(h) \in Nat /\ ~ UNBOXED(Content(h)) /\ HeaderOf(Content(h)) = h
         /\ Content(h) % 4 = 0 /\ Content(h) \div 8 = h + 2 /\ Content(h) = 8 * (h + 2)
BY DEF Content, UNBOXED, HeaderOf, DATA_HEADER_SZ

LEMMA ContentInjective ==
  ASSUME NEW g \in Nat, NEW h \in Nat, Content(g) = Content(h)
  PROVE  g = h
BY DEF Content, DATA_HEADER_SZ

(* The forward word: an address, a mark bit and an enqueued bit, of which    *)
(* each can be set and leaves the others alone.                             *)
SameFlags(v, w) == (Bit(v, 1) <=> Bit(w, 1)) /\ (Bit(v, 2) <=> Bit(w, 2))

LEMMA SetMark ==
  ASSUME NEW w \in Nat
  PROVE  /\ SetBit(w, 1) \in Nat /\ Bit(SetBit(w, 1), 1)
         /\ Bit(SetBit(w, 1), 2) <=> Bit(w, 2)
         /\ GET_FORWARD_ADDRESS(SetBit(w, 1)) = GET_FORWARD_ADDRESS(w)
BY DEF SetBit, Bit, GET_FORWARD_ADDRESS

LEMMA ResetMark ==
  ASSUME NEW w \in Nat
  PROVE  /\ ResetBit(w, 1) \in Nat /\ ~ Bit(ResetBit(w, 1), 1)
         /\ Bit(ResetBit(w, 1), 2) <=> Bit(w, 2)
         /\ GET_FORWARD_ADDRESS(ResetBit(w, 1)) = GET_FORWARD_ADDRESS(w)
         /\ ResetBit(w, 1) <= w
BY DEF ResetBit, Bit, GET_FORWARD_ADDRESS

LEMMA SetEnqueued ==
  ASSUME NEW w \in Nat
  PROVE  /\ SetBit(w, 2) \in Nat /\ Bit(SetBit(w, 2), 2)
         /\ Bit(SetBit(w, 2), 1) <=> Bit(w, 1)
         /\ GET_FORWARD_ADDRESS(SetBit(w, 2)) = GET_FORWARD_ADDRESS(w)
BY DEF SetBit, Bit, GET_FORWARD_ADDRESS

LEMMA ResetEnqueued ==
  ASSUME NEW w \in Nat
  PROVE  /\ ResetBit(w, 2) \in Nat /\ ~ Bit(ResetBit(w, 2), 2)
         /\ Bit(ResetBit(w, 2), 1) <=> Bit(w, 1)
         /\ GET_FORWARD_ADDRESS(ResetBit(w, 2)) = GET_FORWARD_ADDRESS(w)
         /\ ResetBit(w, 2) <= w
BY DEF ResetBit, Bit, GET_FORWARD_ADDRESS

LEMMA SetForward ==
  ASSUME NEW w \in Nat, NEW p \in Nat, p % 4 = 0
  PROVE  /\ SET_FORWARD_ADDRESS(w, p) \in Nat
         /\ SameFlags(SET_FORWARD_ADDRESS(w, p), w)
         /\ GET_FORWARD_ADDRESS(SET_FORWARD_ADDRESS(w, p)) = p
         /\ SET_FORWARD_ADDRESS(w, p) <= p + 3
BY DEF SameFlags, SET_FORWARD_ADDRESS, Bit, GET_FORWARD_ADDRESS

(* A word of a machine whose words are a multiple of four stays one when a   *)
(* flag is set.                                                            *)
LEMMA FlagsFit ==
  ASSUME NEW n \in Nat, n % 4 = 0, NEW w \in 0 .. n - 1
  PROVE  SetBit(w, 1) < n /\ SetBit(w, 2) < n /\ GET_FORWARD_ADDRESS(w) \in Nat
BY DEF SetBit, Bit, GET_FORWARD_ADDRESS

-----------------------------------------------------------------------------
(***************************************************************************)
(* The objects of a heap.                                                  *)
(***************************************************************************)
Behind(m, h) == h + Size(m[h])

(* What objects of a heap are: they begin at its begin, each where the one   *)
(* before it ends, and none begins inside another.                          *)
Tiles(m, S, b, c) ==
  /\ S \subseteq b .. c - 1
  /\ b < c => b \in S
  /\ \A h \in S : Behind(m, h) \in S \/ Behind(m, h) >= c
  /\ \A g, h \in S : g < h => Behind(m, g) <= h

(* The words of a stretch of memory are words.                              *)
Typed(m, b, c) == \A a \in b .. c - 1 : m[a] \in Nat

LEMMA BehindLater ==
  ASSUME NEW m, NEW b \in Nat, NEW c \in Nat, Typed(m, b, c), NEW h \in b .. c - 1
  PROVE  Behind(m, h) \in Nat /\ Behind(m, h) >= h + 2 /\ h \in Nat
<1>1. m[h] \in Nat /\ h \in Nat
  BY DEF Typed
<1>2. Size(m[h]) \in Nat /\ Size(m[h]) >= 2
  BY <1>1, SizeFacts
<1> QED
  BY <1>1, <1>2 DEF Behind

(* The smallest address at which two sets of objects differ would lie inside *)
(* the last object before it that both have.                                *)
LEMMA TilesUnique ==
  ASSUME NEW m, NEW b \in Nat, NEW c \in Nat, Typed(m, b, c),
         NEW S, Tiles(m, S, b, c), NEW T, Tiles(m, T, b, c)
  PROVE  S = T
<1> DEFINE D == (S \ T) \cup (T \ S)
<1>1. S \in SUBSET Nat /\ T \in SUBSET Nat
  BY DEF Tiles
<1> SUFFICES ASSUME D # {} PROVE FALSE
  OBVIOUS
<1>2. PICK x \in D : \A y \in D : x <= y
  BY <1>1, LeastNatural
(* A is the one that has x, B the one that has not.                         *)
<1>3. \E A \in {S, T}, B \in {S, T} : x \in A /\ x \notin B
  OBVIOUS
<1>4. PICK A \in {S, T}, B \in {S, T} : x \in A /\ x \notin B
  BY <1>3
<1>5. Tiles(m, A, b, c) /\ Tiles(m, B, b, c) /\ x \in Nat /\ x \in b .. c - 1
  BY <1>1, <1>4 DEF Tiles
<1>6. \A y \in Nat : y < x => (y \in A <=> y \in B)
  BY <1>1, <1>2, <1>4
<1> DEFINE L == {x - y : y \in {z \in B : z < x}}
<1>7. L \in SUBSET Nat
  BY <1>1, <1>5
<1>8. b \in B /\ b < x /\ b \in Nat
  BY <1>4, <1>5 DEF Tiles
<1>9. L # {}
  BY <1>8
<1> HIDE DEF L
<1>10. PICK l \in L : \A k \in L : l <= k
  BY <1>7, <1>9, LeastNatural
<1>11. PICK y \in B : y < x /\ l = x - y
  BY <1>10 DEF L
<1>12. y \in A /\ y \in Nat /\ y \in b .. c - 1
  <2>1. y \in b .. c - 1 /\ y \in Nat
    BY <1>5, <1>11 DEF Tiles
  <2> QED
    BY <2>1, <1>6, <1>11
<1>13. Behind(m, y) <= x
  <2>1. \A g, h \in A : g < h => Behind(m, g) <= h
    BY <1>5 DEF Tiles
  <2> QED
    BY <2>1, <1>4, <1>11, <1>12
<1>14. Behind(m, y) \in Nat /\ Behind(m, y) > y
  BY <1>12, BehindLater
<1>15. Behind(m, y) < c
  BY <1>5, <1>13, <1>14
<1>16. Behind(m, y) \in B
  BY <1>5, <1>11, <1>14, <1>15 DEF Tiles
<1>17. Behind(m, y) < x
  BY <1>4, <1>5, <1>13, <1>14, <1>16
<1>18. x - Behind(m, y) \in L
  BY <1>16, <1>17 DEF L
<1> QED
  BY <1>5, <1>10, <1>11, <1>12, <1>14, <1>18

(* Each address has a tiling behind it: the largest one without it would     *)
(* begin one with its successor's.                                         *)
LEMMA TilesExtend ==
  ASSUME NEW m, NEW b \in Nat, NEW c \in Nat, Typed(m, b, c), NEW h \in b .. c - 1,
         NEW g, g = IF Behind(m, h) < c THEN Behind(m, h) ELSE c,
         NEW S, Tiles(m, S, g, c)
  PROVE  Tiles(m, {h} \cup S, h, c) /\ g \in b .. c /\ g > h
<1>1. Behind(m, h) \in Nat /\ Behind(m, h) >= h + 2 /\ h \in Nat
  BY BehindLater
<1>2. g \in b .. c /\ g > h /\ g <= Behind(m, h)
  BY <1>1
<1>3. S \subseteq g .. c - 1 /\ {h} \cup S \subseteq h .. c - 1
  BY <1>1, <1>2 DEF Tiles
<1>4. \A x \in S : Behind(m, x) \in S \/ Behind(m, x) >= c
  BY DEF Tiles
<1>5. Behind(m, h) \in S \/ Behind(m, h) >= c
  BY <1>1 DEF Tiles
<1>6. ASSUME NEW x \in {h} \cup S, NEW y \in {h} \cup S, x < y PROVE Behind(m, x) <= y
  <2>1. y \in S /\ y \in Nat /\ y >= g /\ y < c
    BY <1>1, <1>2, <1>3, <1>6
  <2>2. CASE x = h
    BY <1>1, <2>1, <2>2
  <2>3. CASE x \in S
    BY <1>6, <2>1, <2>3 DEF Tiles
  <2> QED
    BY <2>2, <2>3
<1> QED
  BY <1>2, <1>3, <1>4, <1>5, <1>6 DEF Tiles

LEMMA TilesEmpty ==
  ASSUME NEW m, NEW c \in Nat
  PROVE  Tiles(m, {}, c, c)
BY DEF Tiles

LEMMA TilesExist ==
  ASSUME NEW m, NEW b \in Nat, NEW c \in Nat, Typed(m, b, c), NEW h \in b .. c
  PROVE  \E S : Tiles(m, S, h, c)
<1> DEFINE Has(a) == \E S : Tiles(m, S, a, c)
           Bad == {c - a : a \in {x \in b .. c : ~ Has(x)}}
<1> SUFFICES ASSUME ~ Has(h) PROVE FALSE
  OBVIOUS
<1> HIDE DEF Has
<1>1. Bad \in SUBSET Nat /\ c - h \in Bad
  OBVIOUS
<1>2. PICK l \in Bad : \A k \in Bad : l <= k
  BY <1>1, LeastNatural
<1>3. PICK x \in b .. c : l = c - x /\ ~ Has(x)
  BY <1>2
<1>4. x # c
  BY <1>3, TilesEmpty DEF Has
<1> DEFINE g == IF Behind(m, x) < c THEN Behind(m, x) ELSE c
<1>5. x \in b .. c - 1
  BY <1>3, <1>4
<1>6. g \in b .. c /\ g > x
  BY <1>5, BehindLater
<1> HIDE DEF g
<1>7. Has(g)
  <2>1. c - g < l /\ c - g \in Nat /\ l \in Nat
    BY <1>3, <1>6
  <2>2. ~ Has(g) => c - g \in Bad
    BY <1>6
  <2> QED
    BY <1>2, <2>1, <2>2
<1>8. PICK S : Tiles(m, S, g, c)
  BY <1>7 DEF Has
<1>9. Tiles(m, {x} \cup S, x, c)
  BY <1>5, <1>8, TilesExtend DEF g
<1> QED
  BY <1>3, <1>9 DEF Has

(* The iterator of Objects, as a function on the addresses of a heap.        *)
Iterates(m, b, c, from) ==
  from = [h \in b .. c |->
            IF h = c THEN {}
            ELSE {h} \cup from[IF Behind(m, h) < c THEN Behind(m, h) ELSE c]]

LEMMA IteratesTile ==
  ASSUME NEW m, NEW b \in Nat, NEW c \in Nat, Typed(m, b, c)
  PROVE  /\ \E from : Iterates(m, b, c, from)
         /\ \A from : Iterates(m, b, c, from) => \A h \in b .. c : Tiles(m, from[h], h, c)
<1> DEFINE T == [h \in b .. c |-> CHOOSE S : Tiles(m, S, h, c)]
           nx(h) == IF Behind(m, h) < c THEN Behind(m, h) ELSE c
<1>1. ASSUME NEW h \in b .. c PROVE Tiles(m, T[h], h, c) /\ Typed(m, h, c)
  <2>1. \E S : Tiles(m, S, h, c)
    BY TilesExist
  <2> QED
    BY <2>1 DEF Typed
<1>2. ASSUME NEW h \in b .. c - 1 PROVE nx(h) \in b .. c /\ nx(h) > h
  BY BehindLater
<1>3. Iterates(m, b, c, T)
  <2>1. ASSUME NEW h \in b .. c PROVE T[h] = IF h = c THEN {} ELSE {h} \cup T[nx(h)]
    <3>1. Tiles(m, T[h], h, c) /\ Typed(m, h, c) /\ h \in Nat
      BY <1>1
    <3> HIDE DEF T
    <3>2. CASE h = c
      BY <3>1, <3>2, TilesEmpty, TilesUnique
    <3>3. CASE h # c
      <4>1. h \in b .. c - 1
        BY <3>3
      <4>2. nx(h) \in b .. c
        BY <4>1, <1>2
      <4>3. Tiles(m, T[nx(h)], nx(h), c)
        BY <4>2, <1>1
      <4>4. Tiles(m, {h} \cup T[nx(h)], h, c)
        BY <4>1, <4>3, TilesExtend
      <4> QED
        BY <3>1, <3>3, <4>4, TilesUnique
    <3> QED
      BY <3>2, <3>3
  <2>2. T = [h \in b .. c |-> IF h = c THEN {} ELSE {h} \cup T[nx(h)]]
    BY <2>1
  <2> HIDE DEF T
  <2> QED
    BY <2>2 DEF Iterates
<1>4. ASSUME NEW from, Iterates(m, b, c, from), NEW h \in b .. c
      PROVE  Tiles(m, from[h], h, c)
  <2> DEFINE Good(a) == Tiles(m, from[a], a, c)
             Bad == {c - a : a \in {x \in b .. c : ~ Good(x)}}
  <2>1. \A a \in b .. c : from[a] = IF a = c THEN {} ELSE {a} \cup from[nx(a)]
    BY <1>4 DEF Iterates
  <2> SUFFICES ASSUME ~ Good(h) PROVE FALSE
    OBVIOUS
  <2> HIDE DEF Good
  <2>2. Bad \in SUBSET Nat /\ c - h \in Bad
    OBVIOUS
  <2>3. PICK l \in Bad : \A k \in Bad : l <= k
    BY <2>2, LeastNatural
  <2>4. PICK x \in b .. c : l = c - x /\ ~ Good(x)
    BY <2>3
  <2>5. x # c
    <3>1. c \in b .. c => from[c] = {}
      BY <2>1
    <3>2. Tiles(m, {}, c, c)
      BY TilesEmpty
    <3>3. c \in b .. c => Good(c)
      BY <3>1, <3>2 DEF Good
    <3> QED
      BY <2>4, <3>3
  <2>6. x \in b .. c - 1
    BY <2>4, <2>5
  <2>7. nx(x) \in b .. c /\ nx(x) > x
    BY <2>6, <1>2
  <2> HIDE DEF nx
  <2>8. Good(nx(x))
    <3>1. c - nx(x) < l /\ c - nx(x) \in Nat /\ l \in Nat
      BY <2>4, <2>7
    <3>2. ~ Good(nx(x)) => c - nx(x) \in Bad
      BY <2>7
    <3> QED
      BY <2>3, <3>1, <3>2
  <2>9. Tiles(m, {x} \cup from[nx(x)], x, c)
    BY <2>6, <2>8, TilesExtend DEF Good, nx
  <2> QED
    BY <2>1, <2>4, <2>5, <2>9 DEF Good
<1> QED
  BY <1>3, <1>4

LEMMA ObjectsTile ==
  ASSUME NEW m, NEW b \in Nat, NEW c \in Nat, Typed(m, b, c), b <= c
  PROVE  /\ Tiles(m, Objects(m, b, c), b, c)
         /\ \A S : Tiles(m, S, b, c) => Objects(m, b, c) = S
<1> DEFINE from == CHOOSE f : f = [h \in b .. c |->
                      IF h = c THEN {}
                      ELSE LET behind == h + Size(m[h])
                           IN  {h} \cup f[IF behind < c THEN behind ELSE c]]
<1>1. \E f : Iterates(m, b, c, f)
  BY IteratesTile
<1>2. Iterates(m, b, c, from)
  BY <1>1 DEF Iterates, Behind
<1>3. Objects(m, b, c) = from[b]
  BY DEF Objects
<1> HIDE DEF from
<1>4. b \in b .. c
  OBVIOUS
<1>5. Tiles(m, from[b], b, c)
  BY <1>2, <1>4, IteratesTile
<1> QED
  BY <1>3, <1>5, TilesUnique

(* The addresses of an object's fields.                                      *)
FieldsAt(m, h) == h + FirstField(m[h]) .. h + Size(m[h]) - 1

LEMMA FieldsAre ==
  ASSUME NEW m, NEW h \in Nat, m[h] \in Nat
  PROVE  /\ Fields(m, h) \in Seq(Nat)
         /\ ToSet(Fields(m, h)) = FieldsAt(m, h)
         /\ FieldsAt(m, h) \subseteq h + 2 .. h + Size(m[h]) - 1
<1> DEFINE n == Size(m[h]) - FirstField(m[h])
           lo == h + FirstField(m[h])
<1>1. n \in Int /\ lo \in Nat /\ lo >= h + 2 /\ lo + n = h + Size(m[h]) /\ Size(m[h]) \in Nat
  BY SizeFacts
<1>2. Fields(m, h) = [k \in 1 .. n |-> lo + k - 1]
  BY DEF Fields
<1>3. FieldsAt(m, h) = lo .. lo + n - 1
  BY <1>1 DEF FieldsAt
<1> HIDE DEF n, lo
<1>4. Fields(m, h) \in Seq(Nat)
  <2>1. CASE n \in Nat
    BY <1>1, <1>2, <2>1
  <2>2. CASE n < 0
    <3>1. 1 .. n = {} /\ 1 .. 0 = {}
      BY <1>1, <2>2
    <3>2. Fields(m, h) = [k \in 1 .. 0 |-> lo + k - 1]
      BY <1>2, <3>1
    <3> QED
      BY <3>2, <1>1
  <2> QED
    BY <1>1, <2>1, <2>2
<1>5. ToSet(Fields(m, h)) = {lo + k - 1 : k \in 1 .. n}
  BY <1>2 DEF ToSet
<1>6. {lo + k - 1 : k \in 1 .. n} = lo .. lo + n - 1
  <2>1. ASSUME NEW a \in lo .. lo + n - 1 PROVE \E k \in 1 .. n : a = lo + k - 1
    <3>1. a - lo + 1 \in 1 .. n /\ a = lo + (a - lo + 1) - 1
      BY <1>1
    <3> QED
      BY <3>1
  <2>2. ASSUME NEW k \in 1 .. n PROVE lo + k - 1 \in lo .. lo + n - 1
    BY <1>1
  <2> QED
    BY <2>1, <2>2
<1>7. FieldsAt(m, h) \subseteq h + 2 .. h + Size(m[h]) - 1
  BY <1>1, <1>3
<1>8. ToSet(Fields(m, h)) = FieldsAt(m, h)
  BY <1>3, <1>5, <1>6
<1> QED
  BY <1>4, <1>7, <1>8

-----------------------------------------------------------------------------
(***************************************************************************)
(* Sound heaps: whole objects, whose fields are integers or lead to objects *)
(* of a set, which is the heap's own while the program runs.                *)
(***************************************************************************)
Is(w, S)    == w \in Word /\ (UNBOXED(w) \/ \E h \in S : w = Content(h))
Leads(w, S) == UNBOXED(w) \/ HeaderOf(w) \in S

IsMemory(m, b, c) == /\ b \in Nat /\ c \in Nat /\ b <= c /\ 8 * c < WORD /\ WORD % 8 = 0
                     /\ m \in [DOMAIN m -> Word] /\ b .. c - 1 \subseteq DOMAIN m

Sound(m, O, b, c) == /\ IsMemory(m, b, c)
                     /\ Tiles(m, O, b, c)
                     /\ \A h \in O : Behind(m, h) <= c /\ IsHeader(m[h])

Holding(m, O, S) == \A h \in O : \A f \in FieldsAt(m, h) : Is(m[f], S)

LEMMA SoundFacts ==
  ASSUME NEW m, NEW O, NEW b, NEW c, Sound(m, O, b, c)
  PROVE  /\ b \in Nat /\ c \in Nat /\ b <= c /\ O \subseteq Nat /\ O \subseteq b .. c - 1
         /\ Typed(m, b, c)
         /\ b < c => b \in O
         /\ \A h \in O : /\ h \in Nat /\ h >= b /\ h + 1 < c /\ {h, h + 1} \subseteq DOMAIN m
                         /\ m[h] \in Nat /\ m[h + 1] \in Nat /\ m[h + 1] \in Word
                         /\ Behind(m, h) \in Nat /\ Behind(m, h) >= h + 2
                         /\ Behind(m, h) \in O \cup {c} /\ Behind(m, h) <= c
                         /\ FieldsAt(m, h) \subseteq h + 2 .. Behind(m, h) - 1
                         /\ FieldsAt(m, h) \subseteq DOMAIN m
                         /\ ToSet(Fields(m, h)) = FieldsAt(m, h)
                         /\ Fields(m, h) \in Seq(Nat)
                         /\ Content(h) + 3 < WORD /\ Content(h) <= 8 * c
         /\ \A g, h \in O : g < h => Behind(m, g) <= h
<1>1. /\ b \in Nat /\ c \in Nat /\ b <= c /\ 8 * c < WORD /\ WORD \in Nat
      /\ WORD % 8 = 0
      /\ m \in [DOMAIN m -> Word] /\ b .. c - 1 \subseteq DOMAIN m
      /\ O \subseteq b .. c - 1 /\ O \subseteq Nat
      /\ \A h \in O : Behind(m, h) \in O \/ Behind(m, h) >= c
      /\ \A h \in O : Behind(m, h) <= c
  BY SizesAssumption DEF Sound, Tiles, IsMemory
<1>2. Typed(m, b, c)
  BY <1>1 DEF Typed, Word
<1>3. ASSUME NEW h \in O
      PROVE  /\ h \in Nat /\ h >= b /\ h + 1 < c /\ {h, h + 1} \subseteq DOMAIN m
             /\ m[h] \in Nat /\ m[h + 1] \in Nat /\ m[h + 1] \in Word
             /\ Behind(m, h) \in Nat /\ Behind(m, h) >= h + 2
             /\ Behind(m, h) \in O \cup {c} /\ Behind(m, h) <= c
  <2>1. h \in b .. c - 1
    BY <1>1
  <2>2. Behind(m, h) \in Nat /\ Behind(m, h) >= h + 2 /\ Behind(m, h) <= c /\ h \in Nat
    BY <1>1, <1>2, <2>1, BehindLater
  <2>3. h \in b .. c - 1 /\ h + 1 \in b .. c - 1 /\ h + 1 < c
    BY <1>1, <2>1, <2>2
  <2>4. m[h] \in Word /\ m[h + 1] \in Word
    BY <1>1, <2>3
  <2> QED
    BY <1>1, <2>2, <2>3, <2>4 DEF Word
<1>4. ASSUME NEW h \in O
      PROVE  /\ FieldsAt(m, h) \subseteq h + 2 .. Behind(m, h) - 1
             /\ FieldsAt(m, h) \subseteq DOMAIN m
             /\ ToSet(Fields(m, h)) = FieldsAt(m, h)
             /\ Fields(m, h) \in Seq(Nat)
  <2>1. h \in Nat /\ m[h] \in Nat /\ Behind(m, h) <= c /\ h >= b
    BY <1>3
  <2>2. /\ FieldsAt(m, h) \subseteq h + 2 .. Behind(m, h) - 1
        /\ ToSet(Fields(m, h)) = FieldsAt(m, h)
        /\ Fields(m, h) \in Seq(Nat)
    <3>1. /\ FieldsAt(m, h) \subseteq h + 2 .. h + Size(m[h]) - 1
          /\ ToSet(Fields(m, h)) = FieldsAt(m, h)
          /\ Fields(m, h) \in Seq(Nat)
      BY <2>1, FieldsAre
    <3>2. FieldsAt(m, h) \subseteq h + 2 .. h + Size(m[h]) - 1
      BY <3>1
    <3>3. FieldsAt(m, h) \subseteq h + 2 .. Behind(m, h) - 1
      BY <3>2, <2>1, SizeFacts DEF Behind
    <3> QED
      BY <3>1, <3>3
  <2>3. h + 2 .. Behind(m, h) - 1 \subseteq b .. c - 1
    BY <1>1, <1>3
  <2> QED
    BY <1>1, <2>2, <2>3
<1>5. ASSUME NEW h \in O PROVE Content(h) + 3 < WORD /\ Content(h) <= 8 * c
  <2>1. h \in Nat /\ h + 2 <= c
    BY <1>1, <1>3
  <2>2. Content(h) = 8 * (h + 2)
    BY <2>1, ContentFacts
  <2> QED
    BY <1>1, <2>1, <2>2
<1>6. b < c => b \in O
  BY DEF Sound, Tiles
<1>7. \A g, h \in O : g < h => Behind(m, g) <= h
  BY DEF Sound, Tiles
<1> QED
  BY <1>1, <1>2, <1>3, <1>4, <1>5, <1>6, <1>7

(* The forward word of an object is neither a header nor a field.            *)
LEMMA ForwardApart ==
  ASSUME NEW m, NEW O, NEW b, NEW c, Sound(m, O, b, c),
         NEW g \in O, NEW h \in O
  PROVE  /\ h # g + 1
         /\ \A f \in FieldsAt(m, h) : f # g + 1 /\ f # g
         /\ g + 1 = h + 1 => g = h
<1>1. /\ g \in Nat /\ h \in Nat
      /\ Behind(m, g) \in Nat /\ Behind(m, g) >= g + 2
      /\ Behind(m, h) \in Nat /\ Behind(m, h) >= h + 2
      /\ FieldsAt(m, h) \subseteq h + 2 .. Behind(m, h) - 1
      /\ g < h => Behind(m, g) <= h
      /\ h < g => Behind(m, h) <= g
  BY SoundFacts
<1> QED
  BY <1>1

(* Two memories that differ in forward words only.                           *)
SameHeap(m, n, O) == /\ DOMAIN n = DOMAIN m
                     /\ n \in [DOMAIN m -> Word]
                     /\ \A a \in DOMAIN m : a \notin {h + 1 : h \in O} => n[a] = m[a]

LEMMA SameHeapFacts ==
  ASSUME NEW m, NEW O, NEW b, NEW c, Sound(m, O, b, c),
         NEW n, SameHeap(m, n, O)
  PROVE  /\ Sound(n, O, b, c)
         /\ \A h \in O : /\ n[h] = m[h] /\ Behind(n, h) = Behind(m, h)
                         /\ FieldsAt(n, h) = FieldsAt(m, h) /\ Fields(n, h) = Fields(m, h)
                         /\ \A f \in FieldsAt(m, h) : n[f] = m[f]
<1>1. ASSUME NEW h \in O
      PROVE  /\ n[h] = m[h]
             /\ \A f \in FieldsAt(m, h) : n[f] = m[f]
  <2>1. h \in DOMAIN m /\ FieldsAt(m, h) \subseteq DOMAIN m
    BY SoundFacts
  <2>2. h \notin {g + 1 : g \in O} /\ \A f \in FieldsAt(m, h) : f \notin {g + 1 : g \in O}
    BY ForwardApart
  <2> QED
    BY <2>1, <2>2 DEF SameHeap
<1>2. \A h \in O : /\ Behind(n, h) = Behind(m, h)
                   /\ FieldsAt(n, h) = FieldsAt(m, h) /\ Fields(n, h) = Fields(m, h)
  BY <1>1 DEF Behind, FieldsAt, Fields
<1>3. Tiles(n, O, b, c)
  BY <1>2 DEF Tiles, Sound
<1>4. IsMemory(n, b, c)
  BY DEF IsMemory, Sound, SameHeap
<1>5. \A h \in O : Behind(n, h) <= c /\ IsHeader(n[h])
  BY <1>1, <1>2 DEF Sound
<1> QED
  BY <1>1, <1>2, <1>3, <1>4, <1>5 DEF Sound

-----------------------------------------------------------------------------
(***************************************************************************)
(* Marking.  Black objects are marked, grey ones enqueued.  The queue is     *)
(* the objects from lo to hi; each holds the address of another grey one.    *)
(* There is always an object left to hold one: as many lie before hi as are  *)
(* black or grey at most.                                                  *)
(***************************************************************************)
Black(m, O)  == {h \in O : is_marked(m, h)}
Grey(m, O)   == {h \in O : is_enqueued(m, h)}
Below(O, a)  == {h \in O : h < a}
Between(O, lo, hi) == {h \in O : lo <= h /\ h < hi}
Holds(m, h)  == GET_FORWARD_ADDRESS(m[h + 1])

Queue(m, O, c, lo, hi) ==
  /\ lo \in O \cup {c} /\ hi \in O \cup {c} /\ lo <= hi
  /\ \A x \in Between(O, lo, hi) : \E y \in Grey(m, O) : Holds(m, x) = Content(y)
  /\ \A y \in Grey(m, O) : \E x \in Between(O, lo, hi) : Holds(m, x) = Content(y)
  /\ \A x, z \in Between(O, lo, hi) : Holds(m, x) = Holds(m, z) => x = z
  /\ Grey(m, O) \cap Black(m, O) = {}
  /\ Cardinality(Below(O, hi)) <= Cardinality(Black(m, O) \cup Grey(m, O))

LEMMA FiniteObjects ==
  ASSUME NEW m, NEW O, NEW b, NEW c, Sound(m, O, b, c), NEW S \in SUBSET O
  PROVE  IsFiniteSet(S) /\ Cardinality(S) \in Nat
<1>1. b \in Nat /\ c \in Nat /\ O \subseteq b .. c - 1
  BY SoundFacts
<1>2. IsFiniteSet(b .. c - 1)
  BY <1>1, FS_Interval
<1> QED
  BY <1>1, <1>2, FS_Subset, FS_CardinalityType

(* Where an object enters the queue there is one to hold its address.        *)
LEMMA RoomInQueue ==
  ASSUME NEW m, NEW O, NEW b, NEW c, Sound(m, O, b, c),
         NEW lo, NEW hi, Queue(m, O, c, lo, hi),
         NEW v \in O, v \notin Black(m, O) \cup Grey(m, O)
  PROVE  hi \in O /\ hi < c /\ hi \in Nat
<1> DEFINE U == Black(m, O) \cup Grey(m, O)
<1>1. hi \in O => hi < c /\ hi \in Nat
  BY SoundFacts
<1>2. SUFFICES ASSUME hi = c PROVE FALSE
  BY <1>1 DEF Queue
<1>3. Below(O, hi) = O
  BY <1>2, SoundFacts DEF Below
<1>4. U \in SUBSET (O \ {v}) /\ O \ {v} \in SUBSET O /\ U \in SUBSET O
  BY DEF Black, Grey
<1>5. IsFiniteSet(O) /\ IsFiniteSet(O \ {v}) /\ Cardinality(O) \in Nat
      /\ Cardinality(O \ {v}) \in Nat /\ Cardinality(U) \in Nat
  <2>1. O \in SUBSET O
    OBVIOUS
  <2> HIDE DEF U
  <2> QED
    BY <2>1, <1>4, FiniteObjects
<1>6. Cardinality(O \ {v}) = Cardinality(O) - 1
  BY <1>5, FS_RemoveElement
<1>7. Cardinality(U) <= Cardinality(O \ {v})
  <2> HIDE DEF U
  <2> QED
    BY <1>4, <1>5, FS_Subset
<1>8. Cardinality(O) <= Cardinality(U)
  BY <1>3 DEF Queue
<1> HIDE DEF U
<1> QED
  BY <1>5, <1>6, <1>7, <1>8

(* Forward words after an object has entered the queue.                      *)
LEMMA EnqueueWrites ==
  ASSUME NEW m, NEW O, NEW b, NEW c, Sound(m, O, b, c), NEW t \in O, NEW v \in O,
         NEW n, n = queue_enqueue(m, t, Content(v))
  PROVE  /\ SameHeap(m, n, O)
         /\ Black(n, O) = Black(m, O) /\ Grey(n, O) = Grey(m, O) \cup {v}
         /\ \A x \in O : Holds(n, x) = IF x = t THEN Content(v) ELSE Holds(m, x)
<1> DEFINE k == [m EXCEPT ![t + 1] = SET_FORWARD_ADDRESS(@, Content(v))]
<1>1. /\ m \in [DOMAIN m -> Word] /\ WORD \in Nat /\ WORD % 4 = 0
      /\ \A x \in O : /\ x \in Nat /\ x + 1 \in DOMAIN m /\ m[x + 1] \in Nat /\ m[x + 1] \in Word
                      /\ Content(x) \in Nat /\ Content(x) % 4 = 0 /\ Content(x) + 3 < WORD
                      /\ HeaderOf(Content(x)) = x
  <2>1. m \in [DOMAIN m -> Word] /\ WORD \in Nat /\ WORD % 8 = 0
    BY SizesAssumption DEF Sound, IsMemory
  <2>2. WORD % 4 = 0
    BY <2>1
  <2>3. \A x \in O : /\ x \in Nat /\ x + 1 \in DOMAIN m /\ m[x + 1] \in Nat /\ m[x + 1] \in Word
                     /\ Content(x) + 3 < WORD
    BY SoundFacts
  <2>4. \A x \in O : Content(x) \in Nat /\ Content(x) % 4 = 0 /\ HeaderOf(Content(x)) = x
    BY <2>3, ContentFacts
  <2> QED
    BY <2>1, <2>2, <2>3, <2>4
<1>2. n = [k EXCEPT ![v + 1] = SetBit(@, 2)]
  BY <1>1 DEF queue_enqueue, make_enqueued
<1>3. /\ k \in [DOMAIN m -> Word]
      /\ \A x \in O : /\ k[x + 1] \in Nat /\ k[x + 1] \in Word
                      /\ SameFlags(k[x + 1], m[x + 1])
                      /\ Holds(k, x) = IF x = t THEN Content(v) ELSE Holds(m, x)
      /\ \A a \in DOMAIN m : a # t + 1 => k[a] = m[a]
  <2> DEFINE w == SET_FORWARD_ADDRESS(m[t + 1], Content(v))
  <2>1. /\ w \in Nat /\ SameFlags(w, m[t + 1]) /\ GET_FORWARD_ADDRESS(w) = Content(v)
        /\ w <= Content(v) + 3
    BY <1>1, SetForward
  <2>2. w \in Word
    BY <1>1, <2>1 DEF Word
  <2>3. k[t + 1] = w /\ \A a \in DOMAIN m : a # t + 1 => k[a] = m[a]
    BY <1>1
  <2>4. k \in [DOMAIN m -> Word]
    BY <1>1, <2>2
  <2> HIDE DEF w, k
  <2>5. ASSUME NEW x \in O
        PROVE  /\ k[x + 1] \in Nat /\ k[x + 1] \in Word
               /\ SameFlags(k[x + 1], m[x + 1])
               /\ Holds(k, x) = IF x = t THEN Content(v) ELSE Holds(m, x)
    <3>1. CASE x = t
      BY <2>1, <2>2, <2>3, <3>1 DEF Holds
    <3>2. CASE x # t
      <4>1. k[x + 1] = m[x + 1]
        BY <1>1, <2>3, <3>2
      <4> QED
        BY <1>1, <3>2, <4>1 DEF Holds, SameFlags
    <3> QED
      BY <3>1, <3>2
  <2> QED
    BY <2>3, <2>4, <2>5
<1> HIDE DEF k
<1>4. /\ n \in [DOMAIN m -> Word]
      /\ \A x \in O : /\ Holds(n, x) = Holds(k, x)
                      /\ Bit(n[x + 1], 1) <=> Bit(k[x + 1], 1)
                      /\ Bit(n[x + 1], 2) <=> Bit(k[x + 1], 2) \/ x = v
      /\ \A a \in DOMAIN m : a # v + 1 => n[a] = k[a]
  <2> DEFINE w == SetBit(k[v + 1], 2)
  <2>1. /\ w \in Nat /\ Bit(w, 2) /\ (Bit(w, 1) <=> Bit(k[v + 1], 1))
        /\ GET_FORWARD_ADDRESS(w) = GET_FORWARD_ADDRESS(k[v + 1])
    BY <1>3, SetEnqueued
  <2>2. w \in Word
    <3>1. w < WORD
      BY <1>1, <1>3, FlagsFit DEF Word
    <3> QED
      BY <1>1, <2>1, <3>1 DEF Word
  <2>3. n[v + 1] = w /\ \A a \in DOMAIN m : a # v + 1 => n[a] = k[a]
    BY <1>1, <1>2, <1>3
  <2>4. n \in [DOMAIN m -> Word]
    BY <1>2, <1>3, <2>2
  <2> HIDE DEF w
  <2>5. ASSUME NEW x \in O
        PROVE  /\ Holds(n, x) = Holds(k, x)
               /\ Bit(n[x + 1], 1) <=> Bit(k[x + 1], 1)
               /\ Bit(n[x + 1], 2) <=> Bit(k[x + 1], 2) \/ x = v
    <3>1. CASE x = v
      BY <2>1, <2>3, <3>1 DEF Holds
    <3>2. CASE x # v
      <4>1. n[x + 1] = k[x + 1]
        BY <1>1, <2>3, <3>2
      <4> QED
        BY <3>2, <4>1 DEF Holds
    <3> QED
      BY <3>1, <3>2
  <2> QED
    BY <2>3, <2>4, <2>5
<1>5. SameHeap(m, n, O)
  BY <1>3, <1>4 DEF SameHeap
<1>6. \A x \in O : /\ Bit(n[x + 1], 1) <=> Bit(m[x + 1], 1)
                   /\ Bit(n[x + 1], 2) <=> Bit(m[x + 1], 2) \/ x = v
  BY <1>3, <1>4 DEF SameFlags, Bit
<1>7. Black(n, O) = Black(m, O) /\ Grey(n, O) = Grey(m, O) \cup {v}
  BY <1>6 DEF Black, Grey, is_marked, is_enqueued, Bit
<1>8. \A x \in O : Holds(n, x) = IF x = t THEN Content(v) ELSE Holds(m, x)
  BY <1>3, <1>4
<1> QED
  BY <1>5, <1>7, <1>8

LEMMA EnqueueKeeps ==
  ASSUME NEW m, NEW O, NEW b, NEW c, Sound(m, O, b, c),
         NEW lo, NEW hi, Queue(m, O, c, lo, hi),
         NEW v \in O, v \notin Black(m, O) \cup Grey(m, O),
         NEW n, n = queue_enqueue(m, hi, Content(v))
  PROVE  /\ SameHeap(m, n, O)
         /\ Black(n, O) = Black(m, O) /\ Grey(n, O) = Grey(m, O) \cup {v}
         /\ Queue(n, O, c, lo, Behind(m, hi))
<1>1. hi \in O /\ hi < c /\ hi \in Nat
  BY RoomInQueue
<1>2. /\ SameHeap(m, n, O)
      /\ \A x \in O : Holds(n, x) = IF x = hi THEN Content(v) ELSE Holds(m, x)
  BY <1>1, EnqueueWrites
<1>3. Black(n, O) = Black(m, O) /\ Grey(n, O) = Grey(m, O) \cup {v}
  BY <1>1, EnqueueWrites
<1> DEFINE to == Behind(m, hi)
<1>4. /\ to \in O \cup {c} /\ to \in Nat /\ to >= hi + 2 /\ lo \in Nat /\ O \subseteq Nat /\ c \in Nat
      /\ lo <= hi /\ lo \in O \cup {c}
      /\ \A x \in O : x < to => x <= hi
  <2>1. \A x \in O : hi < x => to <= x
    BY <1>1, SoundFacts
  <2>2. O \subseteq Nat /\ c \in Nat
    BY SoundFacts
  <2>3. to \in O \cup {c} /\ to \in Nat /\ to >= hi + 2
    BY <1>1, SoundFacts
  <2> HIDE DEF to
  <2> QED
    BY <1>1, <2>1, <2>2, <2>3 DEF Queue
<1> HIDE DEF to
<1>5. Between(O, lo, to) = Between(O, lo, hi) \cup {hi} /\ hi \notin Between(O, lo, hi)
  <2>1. \A x \in O : lo <= x /\ x < to <=> (lo <= x /\ x < hi) \/ x = hi
    BY <1>1, <1>4
  <2>2. \A x : x \in Between(O, lo, to) <=> x \in Between(O, lo, hi) \/ x = hi
    BY <1>1, <2>1 DEF Between
  <2>3. hi \notin Between(O, lo, hi)
    BY <1>1 DEF Between
  <2> QED
    BY <2>2, <2>3
<1>6. \A x \in Between(O, lo, hi) : x \in O /\ x # hi /\ Holds(n, x) = Holds(m, x)
  <2>1. \A x \in Between(O, lo, hi) : x \in O /\ x # hi
    BY <1>5 DEF Between
  <2> QED
    BY <1>2, <2>1
<1>7. \A x \in Between(O, lo, to) : \E y \in Grey(n, O) : Holds(n, x) = Content(y)
  BY <1>1, <1>2, <1>3, <1>5, <1>6 DEF Queue
<1>8. \A y \in Grey(n, O) : \E x \in Between(O, lo, to) : Holds(n, x) = Content(y)
  BY <1>1, <1>2, <1>3, <1>5, <1>6 DEF Queue
<1>9. ASSUME NEW x \in Between(O, lo, to), NEW z \in Between(O, lo, to), Holds(n, x) = Holds(n, z)
      PROVE  x = z
  <2>1. Grey(m, O) \subseteq Nat /\ v \in Nat /\ v \notin Grey(m, O)
    BY <1>4 DEF Grey
  <2>2. \A y \in Between(O, lo, hi) : Holds(n, y) # Content(v)
    <3>1. SUFFICES ASSUME NEW y \in Between(O, lo, hi), Holds(n, y) = Content(v) PROVE FALSE
      OBVIOUS
    <3>2. PICK g \in Grey(m, O) : Holds(m, y) = Content(g)
      BY DEF Queue
    <3>3. Content(g) = Content(v)
      BY <1>6, <3>1, <3>2
    <3> QED
      BY <2>1, <3>2, <3>3, ContentInjective
  <2>3. Holds(n, hi) = Content(v)
    BY <1>1, <1>2
  <2>4. CASE x \in Between(O, lo, hi) /\ z \in Between(O, lo, hi)
    BY <1>6, <1>9, <2>4 DEF Queue
  <2> QED
    BY <1>5, <1>9, <2>2, <2>3, <2>4
<1>10. Cardinality(Below(O, to)) <= Cardinality(Black(n, O) \cup Grey(n, O))
  <2> DEFINE U == Black(m, O) \cup Grey(m, O)
             W == Below(O, hi)
  <2>1. Below(O, to) = W \cup {hi} /\ hi \notin W
    <3>1. \A x \in O : x < to <=> x < hi \/ x = hi
      BY <1>1, <1>4
    <3>2. \A x : x \in Below(O, to) <=> x \in Below(O, hi) \/ x = hi
      BY <1>1, <3>1 DEF Below
    <3>3. hi \notin Below(O, hi)
      BY <1>1 DEF Below
    <3> QED
      BY <3>2, <3>3
  <2>2. Black(n, O) \cup Grey(n, O) = U \cup {v} /\ v \notin U
    BY <1>3
  <2>3. W \in SUBSET O /\ U \in SUBSET O
    BY DEF Black, Grey, Below
  <2>4. Cardinality(W) <= Cardinality(U)
    BY DEF Queue
  <2> HIDE DEF U, W
  <2>5. IsFiniteSet(U) /\ IsFiniteSet(W) /\ Cardinality(U) \in Nat /\ Cardinality(W) \in Nat
    BY <2>3, FiniteObjects
  <2>6. Cardinality(W \cup {hi}) = Cardinality(W) + 1 /\ Cardinality(U \cup {v}) = Cardinality(U) + 1
    BY <2>1, <2>2, <2>5, FS_AddElement
  <2> QED
    BY <2>1, <2>2, <2>4, <2>5, <2>6
<1>11. Grey(n, O) \cap Black(n, O) = {}
  BY <1>3 DEF Queue
<1>12. Queue(n, O, c, lo, to)
  BY <1>1, <1>4, <1>7, <1>8, <1>9, <1>10, <1>11 DEF Queue
<1> QED
  BY <1>2, <1>3, <1>12 DEF to

(* The object at the head leaves the queue and is marked.                    *)
LEMMA DequeueWrites ==
  ASSUME NEW m, NEW O, NEW b, NEW c, Sound(m, O, b, c), NEW v \in O,
         NEW n, n = mark_object(make_dequeued(m, v), v)
  PROVE  /\ SameHeap(m, n, O)
         /\ Black(n, O) = Black(m, O) \cup {v} /\ Grey(n, O) = Grey(m, O) \ {v}
         /\ \A x \in O : Holds(n, x) = Holds(m, x)
<1> DEFINE u == m[v + 1]
           w == SetBit(ResetBit(u, 2), 1)
<1>1. m \in [DOMAIN m -> Word] /\ WORD \in Nat /\ WORD % 8 = 0
  BY SizesAssumption DEF Sound, IsMemory
<1>2. \A x \in O : x \in Nat /\ x + 1 \in DOMAIN m /\ m[x + 1] \in Nat /\ m[x + 1] \in Word
  BY SoundFacts
<1>3. /\ ResetBit(u, 2) \in Nat /\ ~ Bit(ResetBit(u, 2), 2) /\ ResetBit(u, 2) <= u
      /\ GET_FORWARD_ADDRESS(ResetBit(u, 2)) = GET_FORWARD_ADDRESS(u)
  BY <1>2, ResetEnqueued
<1>4. /\ w \in Nat /\ Bit(w, 1) /\ (Bit(w, 2) <=> Bit(ResetBit(u, 2), 2))
      /\ GET_FORWARD_ADDRESS(w) = GET_FORWARD_ADDRESS(ResetBit(u, 2))
  BY <1>3, SetMark
<1>5. w \in Word
  <2>1. WORD % 4 = 0
    BY <1>1
  <2>2. ResetBit(u, 2) \in 0 .. WORD - 1
    BY <1>1, <1>2, <1>3 DEF Word
  <2>3. w < WORD
    BY <1>1, <2>1, <2>2, FlagsFit
  <2> QED
    BY <1>1, <1>4, <2>3 DEF Word
<1>6. /\ n[v + 1] = w /\ n \in [DOMAIN m -> Word]
      /\ \A a \in DOMAIN m : a # v + 1 => n[a] = m[a]
  <2>1. n = [[m EXCEPT ![v + 1] = ResetBit(@, 2)] EXCEPT ![v + 1] = SetBit(@, 1)]
    BY DEF mark_object, make_dequeued
  <2>2. n = [m EXCEPT ![v + 1] = w]
    BY <1>1, <1>2, <2>1
  <2> HIDE DEF w
  <2> QED
    BY <1>1, <1>2, <1>5, <2>2
<1>7. Bit(w, 1) /\ ~ Bit(w, 2) /\ GET_FORWARD_ADDRESS(w) = GET_FORWARD_ADDRESS(u)
  BY <1>3, <1>4
<1> HIDE DEF w
<1>8. \A x \in O : x # v => n[x + 1] = m[x + 1]
  BY <1>2, <1>6
<1>9. Black(n, O) = Black(m, O) \cup {v}
  BY <1>6, <1>7, <1>8 DEF Black, is_marked
<1>10. Grey(n, O) = Grey(m, O) \ {v}
  BY <1>6, <1>7, <1>8 DEF Grey, is_enqueued
<1>11. \A x \in O : Holds(n, x) = Holds(m, x)
  BY <1>6, <1>7, <1>8 DEF Holds
<1>12. SameHeap(m, n, O)
  BY <1>6 DEF SameHeap
<1> QED
  BY <1>9, <1>10, <1>11, <1>12

LEMMA DequeueKeeps ==
  ASSUME NEW m, NEW O, NEW b, NEW c, Sound(m, O, b, c),
         NEW lo, NEW hi, Queue(m, O, c, lo, hi), lo < hi,
         NEW v, v = HeaderOf(Holds(m, lo)),
         NEW n, n = mark_object(make_dequeued(m, v), v)
  PROVE  /\ lo \in O /\ v \in O /\ v \in Grey(m, O)
         /\ SameHeap(m, n, O)
         /\ Black(n, O) = Black(m, O) \cup {v} /\ Grey(n, O) = Grey(m, O) \ {v}
         /\ Queue(n, O, c, Behind(m, lo), hi)
<1>1. /\ O \subseteq Nat /\ c \in Nat /\ lo \in O \cup {c} /\ hi \in O \cup {c}
      /\ \A x \in O : x < c
  <2>1. O \subseteq Nat /\ c \in Nat /\ \A x \in O : x \in Nat /\ x + 1 < c
    BY SoundFacts
  <2> QED
    BY <2>1 DEF Queue
<1>2. lo \in O /\ lo \in Nat /\ hi \in Nat
  BY <1>1
<1>3. lo \in Between(O, lo, hi)
  BY <1>2 DEF Between
<1>4. PICK y \in Grey(m, O) : Holds(m, lo) = Content(y)
  BY <1>3 DEF Queue
<1>5. y = v /\ v \in O /\ v \in Grey(m, O)
  <2>1. y \in O /\ y \in Nat
    BY <1>1 DEF Grey
  <2> QED
    BY <1>4, <2>1, ContentFacts
<1>6. /\ SameHeap(m, n, O)
      /\ Black(n, O) = Black(m, O) \cup {v} /\ Grey(n, O) = Grey(m, O) \ {v}
      /\ \A x \in O : Holds(n, x) = Holds(m, x)
  BY <1>5, DequeueWrites
<1> DEFINE to == Behind(m, lo)
<1>7. to \in O \cup {c} /\ to \in Nat /\ to > lo /\ to <= hi /\ \A x \in O : lo < x => to <= x
  <2>1. to \in O \cup {c} /\ to \in Nat /\ to >= lo + 2 /\ to <= c /\ \A x \in O : lo < x => to <= x
    BY <1>2, SoundFacts
  <2> HIDE DEF to
  <2>2. to <= hi
    BY <1>1, <1>2, <2>1
  <2> QED
    BY <1>2, <2>1, <2>2
<1> HIDE DEF to
<1>8. Between(O, to, hi) = Between(O, lo, hi) \ {lo}
  <2>1. \A x \in O : to <= x <=> lo <= x /\ x # lo
    BY <1>1, <1>2, <1>7
  <2> QED
    BY <2>1 DEF Between
<1>9. \A x \in Between(O, lo, hi) : x \in O /\ Holds(n, x) = Holds(m, x)
  BY <1>6 DEF Between
<1>10. \A x \in Between(O, to, hi) : \E g \in Grey(n, O) : Holds(n, x) = Content(g)
  <2> SUFFICES ASSUME NEW x \in Between(O, to, hi)
               PROVE  \E g \in Grey(n, O) : Holds(n, x) = Content(g)
    OBVIOUS
  <2>1. x \in Between(O, lo, hi) /\ x # lo
    BY <1>8
  <2>2. PICK g \in Grey(m, O) : Holds(m, x) = Content(g)
    BY <2>1 DEF Queue
  <2>3. g # v
    BY <1>3, <1>4, <1>5, <2>1, <2>2 DEF Queue
  <2> QED
    BY <1>6, <1>9, <2>1, <2>2, <2>3
<1>11. \A g \in Grey(n, O) : \E x \in Between(O, to, hi) : Holds(n, x) = Content(g)
  <2> SUFFICES ASSUME NEW g \in Grey(n, O)
               PROVE  \E x \in Between(O, to, hi) : Holds(n, x) = Content(g)
    OBVIOUS
  <2>1. g \in Grey(m, O) /\ g # v
    BY <1>6
  <2>2. PICK x \in Between(O, lo, hi) : Holds(m, x) = Content(g)
    BY <2>1 DEF Queue
  <2>3. x # lo
    <3>1. g \in Nat /\ v \in Nat
      BY <1>1, <1>5, <2>1 DEF Grey
    <3> QED
      BY <1>4, <1>5, <2>1, <2>2, <3>1, ContentInjective
  <2> QED
    BY <1>8, <1>9, <2>2, <2>3
<1>12. \A x, z \in Between(O, to, hi) : Holds(n, x) = Holds(n, z) => x = z
  BY <1>8, <1>9 DEF Queue
<1>13. Grey(n, O) \cap Black(n, O) = {}
  BY <1>6 DEF Queue
<1>14. Black(n, O) \cup Grey(n, O) = Black(m, O) \cup Grey(m, O)
  BY <1>5, <1>6
<1>15. Queue(n, O, c, to, hi)
  BY <1>1, <1>7, <1>10, <1>11, <1>12, <1>13, <1>14 DEF Queue
<1> QED
  BY <1>2, <1>5, <1>6, <1>15 DEF to

(* The states a marking passes through while the fields of an object enter:  *)
(* what was grey still is, and only what R allows becomes so.               *)
Marking(m, O, c, lo, B, G, R) ==
  {q \in [mem : [DOMAIN m -> Word], tail : Nat] :
     /\ SameHeap(m, q.mem, O)
     /\ Queue(q.mem, O, c, lo, q.tail)
     /\ Black(q.mem, O) = B
     /\ G \subseteq Grey(q.mem, O)
     /\ Grey(q.mem, O) \subseteq R}

LEMMA EnterStep ==
  ASSUME NEW m, NEW O, Sound(m, O, heap.begin, heap.current),
         NEW lo, NEW B, NEW G, NEW R,
         NEW q \in Marking(m, O, heap.current, lo, B, G, R),
         NEW x \in O, NEW f \in FieldsAt(m, x), Is(m[f], O), Leads(m[f], R)
  PROVE  LET r == Enter(q, f)
         IN  /\ r \in Marking(m, O, heap.current, lo, B, G, R)
             /\ Grey(q.mem, O) \subseteq Grey(r.mem, O)
             /\ Leads(m[f], B \cup Grey(r.mem, O))
<1> DEFINE c == heap.current
           r == Enter(q, f)
           w == m[f]
<1>1. /\ q.tail \in Nat /\ SameHeap(m, q.mem, O)
      /\ Queue(q.mem, O, c, lo, q.tail) /\ Black(q.mem, O) = B
      /\ G \subseteq Grey(q.mem, O) /\ Grey(q.mem, O) \subseteq R
      /\ q.mem \in [DOMAIN m -> Word]
      /\ q = [mem |-> q.mem, tail |-> q.tail]
  BY DEF Marking
<1>2. /\ Sound(q.mem, O, heap.begin, c)
      /\ q.mem[f] = w
      /\ \A h \in O : Behind(q.mem, h) = Behind(m, h)
  BY <1>1, SameHeapFacts
<1>3. CASE UNBOXED(w)
  <2>1. r = q
    BY <1>2, <1>3 DEF Enter, ToEnqueue, is_valid_heap_pointer
  <2> QED
    BY <1>3, <2>1 DEF Leads
<1>4. CASE ~ UNBOXED(w)
  <2>1. PICK v \in O : w = Content(v)
    BY <1>4 DEF Is
  <2>2. /\ HeaderOf(w) = v /\ v \in Nat /\ v \in R
    <3>1. v \in Nat
      BY SoundFacts
    <3>2. HeaderOf(w) = v
      BY <2>1, <3>1, ContentFacts
    <3> QED
      BY <1>4, <3>1, <3>2 DEF Leads
  <2>3. is_valid_heap_pointer(w)
    <3>1. heap.begin \in Nat /\ heap.current \in Nat /\ v >= heap.begin /\ Content(v) <= 8 * heap.current
      BY SoundFacts
    <3>2. Content(v) = 8 * (v + 2)
      BY <2>2, ContentFacts
    <3>3. 8 * heap.begin <= Content(v)
      BY <3>1, <3>2, <2>2
    <3> QED
      BY <1>4, <2>1, <3>1, <3>3 DEF is_valid_heap_pointer
  <2>4. CASE v \in Black(q.mem, O) \cup Grey(q.mem, O)
    <3>1. is_marked(q.mem, v) \/ is_enqueued(q.mem, v)
      BY <2>4 DEF Black, Grey
    <3>2. r = q
      BY <1>2, <2>2, <3>1 DEF Enter, ToEnqueue
    <3>3. Leads(w, B \cup Grey(q.mem, O))
      BY <1>1, <2>2, <2>4 DEF Leads
    <3> QED
      BY <3>2, <3>3
  <2>5. CASE v \notin Black(q.mem, O) \cup Grey(q.mem, O)
    <3> DEFINE n == queue_enqueue(q.mem, q.tail, Content(v))
               t == q.tail + Size(q.mem[q.tail])
    <3>1. ~ is_marked(q.mem, v) /\ ~ is_enqueued(q.mem, v)
      BY <2>5 DEF Black, Grey
    <3>2. r = [mem |-> n, tail |-> t]
      BY <1>2, <2>1, <2>2, <2>3, <3>1 DEF Enter, ToEnqueue
    <3>3. /\ SameHeap(q.mem, n, O)
          /\ Black(n, O) = Black(q.mem, O) /\ Grey(n, O) = Grey(q.mem, O) \cup {v}
          /\ Queue(n, O, c, lo, Behind(q.mem, q.tail))
      BY <1>1, <1>2, <2>5, EnqueueKeeps
    <3>4. q.tail \in O
      BY <1>1, <1>2, <2>5, RoomInQueue
    <3>5. t = Behind(q.mem, q.tail) /\ t \in Nat
      <4>1. t = Behind(q.mem, q.tail)
        BY DEF Behind
      <4>2. Behind(q.mem, q.tail) \in Nat
        BY <1>2, <3>4, SoundFacts
      <4> QED
        BY <4>1, <4>2
    <3> HIDE DEF n, t
    <3>6. SameHeap(m, n, O) /\ n \in [DOMAIN m -> Word]
      BY <1>1, <3>3 DEF SameHeap
    <3>7. r \in Marking(m, O, c, lo, B, G, R)
      <4> DEFINE p == [mem |-> n, tail |-> t]
      <4>1. p.mem = n /\ p.tail = t /\ p \in [mem : [DOMAIN m -> Word], tail : Nat]
        BY <3>5, <3>6
      <4>2. Queue(n, O, c, lo, t)
        BY <3>3, <3>5
      <4>3. Grey(n, O) \subseteq R /\ G \subseteq Grey(n, O) /\ Black(n, O) = B
        BY <1>1, <2>2, <3>3
      <4> HIDE DEF p
      <4>4. p \in Marking(m, O, c, lo, B, G, R)
        BY <3>6, <4>1, <4>2, <4>3 DEF Marking
      <4> QED
        BY <3>2, <4>4 DEF p
    <3>8. r.mem = n
      BY <3>2
    <3>9. Leads(w, B \cup Grey(n, O))
      BY <2>2, <3>3 DEF Leads
    <3>10. Grey(q.mem, O) \subseteq Grey(r.mem, O) /\ Leads(w, B \cup Grey(r.mem, O))
      BY <3>3, <3>8, <3>9
    <3> QED
      BY <3>7, <3>10
  <2> QED
    BY <2>4, <2>5
<1> QED
  BY <1>3, <1>4

(* EnterAll as the fold of Induction.                      *)
EnterIter(q, s) ==
  CHOOSE it : it = [S \in SUBSET (DOMAIN s) |->
                      IF S = {} THEN q ELSE Enter(it[S \ {Max(S)}], s[Max(S)])]

LEMMA EnterIsFold ==
  ASSUME NEW q, NEW s
  PROVE  EnterAll(q, s) = EnterIter(q, s)[DOMAIN s]
BY DEF EnterAll, FoldLeft, MapThenFoldSet, EnterIter

Entering(A, q, s, it) ==
  /\ it[1 .. 0] = q
  /\ \A k \in 0 .. Len(s) - 1 : it[1 .. k] \in A /\ it[1 .. k + 1] = Enter(it[1 .. k], s[k + 1])
  /\ EnterAll(q, s) = it[1 .. Len(s)]

LEMMA EnterFold ==
  ASSUME NEW A, NEW q \in A, NEW s \in Seq(Nat),
         \A r \in A, k \in 1 .. Len(s) : Enter(r, s[k]) \in A
  PROVE  \E it : Entering(A, q, s, it)
<1> DEFINE n == Len(s)
           g == [p \in A \X (1 .. n) |-> Enter(p[1], s[p[2]])]
<1>1. n \in Nat /\ DOMAIN s = 1 .. n
  OBVIOUS
<1>2. g \in [A \X (1 .. n) -> A]
  OBVIOUS
<1>3. \A r \in A, k \in 1 .. n : g[<<r, k>>] = Enter(r, s[k])
  OBVIOUS
<1> HIDE DEF g
<1>4. PICK it0 \in [SUBSET (1 .. n) -> A] : Folds(it0, q, g, n)
  BY <1>1, <1>2, FoldExists
<1> DEFINE F(it) == [S \in SUBSET (DOMAIN s) |->
                       IF S = {} THEN q ELSE Enter(it[S \ {Max(S)}], s[Max(S)])]
<1>5. it0 = F(it0)
  <2>1. ASSUME NEW S \in SUBSET (1 .. n), S # {}
        PROVE  it0[S] = Enter(it0[S \ {Max(S)}], s[Max(S)])
    <3>1. Max(S) \in S
      BY <1>1, <2>1, MaxIsMember
    <3>2. Max(S) \in 1 .. n /\ S \ {Max(S)} \in SUBSET (1 .. n)
      BY <3>1
    <3>3. it0[S \ {Max(S)}] \in A
      BY <3>2
    <3>4. it0[S] = g[<<it0[S \ {Max(S)}], Max(S)>>]
      BY <1>4, <2>1 DEF Folds
    <3> QED
      BY <1>3, <3>2, <3>3, <3>4
  <2>2. it0[{}] = q /\ {} \in SUBSET (1 .. n)
    BY <1>4 DEF Folds
  <2> QED
    BY <1>1, <2>1, <2>2
<1> DEFINE it == EnterIter(q, s)
<1>6. it = F(it)
  BY <1>5 DEF EnterIter
<1> HIDE DEF it
<1>7. \A S \in SUBSET (1 .. n) : it[S] = IF S = {} THEN q ELSE Enter(it[S \ {Max(S)}], s[Max(S)])
  BY <1>1, <1>6
<1> HIDE DEF F
<1>8. it[1 .. 0] = q
  <2>1. 1 .. 0 = {} /\ {} \in SUBSET (1 .. n)
    OBVIOUS
  <2> QED
    BY <1>7, <2>1
<1>9. ASSUME NEW k \in 0 .. n - 1 PROVE it[1 .. k + 1] = Enter(it[1 .. k], s[k + 1])
  <2>1. 1 .. k + 1 \in SUBSET (1 .. n) /\ k + 1 \in 1 .. k + 1 /\ k \in Nat
    BY <1>1
  <2>2. Max(1 .. k + 1) = k + 1
    BY <2>1, LastIsMax
  <2>3. (1 .. k + 1) \ {k + 1} = 1 .. k
    OBVIOUS
  <2>4. 1 .. k + 1 # {}
    BY <2>1
  <2> QED
    BY <1>7, <2>1, <2>2, <2>3, <2>4
<1> DEFINE Good == {k \in Nat : k <= n => it[1 .. k] \in A}
<1>10. 0 \in Good
  BY <1>8
<1>11. ASSUME NEW k \in Nat, k \in Good PROVE k + 1 \in Good
  <2>1. CASE k + 1 <= n
    <3>1. k \in 0 .. n - 1 /\ it[1 .. k] \in A /\ k + 1 \in 1 .. n
      BY <1>1, <1>11, <2>1
    <3> QED
      BY <1>9, <3>1
  <2>2. CASE ~ (k + 1 <= n)
    BY <2>2
  <2> QED
    BY <2>1, <2>2
<1> HIDE DEF Good
<1>12. Nat \subseteq Good
  BY <1>10, <1>11, NatSetInduction
<1>13. \A k \in 0 .. n - 1 : it[1 .. k] \in A
  BY <1>1, <1>12 DEF Good
<1>14. EnterAll(q, s) = it[1 .. n]
  <2>1. EnterAll(q, s) = EnterIter(q, s)[DOMAIN s]
    BY EnterIsFold
  <2> QED
    BY <1>1, <2>1 DEF it
<1>15. Entering(A, q, s, it)
  BY <1>8, <1>9, <1>13, <1>14 DEF Entering
<1> QED
  BY <1>15

(* All fields of an object have entered.                                     *)
LEMMA FieldsEnter ==
  ASSUME NEW m, NEW O, Sound(m, O, heap.begin, heap.current), Holding(m, O, O),
         NEW lo, NEW B, NEW G, NEW R,
         NEW q \in Marking(m, O, heap.current, lo, B, G, R),
         NEW x \in O, \A f \in FieldsAt(m, x) : Leads(m[f], R)
  PROVE  LET r == EnterAll(q, Fields(m, x))
         IN  /\ r \in Marking(m, O, heap.current, lo, B, G, R)
             /\ \A f \in FieldsAt(m, x) : Leads(m[f], B \cup Grey(r.mem, O))
<1> DEFINE A == Marking(m, O, heap.current, lo, B, G, R)
           s == Fields(m, x)
           n == Len(s)
<1>1. s \in Seq(Nat) /\ n \in Nat /\ ToSet(s) = FieldsAt(m, x)
  BY SoundFacts
<1>2. \A k \in 1 .. n : s[k] \in FieldsAt(m, x)
  BY <1>1 DEF ToSet
<1>3. ASSUME NEW r \in A, NEW f \in FieldsAt(m, x)
      PROVE  /\ Enter(r, f) \in A
             /\ Grey(r.mem, O) \subseteq Grey(Enter(r, f).mem, O)
             /\ Leads(m[f], B \cup Grey(Enter(r, f).mem, O))
  <2>1. Is(m[f], O) /\ Leads(m[f], R)
    BY DEF Holding
  <2> QED
    BY <2>1, EnterStep
<1> HIDE DEF A, s, n
<1>4. q \in A
  BY DEF A
<1>5. \A r \in A, k \in 1 .. Len(s) : Enter(r, s[k]) \in A
  BY <1>2, <1>3 DEF n
<1>6. PICK it : Entering(A, q, s, it)
  <2>1. s \in Seq(Nat)
    BY <1>1
  <2> QED
    BY <1>4, <1>5, <2>1, EnterFold
<1>7. /\ it[1 .. 0] = q
      /\ \A k \in 0 .. Len(s) - 1 :
           it[1 .. k] \in A /\ it[1 .. k + 1] = Enter(it[1 .. k], s[k + 1])
      /\ EnterAll(q, s) = it[1 .. Len(s)]
  BY <1>6 DEF Entering
<1> DEFINE Done(k) == /\ it[1 .. k] \in A
                      /\ \A j \in 1 .. k : Leads(m[s[j]], B \cup Grey(it[1 .. k].mem, O))
           Good == {k \in Nat : k <= n => Done(k)}
<1> HIDE DEF Done
<1>8. 0 \in Good
  BY <1>4, <1>7 DEF Done
<1>9. ASSUME NEW k \in Nat, k \in Good PROVE k + 1 \in Good
  <2> SUFFICES ASSUME k + 1 <= n PROVE Done(k + 1)
    OBVIOUS
  <2>1. Done(k) /\ k \in 0 .. Len(s) - 1 /\ k + 1 \in 1 .. n
    BY <1>1, <1>9 DEF n
  <2> DEFINE r == it[1 .. k]
             t == it[1 .. k + 1]
  <2>2. r \in A /\ t = Enter(r, s[k + 1]) /\ s[k + 1] \in FieldsAt(m, x)
    BY <1>2, <1>7, <2>1 DEF Done
  <2>3. t \in A /\ Grey(r.mem, O) \subseteq Grey(t.mem, O)
        /\ Leads(m[s[k + 1]], B \cup Grey(t.mem, O))
    BY <1>3, <2>2
  <2>4. \A j \in 1 .. k : Leads(m[s[j]], B \cup Grey(r.mem, O))
    BY <2>1 DEF Done
  <2> HIDE DEF r, t
  <2>5. \A j \in 1 .. k : Leads(m[s[j]], B \cup Grey(t.mem, O))
    BY <2>3, <2>4 DEF Leads
  <2>6. \A j \in 1 .. k + 1 : Leads(m[s[j]], B \cup Grey(t.mem, O))
    <3>1. \A j \in 1 .. k + 1 : j \in 1 .. k \/ j = k + 1
      OBVIOUS
    <3> QED
      BY <2>3, <2>5, <3>1
  <2> QED
    BY <2>3, <2>6 DEF Done, t
<1> HIDE DEF Good
<1>10. Nat \subseteq Good
  BY <1>8, <1>9, NatSetInduction
<1>11. Done(n)
  BY <1>1, <1>10 DEF Good
<1> DEFINE r == EnterAll(q, s)
<1>12. r = it[1 .. n]
  BY <1>7 DEF n
<1> HIDE DEF r
<1>13. r \in A /\ \A j \in 1 .. n : Leads(m[s[j]], B \cup Grey(r.mem, O))
  BY <1>11, <1>12 DEF Done
<1>14. \A f \in FieldsAt(m, x) : \E j \in 1 .. n : f = s[j]
  BY <1>1 DEF ToSet, n
<1>15. r \in A /\ \A f \in FieldsAt(m, x) : Leads(m[f], B \cup Grey(r.mem, O))
  BY <1>13, <1>14
<1> QED
  BY <1>15 DEF r, A, s

-----------------------------------------------------------------------------
(***************************************************************************)
(* The invariant.                                                          *)
(***************************************************************************)
Reached(m, O, W) ==
  {h \in O : \A S \in SUBSET O :
     (\A w \in W : Leads(w, S)) /\ (\A x \in S : \A f \in FieldsAt(m, x) : Leads(m[f], S)) => h \in S}

Dark(m, O) == Black(m, O) \cup Grey(m, O)

(* Where the program stands.                                                *)
ProgramInv ==
  phase \notin Ends =>
    /\ prog \in DOMAIN Programs
    /\ sp \in RESERVED .. STACK_MAX_SIZE
    /\ Executable(todo, sp + Len(extra_roots))
    /\ phase = "mutator" => extra_roots = <<>>
    /\ phase # "mutator" => I.op \in Allocators /\ Len(extra_roots) = PoppedBefore(I)

(* What the stack and the runtime hold.                                      *)
Rooted(S) == /\ UNBOXED(stack[0])
             /\ \A j \in 1 .. sp - 1 : Is(stack[j], S)
             /\ \A k \in 1 .. Len(extra_roots) : Is(extra_roots[k], S)

HeapInv ==
  phase \in {"mutator", "roots", "queue", "map"} =>
    /\ Sound(mem, AllObjects, heap.begin, heap.current)
    /\ Holding(mem, AllObjects, AllObjects)
    /\ Rooted(AllObjects)
    /\ DOMAIN ids = AllObjects
    /\ phase = "mutator" => Dark(mem, AllObjects) = {}

MarkInv ==
  phase \in {"roots", "queue"} =>
    /\ next \in 1 .. Len(Roots) + 1
    /\ \A h \in Black(mem, AllObjects) : \A f \in FieldsAt(mem, h) : Leads(mem[f], Dark(mem, AllObjects))
    /\ \A k \in 1 .. Len(Roots) :
         k < next \/ (k = next /\ phase = "queue") => Leads(Roots[k], Dark(mem, AllObjects))
    /\ Dark(mem, AllObjects) \subseteq Reached(mem, AllObjects, ToSet(Roots))
    /\ phase = "roots" => Grey(mem, AllObjects) = {}
    /\ phase = "queue" => /\ Queue(mem, AllObjects, heap.current, head, tail) /\ head < tail
                          /\ next <= Len(Roots)

(* Words of the marked objects of O that lie below a.                        *)
Kept(m, O, a) == Cardinality(Words(m, Below(Black(m, O), a)))

MapInv ==
  phase = "map" =>
    /\ Grey(mem, AllObjects) = {}
    /\ \A h \in Black(mem, AllObjects) : \A f \in FieldsAt(mem, h) : Leads(mem[f], Black(mem, AllObjects))
    /\ \A k \in 1 .. Len(Roots) : Leads(Roots[k], Black(mem, AllObjects))
    /\ live = Kept(mem, AllObjects, heap.current)
    /\ \A h \in Black(mem, AllObjects) :
         Holds(mem, h) = 8 * (heap.begin + Kept(mem, AllObjects, h))

Dest(m, h) == Rebased(Holds(m, h) \div 8)
Olds == {h - heap.begin + old.begin : h \in Black(mem, AllObjects)}

RoomInv ==
  phase \in {"fields", "stack", "move"} =>
    /\ live + Size(Requested(I)) <= heap.size
    /\ old.begin \in Nat /\ 8 * old.current < WORD
    /\ heap.current - heap.begin = old.current - old.begin

CopyInv ==
  phase \in {"fields", "stack"} =>
    /\ Sound(mem, AllObjects, heap.begin, heap.current)
    /\ Grey(mem, AllObjects) = {}
    /\ live = Kept(mem, AllObjects, heap.current)
    /\ \A h \in Black(mem, AllObjects) :
         Holds(mem, h) = 8 * (old.begin + Kept(mem, AllObjects, h))
    /\ DOMAIN ids = {Dest(mem, h) : h \in Black(mem, AllObjects)}
    /\ phase = "fields" => Holding(mem, Black(mem, AllObjects), Olds) /\ Rooted(Olds)
    /\ phase = "stack" =>
         /\ Holding(mem, Black(mem, AllObjects), DOMAIN ids)
         /\ UNBOXED(stack[0])
         /\ next \in 1 .. STACK_MAX_SIZE + 1
         /\ \A j \in 1 .. sp - 1 : Is(stack[j], IF j < next THEN DOMAIN ids ELSE Olds)
         /\ \A k \in 1 .. Len(extra_roots) : Is(extra_roots[k], Olds)

(* While the objects move: those from next on are as they were, those below  *)
(* Frontier are where they will be.                                         *)
Rest == Objects(mem, next, heap.current)
Frontier == heap.begin + live - Kept(mem, Rest, heap.current)
Done == {d \in DOMAIN ids : d < Frontier}

MoveInv ==
  phase = "move" =>
    /\ next \in heap.begin .. heap.current
    /\ Sound(mem, Rest, next, heap.current)
    /\ Grey(mem, Rest) = {}
    /\ Frontier \in heap.begin .. next
    /\ Sound(mem, Done, heap.begin, Frontier)
    /\ Dark(mem, Done) = {}
    /\ Holding(mem, Done, DOMAIN ids)
    /\ Holding(mem, Black(mem, Rest), DOMAIN ids)
    /\ \A h \in Black(mem, Rest) :
         Holds(mem, h) = 8 * (old.begin + Frontier - heap.begin + Kept(mem, Rest, h))
    /\ DOMAIN ids = Done \cup {Dest(mem, h) : h \in Black(mem, Rest)}
    /\ Rooted(DOMAIN ids)

TypeInv == TypeOK /\ 8 * (heap.begin + heap.size) < WORD

GCInv == TypeInv /\ ProgramInv /\ HeapInv /\ MarkInv /\ MapInv /\ RoomInv /\ CopyInv /\ MoveInv

-----------------------------------------------------------------------------
(***************************************************************************)
(* Facts about the invariant.                                              *)
(***************************************************************************)
LEMMA SoundObjects ==
  ASSUME NEW m, NEW O, NEW b, NEW c, Sound(m, O, b, c)
  PROVE  Objects(m, b, c) = O
<1>1. b \in Nat /\ c \in Nat /\ b <= c /\ Typed(m, b, c)
  BY SoundFacts
<1>2. Tiles(m, O, b, c)
  BY DEF Sound
<1> QED
  BY <1>1, <1>2, ObjectsTile

LEMMA ValidPointer ==
  ASSUME NEW m, NEW O, Sound(m, O, heap.begin, heap.current), NEW v \in O
  PROVE  /\ is_valid_heap_pointer(Content(v)) /\ ~ UNBOXED(Content(v))
         /\ HeaderOf(Content(v)) = v /\ v \in Nat
<1>1. heap.begin \in Nat /\ heap.current \in Nat /\ v \in Nat /\ v >= heap.begin
      /\ Content(v) <= 8 * heap.current
  BY SoundFacts
<1>2. Content(v) = 8 * (v + 2) /\ ~ UNBOXED(Content(v)) /\ HeaderOf(Content(v)) = v
  BY <1>1, ContentFacts
<1>3. 8 * heap.begin <= Content(v)
  BY <1>1, <1>2
<1> QED
  BY <1>1, <1>2, <1>3 DEF is_valid_heap_pointer

LEMMA RootsAre ==
  ASSUME NEW S, Rooted(S), sp \in Nat, sp >= 1, extra_roots \in Seq(Word)
  PROVE  /\ Len(Roots) \in Nat /\ Len(Roots) = sp - 1 + Len(extra_roots)
         /\ \A k \in 1 .. sp - 1 : Roots[k] = stack[k]
         /\ \A k \in 1 .. Len(extra_roots) : Roots[sp - 1 + k] = extra_roots[k]
         /\ \A k \in 1 .. Len(Roots) : Is(Roots[k], S)
         /\ ToSet(Roots) = {stack[k] : k \in 1 .. sp - 1} \cup {extra_roots[k] : k \in 1 .. Len(extra_roots)}
         /\ ToSet(Roots) = {Roots[k] : k \in 1 .. Len(Roots)}
<1> DEFINE n == sp - 1
           s == [j \in 1 .. n |-> stack[j]]
           e == Len(extra_roots)
<1>1. n \in Nat /\ e \in Nat
  OBVIOUS
<1>2. Roots = s \o extra_roots
  <2>1. [j \in 1 .. sp - FIRST_ROOT |-> stack[FIRST_ROOT + j - 1]] = s
    BY DEF FIRST_ROOT
  <2> QED
    BY <2>1 DEF Roots
<1>3. s \in Seq({stack[j] : j \in 1 .. n}) /\ Len(s) = n /\ \A k \in 1 .. n : s[k] = stack[k]
  BY <1>1
<1> HIDE DEF s, n
<1>4. /\ Len(s \o extra_roots) = n + e
      /\ DOMAIN (s \o extra_roots) = 1 .. n + e
      /\ \A k \in 1 .. n : (s \o extra_roots)[k] = stack[k]
      /\ \A k \in 1 .. e : (s \o extra_roots)[n + k] = extra_roots[k]
  <2> DEFINE U == {stack[j] : j \in 1 .. n} \cup Word
  <2>1. s \in Seq(U) /\ extra_roots \in Seq(U)
    BY <1>3
  <2> HIDE DEF U
  <2>2. /\ s \o extra_roots \in Seq(U) /\ Len(s \o extra_roots) = Len(s) + Len(extra_roots)
        /\ \A k \in 1 .. Len(s) + Len(extra_roots) :
             (s \o extra_roots)[k] = IF k <= Len(s) THEN s[k] ELSE extra_roots[k - Len(s)]
    BY <2>1
  <2>3. \A k \in 1 .. n : k \in 1 .. n + e /\ k <= n
    BY <1>1
  <2>4. \A k \in 1 .. e : n + k \in 1 .. n + e /\ ~ (n + k <= n) /\ n + k - n = k
    BY <1>1
  <2>5. DOMAIN (s \o extra_roots) = 1 .. n + e
    BY <1>1, <1>3, <2>2
  <2>6. \A k \in 1 .. n + e :
          (s \o extra_roots)[k] = IF k <= n THEN s[k] ELSE extra_roots[k - n]
    BY <1>3, <2>2
  <2>7. Len(s \o extra_roots) = n + e
    BY <1>3, <2>2
  <2> HIDE DEF e
  <2>8. \A k \in 1 .. n : (s \o extra_roots)[k] = stack[k]
    BY <1>3, <2>3, <2>6
  <2>9. ASSUME NEW k \in 1 .. e PROVE (s \o extra_roots)[n + k] = extra_roots[k]
    <3>1. n + k \in 1 .. n + e /\ ~ (n + k <= n) /\ (n + k) - n = k
      BY <1>1
    <3>2. (s \o extra_roots)[n + k] = extra_roots[(n + k) - n]
      BY <3>1, <2>6
    <3> QED
      BY <3>1, <3>2
  <2> QED
    BY <2>5, <2>7, <2>8, <2>9
<1> HIDE DEF e
<1>5. ASSUME NEW k \in 1 .. n + e PROVE k \in 1 .. n \/ \E j \in 1 .. e : k = n + j
  <2>1. k \notin 1 .. n => k - n \in 1 .. e /\ k = n + (k - n)
    BY <1>1
  <2> QED
    BY <2>1
<1>6. \A k \in 1 .. Len(Roots) : Is(Roots[k], S)
  BY <1>2, <1>4, <1>5 DEF Rooted, n, e
<1>7. ToSet(Roots) = {Roots[k] : k \in 1 .. Len(Roots)}
  BY <1>2, <1>4 DEF ToSet
<1>8. {Roots[k] : k \in 1 .. Len(Roots)} = {stack[k] : k \in 1 .. n} \cup {extra_roots[k] : k \in 1 .. e}
  <2>1. \A k \in 1 .. n : k \in 1 .. n + e
    BY <1>1
  <2>2. \A k \in 1 .. e : n + k \in 1 .. n + e
    BY <1>1
  <2>3. \A k \in 1 .. n + e : Roots[k] \in {stack[j] : j \in 1 .. n} \cup {extra_roots[j] : j \in 1 .. e}
    BY <1>2, <1>4, <1>5
  <2>4. \A k \in 1 .. n : stack[k] \in {Roots[j] : j \in 1 .. n + e}
    BY <1>2, <1>4, <2>1
  <2>5. \A k \in 1 .. e : extra_roots[k] \in {Roots[j] : j \in 1 .. n + e}
    BY <1>2, <1>4, <2>2
  <2>6. Len(Roots) = n + e
    BY <1>2, <1>4
  <2> QED
    BY <2>3, <2>4, <2>5, <2>6
<1>9. \A k \in 1 .. n : Roots[k] = stack[k]
  BY <1>2, <1>4
<1>10. \A k \in 1 .. e : Roots[n + k] = extra_roots[k]
  BY <1>2, <1>4
<1>11. Len(Roots) \in Nat /\ Len(Roots) = n + e
  BY <1>1, <1>2, <1>4
<1>12. ToSet(Roots) = {stack[k] : k \in 1 .. n} \cup {extra_roots[k] : k \in 1 .. e}
  BY <1>7, <1>8
<1> QED
  BY <1>6, <1>7, <1>9, <1>10, <1>11, <1>12 DEF n, e

(* What all that hold the roots hold.                                        *)
LEMMA ReachedHolds ==
  ASSUME NEW m, NEW O \in SUBSET Nat, NEW W
  PROVE  /\ \A w \in W : Is(w, O) => Leads(w, Reached(m, O, W))
         /\ \A x \in Reached(m, O, W) : \A f \in FieldsAt(m, x) :
              Is(m[f], O) => Leads(m[f], Reached(m, O, W))
<1> DEFINE Closed(S) == /\ \A w \in W : Leads(w, S)
                        /\ \A x \in S : \A f \in FieldsAt(m, x) : Leads(m[f], S)
<1>1. \A h : h \in Reached(m, O, W) <=> h \in O /\ \A S \in SUBSET O : Closed(S) => h \in S
  BY DEF Reached
<1>2. ASSUME NEW w, Is(w, O), \A S \in SUBSET O : Closed(S) => Leads(w, S)
      PROVE  Leads(w, Reached(m, O, W))
  <2>1. CASE UNBOXED(w)
    BY <2>1 DEF Leads
  <2>2. CASE ~ UNBOXED(w)
    <3>1. PICK h \in O : w = Content(h)
      BY <1>2, <2>2 DEF Is
    <3>2. HeaderOf(w) = h
      BY <1>2, <3>1, ContentFacts
    <3>3. \A S \in SUBSET O : Closed(S) => h \in S
      BY <1>2, <2>2, <3>2 DEF Leads
    <3> QED
      BY <1>1, <3>2, <3>3 DEF Leads
  <2> QED
    BY <2>1, <2>2
<1>3. \A w \in W : Is(w, O) => Leads(w, Reached(m, O, W))
  BY <1>2
<1>4. ASSUME NEW x \in Reached(m, O, W), NEW f \in FieldsAt(m, x), Is(m[f], O)
      PROVE  Leads(m[f], Reached(m, O, W))
  <2>1. \A S \in SUBSET O : Closed(S) => x \in S
    BY <1>1
  <2>2. \A S \in SUBSET O : Closed(S) => Leads(m[f], S)
    BY <2>1
  <2> QED
    BY <1>2, <1>4, <2>2
<1> QED
  BY <1>3, <1>4

LEMMA ReachedSame ==
  ASSUME NEW m, NEW O, NEW b, NEW c, Sound(m, O, b, c), NEW n, SameHeap(m, n, O), NEW W
  PROVE  Reached(n, O, W) = Reached(m, O, W)
<1>1. \A x \in O : FieldsAt(n, x) = FieldsAt(m, x) /\ \A f \in FieldsAt(m, x) : n[f] = m[f]
  BY SameHeapFacts
<1>2. ASSUME NEW S \in SUBSET O
      PROVE  (\A x \in S : \A f \in FieldsAt(n, x) : Leads(n[f], S))
               <=> (\A x \in S : \A f \in FieldsAt(m, x) : Leads(m[f], S))
  BY <1>1
<1> QED
  BY <1>2 DEF Reached

LEMMA LeadsMore ==
  ASSUME NEW w, NEW S, NEW T, S \subseteq T, Leads(w, S)
  PROVE  Leads(w, T)
BY DEF Leads

LEMMA IsMore ==
  ASSUME NEW w, NEW S, NEW T, S \subseteq T, Is(w, S)
  PROVE  Is(w, T)
BY DEF Is

-----------------------------------------------------------------------------
(***************************************************************************)
(* The mark phase.                                                         *)
(***************************************************************************)

(* What a step of the marking that writes forward words leaves as it was.    *)
LEMMA HeapStep ==
  ASSUME TypeInv, ProgramInv, HeapInv, phase \in {"roots", "queue"},
         phase' \in {"roots", "queue", "map"}, SameHeap(mem, mem', AllObjects),
         UNCHANGED <<prog, program, heap, mapped, old, ids>>,
         next' \in Nat, head' \in Nat, tail' \in Nat, live' \in Nat
  PROVE  /\ TypeInv' /\ ProgramInv' /\ HeapInv' /\ RoomInv' /\ CopyInv' /\ MoveInv'
         /\ AllObjects' = AllObjects /\ Roots' = Roots
         /\ Sound(mem', AllObjects, heap.begin, heap.current)
<1>1. /\ Sound(mem, AllObjects, heap.begin, heap.current)
      /\ Holding(mem, AllObjects, AllObjects) /\ Rooted(AllObjects) /\ DOMAIN ids = AllObjects
  BY DEF HeapInv
<1>2. /\ stack' = stack /\ sp' = sp /\ extra_roots' = extra_roots /\ todo' = todo /\ heap' = heap
      /\ prog' = prog /\ mapped' = mapped /\ old' = old /\ ids' = ids
  BY DEF program
<1>3. Sound(mem', AllObjects, heap.begin, heap.current)
  BY <1>1, SameHeapFacts
<1>4. AllObjects' = AllObjects
  <2>1. Objects(mem', heap.begin, heap.current) = AllObjects
    BY <1>3, SoundObjects
  <2> QED
    BY <1>2, <2>1 DEF AllObjects
<1>5. TypeInv'
  <2>1. mem' \in [heap.begin .. heap.begin + heap.size - 1 -> Word]
    BY DEF SameHeap, TypeInv, TypeOK
  <2>2. phase' \in {"mutator"} \cup Collecting \cup Ends
    BY DEF Collecting
  <2> QED
    BY <1>2, <2>1, <2>2 DEF TypeInv, TypeOK
<1>6. ProgramInv'
  BY <1>2 DEF ProgramInv, Ends, I
<1>7. Holding(mem', AllObjects, AllObjects)
  <2>1. \A h \in AllObjects : FieldsAt(mem', h) = FieldsAt(mem, h)
                              /\ \A f \in FieldsAt(mem, h) : mem'[f] = mem[f]
    BY <1>1, SameHeapFacts
  <2> QED
    BY <1>1, <2>1 DEF Holding
<1>8. HeapInv'
  <2>1. Rooted(AllObjects)'
    BY <1>1, <1>2, <1>4 DEF Rooted
  <2> QED
    BY <1>1, <1>2, <1>3, <1>4, <1>7, <2>1 DEF HeapInv
<1>9. Roots' = Roots
  BY <1>2 DEF Roots
<1> QED
  BY <1>3, <1>4, <1>5, <1>6, <1>8, <1>9 DEF RoomInv, CopyInv, MoveInv

LEMMA RootsFacts ==
  ASSUME TypeInv, ProgramInv, phase \notin Ends, NEW S, Rooted(S)
  PROVE  /\ Len(Roots) \in Nat
         /\ \A k \in 1 .. Len(Roots) : Is(Roots[k], S)
         /\ ToSet(Roots) = {stack[k] : k \in 1 .. sp - 1} \cup {extra_roots[k] : k \in 1 .. Len(extra_roots)}
         /\ ToSet(Roots) = {Roots[k] : k \in 1 .. Len(Roots)}
<1>1. sp \in Nat /\ sp >= 1
  BY SizesAssumption DEF ProgramInv, TypeInv, TypeOK
<1>2. extra_roots \in Seq(Word)
  BY DEF TypeInv, TypeOK
<1> QED
  BY <1>1, <1>2, RootsAre

(* An empty queue can be opened anywhere: here, at the heap's first object.   *)
LEMMA EmptyQueue ==
  ASSUME NEW m, NEW O, NEW b, NEW c, Sound(m, O, b, c), Grey(m, O) = {}
  PROVE  Queue(m, O, c, b, b)
<1>1. b \in Nat /\ c \in Nat /\ b <= c /\ O \subseteq Nat /\ (b < c => b \in O) /\ \A h \in O : h >= b
  BY SoundFacts
<1>2. b \in O \cup {c}
  BY <1>1
<1>3. Between(O, b, b) = {} /\ Below(O, b) = {}
  <2>1. \A h \in O : h \in Nat /\ ~ (h < b)
    BY <1>1
  <2>2. \A h : h \notin Between(O, b, b)
    BY <1>1, <2>1 DEF Between
  <2>3. \A h : h \notin Below(O, b)
    BY <2>1 DEF Below
  <2> QED
    BY <2>2, <2>3
<1>4. Black(m, O) \cup Grey(m, O) \in SUBSET O
  BY DEF Black, Grey
<1>5. Cardinality(Black(m, O) \cup Grey(m, O)) \in Nat
  BY <1>4, FiniteObjects
<1>6. Cardinality(Below(O, b)) = 0
  BY <1>3, FS_EmptySet
<1>7. Cardinality(Below(O, b)) <= Cardinality(Black(m, O) \cup Grey(m, O))
  BY <1>5, <1>6
<1> QED
  BY <1>1, <1>2, <1>3, <1>7 DEF Queue

LEMMA MarkRootKeeps ==
  ASSUME GCInv, MarkRoot, prog' = prog
  PROVE  GCInv' /\ SameHeap(mem, mem', AllObjects)
<1> DEFINE O == AllObjects
           p == Roots[next]
           R == Reached(mem, O, ToSet(Roots))
<1>1. /\ TypeInv /\ ProgramInv /\ HeapInv /\ MarkInv /\ phase = "roots"
      /\ next <= Len(Roots) /\ UNCHANGED <<prog, program, heap, mapped, live, old, ids>>
      /\ next \in Nat /\ head \in Nat /\ tail \in Nat /\ live \in Nat
  BY DEF GCInv, MarkRoot, TypeInv, TypeOK
<1>2. /\ Sound(mem, O, heap.begin, heap.current)
      /\ Holding(mem, O, O) /\ Rooted(O)
  BY <1>1 DEF HeapInv
<1>3. /\ Len(Roots) \in Nat /\ next \in 1 .. Len(Roots) /\ Is(p, O)
      /\ \A k \in 1 .. Len(Roots) : Is(Roots[k], O)
      /\ p \in ToSet(Roots)
  <2>1. /\ Len(Roots) \in Nat /\ \A k \in 1 .. Len(Roots) : Is(Roots[k], O)
        /\ ToSet(Roots) = {Roots[k] : k \in 1 .. Len(Roots)}
    BY <1>1, <1>2, RootsFacts DEF Ends
  <2>2. next \in 1 .. Len(Roots)
    BY <1>1, <2>1 DEF MarkInv
  <2> QED
    BY <2>1, <2>2
<1>4. /\ \A h \in Black(mem, O) : \A f \in FieldsAt(mem, h) : Leads(mem[f], Dark(mem, O))
      /\ \A k \in 1 .. Len(Roots) : k < next => Leads(Roots[k], Dark(mem, O))
      /\ Dark(mem, O) \subseteq R
      /\ Grey(mem, O) = {}
  BY <1>1 DEF MarkInv
<1>5. CASE ~ is_valid_heap_pointer(p) \/ is_marked(mem, HeaderOf(p))
  <2>1. next' = next + 1 /\ UNCHANGED <<mem, phase, head, tail>>
    BY <1>5 DEF MarkRoot
  <2>2. SameHeap(mem, mem', O)
    BY <1>2, <2>1 DEF SameHeap, Sound, IsMemory
  <2>3. /\ TypeInv' /\ ProgramInv' /\ HeapInv' /\ RoomInv' /\ CopyInv' /\ MoveInv'
        /\ AllObjects' = O /\ Roots' = Roots
    BY <1>1, <2>1, <2>2, HeapStep
  <2>4. Leads(p, Dark(mem, O))
    <3>1. CASE UNBOXED(p)
      BY <3>1 DEF Leads
    <3>2. CASE ~ UNBOXED(p)
      <4>1. PICK v \in O : p = Content(v)
        BY <1>3, <3>2 DEF Is
      <4>2. is_valid_heap_pointer(Content(v)) /\ HeaderOf(Content(v)) = v
        BY <1>2, ValidPointer
      <4>3. is_marked(mem, v)
        BY <1>5, <4>1, <4>2
      <4> QED
        BY <4>1, <4>2, <4>3 DEF Leads, Dark, Black
    <3> QED
      BY <3>1, <3>2
  <2>5. MarkInv'
    <3>1. next' \in 1 .. Len(Roots) + 1
      BY <1>3, <2>1
    <3>2. \A k \in 1 .. Len(Roots) : k < next' => Leads(Roots[k], Dark(mem, O))
      <4>1. \A k \in 1 .. Len(Roots) : k < next' => k < next \/ k = next
        BY <1>3, <2>1
      <4> QED
        BY <1>4, <2>4, <4>1
    <3> HIDE DEF O
    <3> QED
      BY <1>1, <1>4, <2>1, <2>3, <3>1, <3>2 DEF MarkInv
  <2> QED
    BY <1>1, <2>1, <2>2, <2>3, <2>5 DEF GCInv, MapInv
<1>6. CASE ~ (~ is_valid_heap_pointer(p) \/ is_marked(mem, HeaderOf(p)))
  <2>1. /\ mem' = queue_enqueue(mem, heap.begin, p)
        /\ head' = heap.begin /\ tail' = heap.begin + Size(mem[heap.begin])
        /\ phase' = "queue" /\ next' = next
    BY <1>6 DEF MarkRoot
  <2>2. PICK v \in O : p = Content(v)
    BY <1>3, <1>6 DEF Is, is_valid_heap_pointer
  <2>3. HeaderOf(p) = v /\ v \in Nat /\ ~ UNBOXED(p)
    BY <1>2, <2>2, ValidPointer
  <2>4. v \notin Black(mem, O) \cup Grey(mem, O)
    BY <1>4, <1>6, <2>3 DEF Black
  <2>5. Queue(mem, O, heap.current, heap.begin, heap.begin)
    BY <1>2, <1>4, EmptyQueue
  <2>6. /\ SameHeap(mem, mem', O)
        /\ Black(mem', O) = Black(mem, O) /\ Grey(mem', O) = Grey(mem, O) \cup {v}
        /\ Queue(mem', O, heap.current, heap.begin, Behind(mem, heap.begin))
    BY <1>2, <2>1, <2>2, <2>4, <2>5, EnqueueKeeps
  <2>7. heap.begin \in O /\ heap.begin \in Nat
    BY <1>2, <2>4, <2>5, RoomInQueue
  <2>8. tail' = Behind(mem, heap.begin) /\ tail' \in Nat /\ head' < tail'
    <3>1. Behind(mem, heap.begin) \in Nat /\ Behind(mem, heap.begin) >= heap.begin + 2
      BY <1>2, <2>7, SoundFacts
    <3> QED
      BY <2>1, <2>7, <3>1 DEF Behind
  <2>9. /\ TypeInv' /\ ProgramInv' /\ HeapInv' /\ RoomInv' /\ CopyInv' /\ MoveInv'
        /\ AllObjects' = O /\ Roots' = Roots
    <3>1. next' \in Nat /\ head' \in Nat /\ tail' \in Nat /\ live' \in Nat
      BY <1>1, <2>1, <2>7, <2>8
    <3> QED
      BY <1>1, <2>1, <2>6, <3>1, HeapStep
  <2>10. Dark(mem', O) = Dark(mem, O) \cup {v}
    BY <2>6 DEF Dark
  <2>11. v \in R
    <3>1. O \in SUBSET Nat
      BY <1>2, SoundFacts
    <3>2. Leads(p, R)
      BY <1>3, <3>1, ReachedHolds
    <3> QED
      BY <2>3, <3>2 DEF Leads
  <2>12. Reached(mem', O, ToSet(Roots)) = R
    BY <1>2, <2>6, ReachedSame
  <2>13. \A h \in Black(mem', O) : \A f \in FieldsAt(mem', h) : Leads(mem'[f], Dark(mem', O))
    <3>1. \A h \in O : FieldsAt(mem', h) = FieldsAt(mem, h)
                       /\ \A f \in FieldsAt(mem, h) : mem'[f] = mem[f]
      BY <1>2, <2>6, SameHeapFacts
    <3>2. \A h \in Black(mem, O) : h \in O
      BY DEF Black
    <3> QED
      BY <1>4, <2>6, <2>10, <3>1, <3>2 DEF Leads
  <2>14. \A k \in 1 .. Len(Roots) : k < next \/ k = next => Leads(Roots[k], Dark(mem', O))
    BY <1>4, <2>3, <2>10 DEF Leads
  <2>15. MarkInv'
    <3>1. Dark(mem', O) \subseteq Reached(mem', O, ToSet(Roots))
      BY <1>4, <2>10, <2>11, <2>12
    <3>2. next' \in 1 .. Len(Roots) + 1 /\ next' <= Len(Roots)
      BY <1>3, <2>1
    <3>3. heap' = heap
      BY <1>1
    <3> HIDE DEF O
    <3> QED
      BY <2>1, <2>6, <2>8, <2>9, <2>13, <2>14, <3>1, <3>2, <3>3 DEF MarkInv
  <2> QED
    BY <2>1, <2>6, <2>9, <2>15 DEF GCInv, MapInv
<1> QED
  BY <1>5, <1>6

LEMMA DequeueStep ==
  ASSUME GCInv, Dequeue, prog' = prog
  PROVE  GCInv' /\ SameHeap(mem, mem', AllObjects)
<1> DEFINE O == AllObjects
           c == heap.current
           R == Reached(mem, O, ToSet(Roots))
           h == HeaderOf(Holds(mem, head))
           n == mark_object(make_dequeued(mem, h), h)
           q == [mem |-> n, tail |-> tail]
           r == EnterAll(q, Fields(mem, h))
           G == Grey(mem, O) \ {h}
           B == Black(mem, O) \cup {h}
           lo == Behind(mem, head)
<1>1. /\ TypeInv /\ ProgramInv /\ HeapInv /\ MarkInv /\ phase = "queue"
      /\ UNCHANGED <<prog, program, heap, mapped, live, old, ids>>
      /\ next \in Nat /\ head \in Nat /\ tail \in Nat /\ live \in Nat
  BY DEF GCInv, Dequeue, TypeInv, TypeOK
<1>2. /\ Sound(mem, O, heap.begin, c)
      /\ Holding(mem, O, O) /\ Rooted(O)
  BY <1>1 DEF HeapInv
<1>3. /\ next \in 1 .. Len(Roots) + 1 /\ next <= Len(Roots)
      /\ \A x \in Black(mem, O) : \A f \in FieldsAt(mem, x) : Leads(mem[f], Dark(mem, O))
      /\ \A k \in 1 .. Len(Roots) : k < next \/ k = next => Leads(Roots[k], Dark(mem, O))
      /\ Dark(mem, O) \subseteq R
      /\ Queue(mem, O, c, head, tail) /\ head < tail
  BY <1>1 DEF MarkInv
<1>4. /\ mem' = r.mem /\ tail' = r.tail /\ head' = head + Size(mem[head])
      /\ phase' = IF head' = tail' THEN "roots" ELSE "queue"
      /\ next' = IF head' = tail' THEN next + 1 ELSE next
  BY DEF Dequeue, Holds
<1>5. /\ head \in O /\ h \in O /\ h \in Grey(mem, O)
      /\ SameHeap(mem, n, O)
      /\ Black(n, O) = B /\ Grey(n, O) = G
      /\ Queue(n, O, c, lo, tail)
  BY <1>2, <1>3, DequeueKeeps
<1>6. head' = lo /\ lo \in Nat
  <2>1. Behind(mem, head) \in Nat
    BY <1>2, <1>5, SoundFacts
  <2> QED
    BY <1>4, <2>1 DEF Behind
<1>7. O \in SUBSET Nat
  BY <1>2, SoundFacts
<1>8. Grey(mem, O) \subseteq R /\ h \in R
  BY <1>3, <1>5 DEF Dark
<1>9. q \in Marking(mem, O, c, lo, B, G, R)
  <2>1. n \in [DOMAIN mem -> Word]
    BY <1>5 DEF SameHeap
  <2>2. /\ q.mem = n /\ q.tail = tail /\ q \in [mem : [DOMAIN mem -> Word], tail : Nat]
    BY <1>1, <2>1
  <2>3. G \subseteq R
    BY <1>8
  <2> HIDE DEF q, n, G, B, R, O, c, lo
  <2> QED
    BY <1>5, <2>2, <2>3 DEF Marking
<1>10. \A f \in FieldsAt(mem, h) : Leads(mem[f], R)
  <2>1. \A x \in R : \A f \in FieldsAt(mem, x) : Is(mem[f], O) => Leads(mem[f], R)
    BY <1>7, ReachedHolds
  <2>2. \A f \in FieldsAt(mem, h) : Is(mem[f], O)
    BY <1>2, <1>5 DEF Holding
  <2> QED
    BY <1>8, <2>1, <2>2
<1>11. /\ r \in Marking(mem, O, c, lo, B, G, R)
       /\ \A f \in FieldsAt(mem, h) : Leads(mem[f], B \cup Grey(r.mem, O))
  <2> HIDE DEF q, n, G, B, R, lo, h
  <2> QED
    BY <1>2, <1>5, <1>9, <1>10, FieldsEnter
<1> HIDE DEF q, n, r
<1>12. /\ SameHeap(mem, mem', O) /\ Queue(mem', O, c, lo, tail') /\ tail' \in Nat
       /\ Black(mem', O) = B /\ G \subseteq Grey(mem', O) /\ Grey(mem', O) \subseteq R
       /\ \A f \in FieldsAt(mem, h) : Leads(mem[f], B \cup Grey(mem', O))
  BY <1>4, <1>11 DEF Marking
<1>13. Dark(mem, O) \subseteq Dark(mem', O) /\ Dark(mem', O) \subseteq R
       /\ Dark(mem', O) = B \cup Grey(mem', O)
  BY <1>3, <1>8, <1>12 DEF Dark
<1>14. /\ TypeInv' /\ ProgramInv' /\ HeapInv' /\ RoomInv' /\ CopyInv' /\ MoveInv'
       /\ AllObjects' = O /\ Roots' = Roots
  <2>1. next' \in Nat /\ head' \in Nat /\ live' \in Nat /\ phase' \in {"roots", "queue", "map"}
    BY <1>1, <1>4, <1>6
  <2> QED
    BY <1>1, <1>12, <2>1, HeapStep
<1>15. \A x \in Black(mem', O) : \A f \in FieldsAt(mem', x) : Leads(mem'[f], Dark(mem', O))
  <2>1. \A x \in O : FieldsAt(mem', x) = FieldsAt(mem, x)
                     /\ \A f \in FieldsAt(mem, x) : mem'[f] = mem[f]
    BY <1>2, <1>12, SameHeapFacts
  <2>2. \A x \in Black(mem, O) : x \in O
    BY DEF Black
  <2>3. \A x \in B : \A f \in FieldsAt(mem, x) : Leads(mem[f], Dark(mem', O))
    <3>1. \A x \in Black(mem, O) : \A f \in FieldsAt(mem, x) : Leads(mem[f], Dark(mem', O))
      BY <1>3, <1>13 DEF Leads
    <3>2. \A f \in FieldsAt(mem, h) : Leads(mem[f], Dark(mem', O))
      BY <1>12, <1>13
    <3> QED
      BY <3>1, <3>2
  <2> HIDE DEF O, h
  <2> QED
    BY <1>5, <1>12, <2>1, <2>2, <2>3
<1>16. \A k \in 1 .. Len(Roots) : k < next \/ k = next => Leads(Roots[k], Dark(mem', O))
  BY <1>3, <1>13 DEF Leads
<1>17. Reached(mem', O, ToSet(Roots)) = R
  BY <1>2, <1>12, ReachedSame
<1>18. Len(Roots) \in Nat
  BY <1>1, <1>2, RootsFacts DEF Ends
<1>18a. SameHeap(mem, mem', AllObjects)
  BY <1>12
<1> HIDE DEF O, h, R, B, G, lo, c
<1>19. lo <= tail'
  BY <1>12 DEF Queue
<1>20. CASE head' = tail'
  <2>1. phase' = "roots" /\ next' = next + 1
    BY <1>4, <1>20
  <2>2. Grey(mem', O) = {}
    <3>1. Between(O, lo, tail') = {}
      <4>1. \A x : x \notin Between(O, lo, tail')
        BY <1>6, <1>7, <1>20 DEF Between
      <4> QED
        BY <4>1
    <3> QED
      BY <1>12, <3>1 DEF Queue
  <2>3. \A k \in 1 .. Len(Roots) : k < next' => k < next \/ k = next
    BY <1>1, <1>18, <2>1
  <2>4. next' \in 1 .. Len(Roots) + 1
    BY <1>3, <1>18, <2>1
  <2>5. MarkInv'
    BY <1>13, <1>14, <1>15, <1>16, <1>17, <2>1, <2>2, <2>3, <2>4 DEF MarkInv
  <2> QED
    BY <1>14, <1>18a, <2>1, <2>5 DEF GCInv, MapInv
<1>21. CASE head' # tail'
  <2>1. phase' = "queue" /\ next' = next
    BY <1>4, <1>21
  <2>2. head' < tail'
    BY <1>6, <1>12, <1>19, <1>21
  <2>3. Queue(mem', O, heap'.current, head', tail')
    BY <1>1, <1>6, <1>12 DEF c
  <2>4. MarkInv'
    BY <1>3, <1>13, <1>14, <1>15, <1>16, <1>17, <2>1, <2>2, <2>3 DEF MarkInv
  <2> QED
    BY <1>14, <1>18a, <2>1, <2>4 DEF GCInv, MapInv
<1> QED
  BY <1>20, <1>21

-----------------------------------------------------------------------------
(***************************************************************************)
(* How many words the objects of a set take below an address.               *)
(***************************************************************************)
Taken(m, B, a) == Cardinality(Words(m, Below(B, a)))

LEMMA WordsBelow ==
  ASSUME NEW m, NEW O, NEW b, NEW c, Sound(m, O, b, c), NEW B \in SUBSET O
  PROVE  /\ \A a : IsFiniteSet(Words(m, Below(B, a))) /\ Taken(m, B, a) \in Nat
         /\ \A a \in O \cup {c} : Words(m, Below(B, a)) \subseteq b .. a - 1
         /\ \A w, a : w \in Words(m, Below(B, a)) <=>
                        \E h \in B : h < a /\ w \in Int /\ h <= w /\ w < Behind(m, h)
<1>1. /\ b \in Nat /\ c \in Nat /\ O \subseteq Nat
      /\ \A h \in O : /\ h \in Nat /\ h >= b /\ h < c /\ Behind(m, h) \in Nat /\ Behind(m, h) <= c
                      /\ m[h] \in Nat
      /\ \A g, h \in O : g < h => Behind(m, g) <= h
  BY SoundFacts
<1>2. \A w, a : w \in Words(m, Below(B, a)) <=>
                  \E h \in B : h < a /\ w \in Int /\ h <= w /\ w < Behind(m, h)
  <2>1. \A h \in B : \A w : w \in h .. h + Size(m[h]) - 1 <=> w \in Int /\ h <= w /\ w < Behind(m, h)
    <3>1. \A h \in B : h \in Nat /\ Size(m[h]) \in Nat /\ Behind(m, h) = h + Size(m[h])
      BY <1>1, SizeFacts DEF Behind
    <3> QED
      BY <3>1
  <2> QED
    BY <2>1 DEF Words, Below
<1>3. \A a \in O \cup {c} : Words(m, Below(B, a)) \subseteq b .. a - 1
  <2>1. ASSUME NEW a \in O \cup {c}, NEW w, w \in Words(m, Below(B, a)) PROVE w \in b .. a - 1
    <3>1. PICK h \in B : h < a /\ w \in Int /\ h <= w /\ w < Behind(m, h)
      BY <1>2, <2>1
    <3>2. Behind(m, h) <= a /\ h >= b /\ h \in Nat /\ Behind(m, h) \in Nat /\ a \in Nat
      BY <1>1, <3>1
    <3> QED
      BY <1>1, <3>1, <3>2
  <2> QED
    BY <2>1
<1>4. ASSUME NEW a PROVE IsFiniteSet(Words(m, Below(B, a))) /\ Taken(m, B, a) \in Nat
  <2>1. \A w \in Words(m, Below(B, a)) : w \in b .. c - 1
    <3>1. ASSUME NEW w \in Words(m, Below(B, a)) PROVE w \in b .. c - 1
      <4>1. PICK h \in B : h < a /\ w \in Int /\ h <= w /\ w < Behind(m, h)
        BY <1>2
      <4> QED
        BY <1>1, <4>1
    <3> QED
      BY <3>1
  <2>2. IsFiniteSet(b .. c - 1)
    BY <1>1, FS_Interval
  <2> QED
    BY <2>1, <2>2, FS_Subset, FS_CardinalityType DEF Taken
<1> QED
  BY <1>2, <1>3, <1>4

LEMMA TakenNext ==
  ASSUME NEW m, NEW O, NEW b, NEW c, Sound(m, O, b, c), NEW B \in SUBSET O, NEW h \in O
  PROVE  Taken(m, B, Behind(m, h)) = Taken(m, B, h) + (IF h \in B THEN Size(m[h]) ELSE 0)
<1>1. /\ O \subseteq Nat
      /\ \A g \in O : g \in Nat /\ Behind(m, g) \in Nat /\ Behind(m, g) >= g + 2
      /\ \A g, k \in O : g < k => Behind(m, g) <= k
      /\ m[h] \in Nat /\ h >= b /\ b \in Nat
  BY SoundFacts
<1>2. \A g \in B : g < Behind(m, h) <=> g < h \/ g = h
  BY <1>1
<1> DEFINE W == Words(m, Below(B, h))
           V == Words(m, Below(B, Behind(m, h)))
<1>3. /\ IsFiniteSet(W) /\ Cardinality(W) \in Nat /\ W \subseteq b .. h - 1
      /\ \A w : w \in W <=> \E g \in B : g < h /\ w \in Int /\ g <= w /\ w < Behind(m, g)
      /\ \A w : w \in V <=>
                  \E g \in B : g < Behind(m, h) /\ w \in Int /\ g <= w /\ w < Behind(m, g)
  <2>1. h \in O \cup {c}
    OBVIOUS
  <2> QED
    BY <2>1, WordsBelow DEF Taken
<1>4. Taken(m, B, h) = Cardinality(W) /\ Taken(m, B, Behind(m, h)) = Cardinality(V)
  BY DEF Taken
<1>5. Size(m[h]) \in Nat /\ Behind(m, h) = h + Size(m[h]) /\ Size(m[h]) >= 2
  BY <1>1, SizeFacts DEF Behind
<1> HIDE DEF W, V
<1>6. CASE h \notin B
  <2>1. \A w : w \in V <=> w \in W
    BY <1>2, <1>3, <1>6
  <2>2. V = W
    BY <2>1
  <2> QED
    BY <1>3, <1>4, <1>6, <2>2
<1>7. CASE h \in B
  <2> DEFINE J == h .. Behind(m, h) - 1
  <2>1. \A w : w \in V <=> w \in W \/ w \in J
    <3>1. \A w : w \in J <=> w \in Int /\ h <= w /\ w < Behind(m, h)
      BY <1>1
    <3> HIDE DEF J
    <3> QED
      BY <1>2, <1>3, <1>7, <3>1
  <2>2. V = W \cup J
    BY <2>1
  <2>3. W \cap J = {}
    <3>1. \A w \in W : w \notin J
      BY <1>1, <1>3
    <3> QED
      BY <3>1
  <2>4. IsFiniteSet(J) /\ Cardinality(J) = Size(m[h])
    <3>1. h \in Int /\ Behind(m, h) - 1 \in Int /\ ~ (h > Behind(m, h) - 1)
          /\ Behind(m, h) - 1 - h + 1 = Size(m[h])
      BY <1>1, <1>5
    <3> QED
      BY <3>1, FS_Interval
  <2> HIDE DEF J
  <2>5. Cardinality(V) = Cardinality(W) + Cardinality(J) - Cardinality(W \cap J)
    BY <1>3, <2>2, <2>4, FS_Union
  <2>6. Cardinality(W \cap J) = 0
    BY <2>3, FS_EmptySet
  <2> QED
    BY <1>3, <1>4, <1>5, <1>7, <2>4, <2>5, <2>6
<1> QED
  BY <1>6, <1>7

LEMMA TakenBetween ==
  ASSUME NEW m, NEW O, NEW b, NEW c, Sound(m, O, b, c), NEW B \in SUBSET O,
         NEW a \in O \cup {c}, NEW d \in O \cup {c}, a <= d
  PROVE  /\ Taken(m, B, a) <= Taken(m, B, d)
         /\ Taken(m, B, d) <= Taken(m, B, a) + (d - a)
<1>1. /\ b \in Nat /\ c \in Nat
      /\ \A g \in O : g \in Nat /\ Behind(m, g) \in Nat /\ Behind(m, g) >= g + 2 /\ Behind(m, g) <= c
      /\ \A g, k \in O : g < k => Behind(m, g) <= k
  BY SoundFacts
<1>2. /\ b \in Nat /\ c \in Nat /\ a \in Nat /\ d \in Nat
      /\ \A g \in O : g \in Nat /\ Behind(m, g) \in Nat /\ Behind(m, g) >= g + 2 /\ Behind(m, g) <= c
      /\ \A g, k \in O : g < k => Behind(m, g) <= k
  BY <1>1
<1> DEFINE W == Words(m, Below(B, a))
           V == Words(m, Below(B, d))
           J == a .. d - 1
<1>3. /\ IsFiniteSet(W) /\ Cardinality(W) \in Nat /\ IsFiniteSet(V) /\ Cardinality(V) \in Nat
      /\ \A w : w \in W <=> \E g \in B : g < a /\ w \in Int /\ g <= w /\ w < Behind(m, g)
      /\ \A w : w \in V <=> \E g \in B : g < d /\ w \in Int /\ g <= w /\ w < Behind(m, g)
  BY WordsBelow DEF Taken
<1>4. IsFiniteSet(J) /\ Cardinality(J) = d - a
  <2>1. a \in Int /\ d - 1 \in Int /\ (IF a > d - 1 THEN 0 ELSE d - 1 - a + 1) = d - a
    BY <1>2
  <2> HIDE DEF W, V
  <2> QED
    BY <2>1, FS_Interval
<1>5. \A w : w \in J <=> w \in Int /\ a <= w /\ w < d
  BY <1>2
<1>6. Taken(m, B, a) = Cardinality(W) /\ Taken(m, B, d) = Cardinality(V)
  BY DEF Taken
<1> HIDE DEF W, V, J
<1>7. W \in SUBSET V
  <2>1. \A g \in B : g < a => g < d
    BY <1>2
  <2> QED
    BY <1>3, <2>1
<1>8. Cardinality(W) <= Cardinality(V)
  BY <1>3, <1>7, FS_Subset
<1>9. V \in SUBSET (W \cup J)
  <2>1. ASSUME NEW w \in V PROVE w \in W \cup J
    <3>1. PICK g \in B : g < d /\ w \in Int /\ g <= w /\ w < Behind(m, g)
      BY <1>3
    <3>2. g \in Nat /\ Behind(m, g) \in Nat /\ Behind(m, g) <= d
      BY <1>2, <3>1
    <3>3. CASE g < a
      BY <1>3, <3>1, <3>3
    <3>4. CASE ~ (g < a)
      <4>1. a <= w /\ w < d
        BY <1>2, <3>1, <3>2, <3>4
      <4> QED
        BY <1>5, <3>1, <4>1
    <3> QED
      BY <3>3, <3>4
  <2> QED
    BY <2>1
<1>10. /\ IsFiniteSet(W \cup J)
       /\ Cardinality(W \cup J) = Cardinality(W) + Cardinality(J) - Cardinality(W \cap J)
  BY <1>3, <1>4, FS_Union
<1>11. Cardinality(W \cap J) \in Nat
  BY <1>3, FS_Intersection, FS_CardinalityType
<1>12. Cardinality(V) <= Cardinality(W \cup J)
  BY <1>9, <1>10, FS_Subset
<1> QED
  BY <1>2, <1>3, <1>4, <1>6, <1>8, <1>10, <1>11, <1>12

LEMMA TakenEnds ==
  ASSUME NEW m, NEW O, NEW b, NEW c, Sound(m, O, b, c), NEW B \in SUBSET O
  PROVE  /\ Taken(m, B, b) = 0
         /\ Below(B, c) = B
         /\ \A a \in O \cup {c} : Taken(m, B, a) \in Nat /\ Taken(m, B, a) <= a - b
<1>1. /\ b \in Nat /\ c \in Nat /\ b <= c /\ \A g \in O : g \in Nat /\ g >= b /\ g < c
      /\ b < c => b \in O
  BY SoundFacts
<1>2. \A g : g \notin Below(B, b)
  BY <1>1 DEF Below
<1>3. Words(m, Below(B, b)) = {}
  BY <1>2 DEF Words
<1>4. Taken(m, B, b) = 0
  BY <1>3, FS_EmptySet DEF Taken
<1>5. \A g : g \in Below(B, c) <=> g \in B
  BY <1>1 DEF Below
<1>6. ASSUME NEW a \in O \cup {c} PROVE Taken(m, B, a) \in Nat /\ Taken(m, B, a) <= a - b
  <2>1. b \in O \cup {c} /\ b <= a /\ a \in Nat
    BY <1>1
  <2>2. Taken(m, B, a) <= Taken(m, B, b) + (a - b)
    BY <2>1, TakenBetween
  <2>3. Taken(m, B, a) \in Nat
    BY WordsBelow
  <2> QED
    BY <1>1, <1>4, <2>1, <2>2, <2>3
<1> QED
  BY <1>4, <1>5, <1>6

(* Headers and sizes are all that matters.                                   *)
LEMMA TakenSame ==
  ASSUME NEW m, NEW n, NEW B, NEW a, \A h \in B : n[h] = m[h]
  PROVE  Taken(n, B, a) = Taken(m, B, a)
<1>1. \A w : w \in Words(n, Below(B, a)) <=> w \in Words(m, Below(B, a))
  BY DEF Words, Below
<1>2. Words(n, Below(B, a)) = Words(m, Below(B, a))
  BY <1>1
<1> QED
  BY <1>2 DEF Taken

LEMMA KeptIsTaken ==
  ASSUME NEW m, NEW O, NEW a
  PROVE  Kept(m, O, a) = Taken(m, Black(m, O), a) /\ Black(m, O) \in SUBSET O
BY DEF Kept, Taken, Black

(* The new locations are written into the forward words of the marked.      *)
LEMMA LocationsKeep ==
  ASSUME GCInv, compute_locations, prog' = prog
  PROVE  /\ GCInv' /\ SameHeap(mem, mem', AllObjects)
         /\ Black(mem', AllObjects) = Black(mem, AllObjects)
<1> DEFINE O == AllObjects
           b == heap.begin
           c == heap.current
           B == Black(mem, O)
           at(h) == 8 * (b + Taken(mem, B, h))
<1>1. /\ TypeInv /\ ProgramInv /\ HeapInv /\ MarkInv /\ phase = "roots"
      /\ next > Len(Roots) /\ UNCHANGED <<prog, program, heap, mapped, next, head, tail, old, ids>>
      /\ next \in Nat /\ head \in Nat /\ tail \in Nat
      /\ phase' = "map"
  BY DEF GCInv, compute_locations, TypeInv, TypeOK
<1>2. /\ Sound(mem, O, b, c)
      /\ Holding(mem, O, O) /\ Rooted(O)
  BY <1>1 DEF HeapInv
<1>3. /\ \A h \in B : \A f \in FieldsAt(mem, h) : Leads(mem[f], Dark(mem, O))
      /\ \A k \in 1 .. Len(Roots) : k < next => Leads(Roots[k], Dark(mem, O))
      /\ Grey(mem, O) = {} /\ Dark(mem, O) = B
  BY <1>1 DEF MarkInv, Dark
<1>4. Marked = B
  BY DEF Marked, Black
<1>5. B \in SUBSET O /\ Below(B, c) = B
  <2>1. B \in SUBSET O
    BY DEF Black
  <2> HIDE DEF B, O
  <2> QED
    BY <1>2, <2>1, TakenEnds
<1>6. live' = Taken(mem, B, c) /\ live' \in Nat
  <2>1. live' = Cardinality(Words(mem, B))
    BY <1>4 DEF compute_locations, SizeOf
  <2> HIDE DEF B, O
  <2> QED
    BY <1>2, <1>5, <2>1, WordsBelow DEF Taken
<1>7. mem' = [a \in DOMAIN mem |-> IF a - 1 \in B THEN SET_FORWARD_ADDRESS(mem[a], at(a - 1)) ELSE mem[a]]
  <2>1. \A h : SizeOf({g \in B : g < h}) = Taken(mem, B, h)
    BY DEF SizeOf, Taken, Below
  <2>2. mem' = [a \in DOMAIN mem |->
                  IF a - 1 \in B
                    THEN SET_FORWARD_ADDRESS(mem[a], 8 * (b + SizeOf({g \in B : g < a - 1})))
                    ELSE mem[a]]
    <3> HIDE DEF B
    <3> QED
      BY <1>4 DEF compute_locations
  <2> HIDE DEF B, b
  <2> QED
    BY <2>1, <2>2
<1> HIDE DEF O, B, b, c
<1>8. /\ WORD \in Nat /\ b \in Nat /\ c \in Nat
      /\ mem \in [DOMAIN mem -> Word]
      /\ b .. c - 1 \subseteq DOMAIN mem
      /\ \A h \in O : /\ h \in Nat /\ h >= b /\ h + 1 \in DOMAIN mem /\ mem[h + 1] \in Nat
                      /\ Content(h) + 3 < WORD
  <2>1. WORD \in Nat /\ mem \in [DOMAIN mem -> Word] /\ b .. c - 1 \subseteq DOMAIN mem
    BY <1>2, SizesAssumption DEF Sound, IsMemory
  <2> QED
    BY <1>2, <2>1, SoundFacts
<1>9. \A h \in B : /\ at(h) \in Nat /\ at(h) % 4 = 0 /\ at(h) + 3 < WORD
                   /\ h \in O
  <2>1. ASSUME NEW h \in B PROVE at(h) \in Nat /\ at(h) % 4 = 0 /\ at(h) + 3 < WORD
    <3>1. h \in O /\ h \in Nat /\ h >= b /\ Content(h) = 8 * (h + 2) /\ Content(h) + 3 < WORD
      BY <1>5, <1>8, ContentFacts
    <3>2. Taken(mem, B, h) \in Nat /\ Taken(mem, B, h) <= h - b
      <4>1. h \in O \cup {c}
        BY <3>1
      <4> QED
        BY <1>2, <1>5, <4>1, TakenEnds
    <3>3. b + Taken(mem, B, h) \in Nat /\ b + Taken(mem, B, h) <= h
      BY <1>8, <3>1, <3>2
    <3> QED
      BY <1>8, <3>1, <3>3
  <2> QED
    BY <1>5, <2>1
<1> HIDE DEF at
<1>10. \A h \in O : mem'[h + 1] = IF h \in B THEN SET_FORWARD_ADDRESS(mem[h + 1], at(h)) ELSE mem[h + 1]
  <2>1. \A h \in O : h + 1 \in DOMAIN mem /\ (h + 1) - 1 = h
    BY <1>8
  <2> QED
    BY <1>7, <2>1
<1>11. ASSUME NEW h \in B
       PROVE  /\ mem'[h + 1] \in Word /\ SameFlags(mem'[h + 1], mem[h + 1])
              /\ GET_FORWARD_ADDRESS(mem'[h + 1]) = at(h)
  <2>1. /\ SET_FORWARD_ADDRESS(mem[h + 1], at(h)) \in Nat
        /\ SameFlags(SET_FORWARD_ADDRESS(mem[h + 1], at(h)), mem[h + 1])
        /\ GET_FORWARD_ADDRESS(SET_FORWARD_ADDRESS(mem[h + 1], at(h))) = at(h)
        /\ SET_FORWARD_ADDRESS(mem[h + 1], at(h)) <= at(h) + 3
    BY <1>8, <1>9, SetForward
  <2>2. mem'[h + 1] = SET_FORWARD_ADDRESS(mem[h + 1], at(h))
    BY <1>9, <1>10
  <2>3. SET_FORWARD_ADDRESS(mem[h + 1], at(h)) \in Word
    BY <1>8, <1>9, <2>1 DEF Word
  <2> QED
    BY <2>1, <2>2, <2>3
<1>12. SameHeap(mem, mem', O)
  <2>1. DOMAIN mem' = DOMAIN mem
    BY <1>7
  <2>2. ASSUME NEW a \in DOMAIN mem
        PROVE  mem'[a] \in Word /\ (a \notin {h + 1 : h \in O} => mem'[a] = mem[a])
    <3>1. CASE a - 1 \in B
      <4>1. a - 1 \in O /\ a - 1 \in Nat
        BY <1>8, <1>9, <3>1
      <4>2. a = (a - 1) + 1
        <5>1. DOMAIN mem \subseteq Int
          BY <1>1 DEF TypeInv, TypeOK
        <5> QED
          BY <5>1
      <4> QED
        BY <1>11, <3>1, <4>1, <4>2
    <3>2. CASE a - 1 \notin B
      BY <1>7, <1>8, <3>2
    <3> QED
      BY <3>1, <3>2
  <2>3. mem' \in [DOMAIN mem -> Word]
    <3>1. mem' = [a \in DOMAIN mem |-> mem'[a]]
      BY <1>7
    <3> QED
      BY <2>2, <3>1
  <2> QED
    BY <2>1, <2>2, <2>3 DEF SameHeap
<1>13. Black(mem', O) = B /\ Grey(mem', O) = {}
  <2>1. \A h \in O : SameFlags(mem'[h + 1], mem[h + 1])
    <3>1. \A h \in O : h \notin B => mem'[h + 1] = mem[h + 1]
      BY <1>10
    <3> QED
      BY <1>11, <3>1 DEF SameFlags
  <2>2. \A h \in O : is_marked(mem', h) <=> is_marked(mem, h)
    BY <2>1 DEF SameFlags, is_marked
  <2>3. \A h \in O : is_enqueued(mem', h) <=> is_enqueued(mem, h)
    BY <2>1 DEF SameFlags, is_enqueued
  <2> QED
    BY <1>3, <2>2, <2>3 DEF B, Black, Grey
<1>14. /\ TypeInv' /\ ProgramInv' /\ HeapInv' /\ RoomInv' /\ CopyInv' /\ MoveInv'
       /\ AllObjects' = O /\ Roots' = Roots
  <2>1. next' \in Nat /\ head' \in Nat /\ tail' \in Nat
    BY <1>1
  <2> QED
    BY <1>1, <1>6, <1>12, <2>1, HeapStep DEF O
<1>15. \A h \in O : /\ FieldsAt(mem', h) = FieldsAt(mem, h) /\ mem'[h] = mem[h]
                    /\ \A f \in FieldsAt(mem, h) : mem'[f] = mem[f]
  BY <1>2, <1>12, SameHeapFacts
<1>16. \A a : Kept(mem', O, a) = Taken(mem, B, a)
  <2>1. \A h \in B : mem'[h] = mem[h]
    BY <1>5, <1>15
  <2>2. \A a : Taken(mem', B, a) = Taken(mem, B, a)
    BY <2>1, TakenSame
  <2> QED
    BY <1>13, <2>2, KeptIsTaken
<1>17. MapInv'
  <2>1. \A h \in B : \A f \in FieldsAt(mem', h) : Leads(mem'[f], B)
    BY <1>3, <1>5, <1>15
  <2>2. \A k \in 1 .. Len(Roots) : Leads(Roots[k], B)
    <3>1. Len(Roots) \in Nat
      BY <1>1, <1>2, RootsFacts DEF Ends
    <3>2. \A k \in 1 .. Len(Roots) : k < next
      BY <1>1, <3>1
    <3> QED
      BY <1>3, <3>2
  <2>3. heap' = heap
    BY <1>1
  <2>4. live' = Kept(mem', O, c)
    BY <1>6, <1>16
  <2>5. \A h \in B : Holds(mem', h) = 8 * (b + Kept(mem', O, h))
    BY <1>11, <1>16 DEF at, Holds
  <2> QED
    BY <1>13, <1>14, <2>1, <2>2, <2>3, <2>4, <2>5 DEF MapInv, b, c
<1>18. GCInv'
  BY <1>1, <1>14, <1>17 DEF GCInv, MarkInv
<1> QED
  BY <1>12, <1>13, <1>18 DEF B, O

-----------------------------------------------------------------------------
(***************************************************************************)
(* The heap is copied to a new region.                                     *)
(***************************************************************************)
(* A copy of a heap at another address.                                      *)
Shifted(S, d) == {h + d : h \in S}

LEMMA ShiftedHas ==
  ASSUME NEW S \in SUBSET Int, NEW d \in Int
  PROVE  /\ \A x \in Int : x + d \in Shifted(S, d) <=> x \in S
         /\ \A y \in Shifted(S, d) : y - d \in S /\ y = (y - d) + d
BY DEF Shifted

LEMMA CopySound ==
  ASSUME NEW m, NEW O, NEW b, NEW c, Sound(m, O, b, c), NEW d \in Int,
         NEW n, IsMemory(n, b + d, c + d), \A a \in b .. c - 1 : n[a + d] = m[a]
  PROVE  /\ \A h \in O : /\ n[h + d] = m[h] /\ n[(h + d) + 1] = m[h + 1]
                         /\ Behind(n, h + d) = Behind(m, h) + d
                         /\ \A f \in FieldsAt(n, h + d) : /\ f - d \in FieldsAt(m, h)
                                                          /\ n[f] = m[f - d]
         /\ Sound(n, Shifted(O, d), b + d, c + d)
         /\ Black(n, Shifted(O, d)) = Shifted(Black(m, O), d)
         /\ Grey(n, Shifted(O, d)) = Shifted(Grey(m, O), d)
<1> DEFINE P == Shifted(O, d)
<1>1. /\ b \in Nat /\ c \in Nat /\ b <= c /\ O \subseteq Nat
      /\ \A h \in O : /\ h \in Nat /\ h >= b /\ h + 1 < c /\ m[h] \in Nat
                      /\ Behind(m, h) \in Nat /\ Behind(m, h) >= h + 2
                      /\ Behind(m, h) \in O \cup {c} /\ Behind(m, h) <= c
                      /\ FieldsAt(m, h) \subseteq h + 2 .. Behind(m, h) - 1
      /\ \A g, h \in O : g < h => Behind(m, g) <= h
      /\ b < c => b \in O
  BY SoundFacts
<1>2. \A h \in O : h \in b .. c - 1 /\ h + 1 \in b .. c - 1 /\ (h + d) + 1 = (h + 1) + d
  BY <1>1
<1>3. \A h \in O : n[h + d] = m[h] /\ n[(h + d) + 1] = m[h + 1]
  BY <1>2
<1>4. \A h \in O : Behind(n, h + d) = Behind(m, h) + d
  <2>1. ASSUME NEW h \in O PROVE Behind(n, h + d) = Behind(m, h) + d
    <3>1. Behind(n, h + d) = (h + d) + Size(m[h]) /\ Behind(m, h) = h + Size(m[h])
      BY <1>3 DEF Behind
    <3>2. Size(m[h]) \in Nat /\ h \in Nat
      BY <1>1, SizeFacts
    <3> QED
      BY <3>1, <3>2
  <2> QED
    BY <2>1
<1>5. ASSUME NEW h \in O, NEW f \in FieldsAt(n, h + d)
      PROVE  f - d \in FieldsAt(m, h) /\ n[f] = m[f - d]
  <2>1. h \in Nat /\ Size(m[h]) \in Nat /\ FirstField(m[h]) \in Nat
    BY <1>1, SizeFacts
  <2>2. f \in (h + d) + FirstField(m[h]) .. (h + d) + Size(m[h]) - 1
    BY <1>3 DEF FieldsAt
  <2>3. f \in Int /\ f - d \in h + FirstField(m[h]) .. h + Size(m[h]) - 1
    BY <2>1, <2>2
  <2>4. f - d \in FieldsAt(m, h)
    BY <2>3 DEF FieldsAt
  <2>5. f - d \in h + 2 .. Behind(m, h) - 1
    BY <1>1, <2>4
  <2>6. f - d \in b .. c - 1 /\ (f - d) + d = f
    BY <1>1, <2>3, <2>5
  <2> QED
    BY <2>4, <2>6
<1>6. /\ \A x \in Int : x + d \in P <=> x \in O
      /\ \A y \in P : y - d \in O /\ y = (y - d) + d
  <2>1. O \in SUBSET Int
    BY <1>1
  <2> QED
    BY <2>1, ShiftedHas
<1> HIDE DEF P
<1>7. Tiles(n, P, b + d, c + d)
  <2>1. \A y \in P : y \in b + d .. (c + d) - 1
    <3>1. \A h \in O : h + d \in b + d .. (c + d) - 1
      BY <1>1
    <3> QED
      BY <1>6, <3>1
  <2>2. b + d < c + d => b + d \in P
    BY <1>1, <1>6
  <2>3. \A y \in P : Behind(n, y) \in P \/ Behind(n, y) >= c + d
    <3>1. ASSUME NEW h \in O PROVE Behind(n, h + d) \in P \/ Behind(n, h + d) >= c + d
      <4>1. Behind(m, h) \in O \/ Behind(m, h) = c
        BY <1>1
      <4>2. Behind(m, h) \in O => Behind(m, h) + d \in P
        BY <1>1, <1>6
      <4> QED
        BY <1>1, <1>4, <4>1, <4>2
    <3> QED
      BY <1>6, <3>1
  <2>4. \A x, y \in P : x < y => Behind(n, x) <= y
    <3>1. ASSUME NEW g \in O, NEW h \in O, g + d < h + d PROVE Behind(n, g + d) <= h + d
      <4>1. g < h
        BY <1>1, <3>1
      <4>2. Behind(m, g) <= h
        BY <1>1, <4>1
      <4> QED
        BY <1>1, <1>4, <4>2
    <3> QED
      BY <1>6, <3>1
  <2> QED
    BY <2>1, <2>2, <2>3, <2>4 DEF Tiles
<1>8. Sound(n, P, b + d, c + d)
  <2>1. \A h \in O : Behind(n, h + d) <= c + d /\ IsHeader(n[h + d])
    <3>1. \A h \in O : IsHeader(m[h])
      BY DEF Sound
    <3> QED
      BY <1>1, <1>3, <1>4, <3>1
  <2>2. \A y \in P : Behind(n, y) <= c + d /\ IsHeader(n[y])
    BY <1>6, <2>1
  <2> QED
    BY <1>7, <2>2 DEF Sound
<1>9. \A y : y \in Black(n, P) <=> y \in Shifted(Black(m, O), d)
  <2>1. \A h \in O : is_marked(n, h + d) <=> is_marked(m, h)
    BY <1>3 DEF is_marked, Bit
  <2>2. \A y \in P : is_marked(n, y) <=> is_marked(m, y - d)
    BY <1>6, <2>1
  <2>3. \A y : y \in P <=> \E h \in O : y = h + d
    BY DEF P, Shifted
  <2> QED
    BY <2>1, <2>3 DEF Black, Shifted
<1>10. \A y : y \in Grey(n, P) <=> y \in Shifted(Grey(m, O), d)
  <2>1. \A h \in O : is_enqueued(n, h + d) <=> is_enqueued(m, h)
    BY <1>3 DEF is_enqueued, Bit
  <2>2. \A y : y \in P <=> \E h \in O : y = h + d
    BY DEF P, Shifted
  <2> QED
    BY <2>1, <2>2 DEF Grey, Shifted
<1>11. Black(n, P) = Shifted(Black(m, O), d) /\ Grey(n, P) = Shifted(Grey(m, O), d)
  BY <1>9, <1>10
<1> QED
  BY <1>3, <1>4, <1>5, <1>8, <1>11 DEF P

(* As many words are taken in the copy.                                      *)
LEMMA CopyTaken ==
  ASSUME NEW m, NEW O, NEW b, NEW c, Sound(m, O, b, c), NEW d \in Int, NEW B \in SUBSET O,
         NEW n, \A h \in B : n[h + d] = m[h], NEW a \in Int
  PROVE  Taken(n, Shifted(B, d), a + d) = Taken(m, B, a)
<1> DEFINE W == Words(m, Below(B, a))
           V == Words(n, Below(Shifted(B, d), a + d))
           f == [w \in W |-> w + d]
<1>1. \A h \in O : h \in Nat /\ m[h] \in Nat /\ Behind(m, h) \in Nat /\ Size(m[h]) \in Nat
  <2>1. \A h \in O : h \in Nat /\ m[h] \in Nat /\ Behind(m, h) \in Nat
    BY SoundFacts
  <2> QED
    BY <2>1, SizeFacts
<1>2. /\ IsFiniteSet(W)
      /\ \A w : w \in W <=> \E h \in B : h < a /\ w \in Int /\ h <= w /\ w < h + Size(m[h])
  BY WordsBelow DEF Behind
<1>3. \A v : v \in V <=> \E h \in B : h + d < a + d /\ v \in (h + d) .. (h + d) + Size(m[h]) - 1
  BY DEF Words, Below, Shifted
<1>4. \A w \in W : w \in Int
  BY <1>2
<1> HIDE DEF W, V
<1>5. \A w \in W : w + d \in V
  <2>1. ASSUME NEW w \in W PROVE w + d \in V
    <3>1. PICK h \in B : h < a /\ w \in Int /\ h <= w /\ w < h + Size(m[h])
      BY <1>2
    <3>2. h \in Nat /\ Size(m[h]) \in Nat
      BY <1>1
    <3>3. h + d < a + d /\ w + d \in (h + d) .. (h + d) + Size(m[h]) - 1
      BY <3>1, <3>2
    <3> QED
      BY <1>3, <3>3
  <2> QED
    BY <2>1
<1>6. \A v \in V : v \in Int /\ v - d \in W
  <2>1. ASSUME NEW v \in V PROVE v \in Int /\ v - d \in W
    <3>1. PICK h \in B : h + d < a + d /\ v \in (h + d) .. (h + d) + Size(m[h]) - 1
      BY <1>3
    <3>2. h \in Nat /\ Size(m[h]) \in Nat
      BY <1>1
    <3>3. v \in Int /\ h < a /\ v - d \in Int /\ h <= v - d /\ v - d < h + Size(m[h])
      BY <3>1, <3>2
    <3> QED
      BY <1>2, <3>3
  <2> QED
    BY <2>1
<1>7. f \in Bijection(W, V)
  <2>1. f \in [W -> V]
    BY <1>5
  <2>2. \A x, y \in W : f[x] = f[y] => x = y
    BY <1>4
  <2>3. \A v \in V : \E w \in W : f[w] = v
    <3>1. ASSUME NEW v \in V PROVE \E w \in W : f[w] = v
      <4>1. v - d \in W /\ f[v - d] = v
        BY <1>6
      <4> QED
        BY <4>1
    <3> QED
      BY <3>1
  <2> HIDE DEF f
  <2> QED
    BY <2>1, <2>2, <2>3 DEF Bijection, Injection, Surjection, IsInjective
<1>8. ExistsBijection(W, V)
  BY <1>7 DEF ExistsBijection
<1>9. Cardinality(V) = Cardinality(W)
  BY <1>2, <1>8, FS_Bijection
<1> QED
  BY <1>9 DEF W, V, Taken

LEMMA InPage ==
  ASSUME NEW x \in Nat, NEW p \in Nat \ {0}
  PROVE  x \div p \in Nat /\ x < (x \div p + 1) * p
OBVIOUS

LEMMA PagesEnd ==
  ASSUME Addressable, NEW begin \in Nat, NEW n \in Nat \ {0}, PagesOf(begin, n) \subseteq Pages
  PROVE  8 * (begin + n) < WORD
<1> DEFINE x == begin + n - 1
           q == x \div PAGE
           p == PAGE
<1>1. x \in Nat /\ begin <= x /\ PAGE \in Nat \ {0} /\ begin + n = x + 1 /\ WORD \in Nat
  BY SizesAssumption
<1>2. q \in Nat /\ x < (q + 1) * p
  BY <1>1, InPage
<1>3. begin \div PAGE <= q /\ begin \div PAGE \in Nat
  BY <1>1
<1>4. q \in Pages
  <2>1. q \in begin \div PAGE .. x \div PAGE
    BY <1>2, <1>3
  <2> QED
    BY <2>1 DEF PagesOf
<1>5. 8 * ((q + 1) * p) < WORD
  BY <1>4 DEF Addressable
<1>6. (q + 1) * p \in Nat
  BY <1>1, <1>2
<1> DEFINE y == (q + 1) * p
<1>7. 8 * y < WORD /\ x < y /\ y \in Nat
  BY <1>2, <1>5, <1>6
<1> HIDE DEF y, x
<1> QED
  BY <1>1, <1>7

LEMMA IsWhatLeads ==
  ASSUME NEW w, NEW O \in SUBSET Nat, Is(w, O), NEW S, Leads(w, S)
  PROVE  Is(w, S)
<1>1. CASE UNBOXED(w)
  BY <1>1 DEF Is
<1>2. CASE ~ UNBOXED(w)
  <2>1. PICK h \in O : w = Content(h)
    BY <1>2 DEF Is
  <2>2. HeaderOf(w) = h
    BY <2>1, ContentFacts
  <2>3. h \in S
    BY <1>2, <2>2 DEF Leads
  <2> QED
    BY <2>1, <2>3 DEF Is
<1> QED
  BY <1>1, <1>2

(* The object asked for.                                                     *)
LEMMA RequestedFacts ==
  ASSUME ProgramInv, phase \notin Ends, phase # "mutator"
  PROVE  /\ I.op \in Allocators /\ Requested(I) \in Word /\ Requested(I) \in Nat
         /\ Size(Requested(I)) \in Nat /\ Size(Requested(I)) >= 2
<1>1. Executable(todo, sp + Len(extra_roots)) /\ I.op \in Allocators
  BY DEF ProgramInv
<1>2. PICK d : \A k \in 1 .. Len(todo) : Legal(todo[k], d[k])
  BY <1>1 DEF Executable
<1>3. 1 \in 1 .. Len(todo) /\ I = todo[1]
  BY <1>1 DEF Executable, I
<1>4. Requested(I) \in Word
  BY <1>1, <1>2, <1>3 DEF Legal
<1>5. Requested(I) \in Nat
  BY <1>4, SizesAssumption DEF Word
<1> QED
  BY <1>1, <1>4, <1>5, SizeFacts

(* The next heap has room for what is live and the object asked for, and is  *)
(* never smaller than the one before.                                       *)
LEMMA NextHeapSizeFacts ==
  ASSUME TypeInv, Size(Requested(I)) \in Nat
  PROVE  /\ NextHeapSize \in Nat /\ NextHeapSize >= heap.size /\ NextHeapSize > 0
         /\ live + Size(Requested(I)) <= NextHeapSize
<1> DEFINE k == live * EXTRA_ROOM_HEAP_COEFFICIENT
<1>1. live \in Nat /\ heap.size \in Nat
  BY DEF TypeInv, TypeOK, IsChunk
<1>2. EXTRA_ROOM_HEAP_COEFFICIENT \in Nat \ {0} /\ MINIMUM_HEAP_CAPACITY \in Nat \ {0}
  BY SizesAssumption
<1>3. k \in Nat /\ k >= live
  BY <1>1, <1>2
<1>4. NextHeapSize = Larger(Larger(k + Size(Requested(I)), MINIMUM_HEAP_CAPACITY), heap.size)
  BY DEF NextHeapSize
<1> HIDE DEF k
<1> QED
  BY <1>1, <1>2, <1>3, <1>4 DEF Larger

(* Two objects of a set do not have the same words of it below them.         *)
LEMMA TakenApart ==
  ASSUME NEW m, NEW O, NEW b, NEW c, Sound(m, O, b, c), NEW B \in SUBSET O,
         NEW g \in B, NEW h \in B, Taken(m, B, g) = Taken(m, B, h)
  PROVE  g = h
<1>1. ASSUME NEW x \in B, NEW y \in B, x < y PROVE Taken(m, B, x) < Taken(m, B, y)
  <2>1. /\ Behind(m, x) <= y /\ Behind(m, x) \in O \cup {c} /\ m[x] \in Nat /\ y \in O \cup {c} /\ x \in O
        /\ x \in O \cup {c}
    BY <1>1, SoundFacts
  <2>2. Size(m[x]) \in Nat /\ Size(m[x]) >= 2
    BY <2>1, SizeFacts
  <2>3. Taken(m, B, Behind(m, x)) = Taken(m, B, x) + Size(m[x])
    <3>1. Taken(m, B, Behind(m, x)) = Taken(m, B, x) + (IF x \in B THEN Size(m[x]) ELSE 0)
      BY <2>1, TakenNext
    <3> QED
      BY <1>1, <3>1
  <2>4. Taken(m, B, Behind(m, x)) <= Taken(m, B, y)
    BY <2>1, TakenBetween
  <2>5. Taken(m, B, x) \in Nat /\ Taken(m, B, y) \in Nat
    BY <2>1, TakenEnds
  <2> QED
    BY <2>2, <2>3, <2>4, <2>5
<1>2. g \in Nat /\ h \in Nat /\ Taken(m, B, g) \in Nat
  <2>1. g \in O /\ h \in O /\ g \in O \cup {c}
    OBVIOUS
  <2> QED
    BY <2>1, SoundFacts, TakenEnds
<1>3. ~ (g < h) /\ ~ (h < g)
  BY <1>1, <1>2
<1> QED
  BY <1>2, <1>3

(* The new chunk holds what the old one did, d words further on, and an      *)
(* object is known, where it will be, by its old name.                      *)
Copied(d) ==
  /\ d \in Int /\ phase' = "fields" /\ old' = heap /\ heap'.begin = heap.begin + d
  /\ \A h \in AllObjects : /\ h + d \in Nat /\ mem'[h + d] = mem[h]
                            /\ \A f \in FieldsAt(mem, h) : mem'[f + d] = mem[f]
  /\ Black(mem, AllObjects)' = Shifted(Black(mem, AllObjects), d)
  /\ Olds' = Black(mem, AllObjects)
  /\ \A h \in Black(mem, AllObjects) : ids'[Dest(mem, h + d)'] = ids[h]

LEMMA NewHeapKeeps ==
  ASSUME Addressable, GCInv, NewHeap, prog' = prog
  PROVE  GCInv' /\ (phase' = "exhausted" \/ \E d : Copied(d))
<1>1. /\ TypeInv /\ ProgramInv /\ HeapInv /\ MapInv /\ phase = "map"
      /\ UNCHANGED <<prog, program, next, head, tail, live>>
  BY DEF GCInv, NewHeap
<1>2. CASE Places(NextHeapSize) = {}
  <2>1. phase' = "exhausted" /\ UNCHANGED <<heap, mem, mapped, old, ids>>
    BY <1>2 DEF NewHeap
  <2>2. TypeInv'
    BY <1>1, <2>1 DEF TypeInv, TypeOK, Ends, program
  <2> QED
    BY <2>1, <2>2 DEF GCInv, ProgramInv, HeapInv, MarkInv, MapInv, RoomInv, CopyInv, MoveInv, Ends
<1>3. CASE Places(NextHeapSize) # {}
  <2> DEFINE O == AllObjects
             b == heap.begin
             c == heap.current
             B == Black(mem, O)
  <2>1. PICK page \in Places(NextHeapSize) :
          /\ heap' = Chunk(page * PAGE, NextHeapSize, c - b)
          /\ old' = heap
          /\ mem' = [a \in page * PAGE .. page * PAGE + NextHeapSize - 1 |->
                       IF a - page * PAGE < heap.size THEN mem[a - page * PAGE + b] ELSE 0]
          /\ mapped' = mapped \cup PagesOf(page * PAGE, NextHeapSize)
          /\ ids' = LET to(h) == GET_FORWARD_ADDRESS(mem[h + 1]) \div 8 - b + page * PAGE
                    IN  [g \in {to(h) : h \in Marked} |->
                           ids[CHOOSE h \in Marked : to(h) = g]]
          /\ phase' = "fields"
    BY <1>3 DEF NewHeap
  <2> DEFINE begin == page * PAGE
             n == NextHeapSize
  <2>35. PICK d : d = begin - b
    OBVIOUS
  <2> DEFINE P == Shifted(O, d)
  <2>2. page \in Pages /\ page \in Nat /\ PAGE \in Nat /\ begin \in Nat
        /\ PagesOf(begin, n) \subseteq Pages
    <3>1. page \in Pages /\ PagesOf(begin, n) \subseteq Pages
      BY <2>1 DEF Places
    <3>2. page \in Nat /\ PAGE \in Nat
      BY <3>1, SizesAssumption
    <3>3. page * PAGE \in Nat
      BY <3>2
    <3> QED
      BY <3>1, <3>2, <3>3
  <2>3. /\ Size(Requested(I)) \in Nat
        /\ n \in Nat \ {0} /\ n >= heap.size /\ live + Size(Requested(I)) <= n
    BY <1>1, RequestedFacts, NextHeapSizeFacts DEF Ends
  <2>4. 8 * (begin + n) < WORD
    BY <2>2, <2>3, PagesEnd
  <2>5. /\ heap' = [begin |-> begin, size |-> n, current |-> begin + (c - b)]
        /\ heap'.begin = begin /\ heap'.size = n /\ heap'.current = begin + (c - b)
        /\ old' = heap /\ phase' = "fields"
        /\ mem' = [a \in begin .. begin + n - 1 |->
                     IF a - begin < heap.size THEN mem[a - begin + b] ELSE 0]
        /\ mapped' = mapped \cup PagesOf(begin, n)
        /\ ids' = [g \in {Holds(mem, h) \div 8 - b + begin : h \in B} |->
                     ids[CHOOSE h \in B : Holds(mem, h) \div 8 - b + begin = g]]
        /\ DOMAIN ids' = {Holds(mem, h) \div 8 - b + begin : h \in B}
    <3>1. ids' = [g \in {Holds(mem, h) \div 8 - b + begin : h \in Marked} |->
                    ids[CHOOSE h \in Marked : Holds(mem, h) \div 8 - b + begin = g]]
      BY <2>1 DEF Holds
    <3>2. Marked = B
      BY DEF Marked, Black
    <3>3. DOMAIN ids' = {Holds(mem, h) \div 8 - b + begin : h \in B}
      BY <3>1, <3>2
    <3>4. Chunk(begin, n, c - b) = [begin |-> begin, size |-> n, current |-> begin + (c - b)]
      BY DEF Chunk
    <3>5. /\ heap' = [begin |-> begin, size |-> n, current |-> begin + (c - b)]
          /\ old' = heap /\ phase' = "fields" /\ mapped' = mapped \cup PagesOf(begin, n)
      BY <2>1, <3>4
    <3>6. mem' = [a \in begin .. begin + n - 1 |->
                    IF a - begin < heap.size THEN mem[a - begin + b] ELSE 0]
      BY <2>1
    <3>7. ids' = [g \in {Holds(mem, h) \div 8 - b + begin : h \in B} |->
                    ids[CHOOSE h \in B : Holds(mem, h) \div 8 - b + begin = g]]
      <4> HIDE DEF B
      <4> QED
        BY ONLY <3>1, <3>2
    <3> HIDE DEF B, begin, n
    <3>8. heap'.begin = begin /\ heap'.size = n /\ heap'.current = begin + (c - b)
      BY ONLY <3>5
    <3> QED
      BY ONLY <3>3, <3>5, <3>6, <3>7, <3>8
  <2>6. /\ b \in Nat /\ c \in Nat /\ heap.size \in Nat /\ b <= c /\ c <= b + heap.size
        /\ mem \in [b .. b + heap.size - 1 -> Word] /\ DOMAIN mem = b .. b + heap.size - 1
        /\ 8 * (b + heap.size) < WORD /\ IsChunk(heap)
    BY <1>1 DEF TypeInv, TypeOK, IsChunk
  <2> HIDE DEF begin, n, P, O, b, c
  <2>7. d \in Int /\ d = begin - b /\ b + d = begin /\ c + d = heap'.current /\ c + d = begin + (c - b)
        /\ WORD \in Nat /\ WORD % 8 = 0
    <3>1. d \in Int /\ d = begin - b /\ b + d = begin /\ c + d = begin + (c - b)
      BY <2>2, <2>6, <2>35
    <3>2. c + d = heap'.current
      BY <2>5, <3>1
    <3> QED
      BY <3>1, <3>2, SizesAssumption DEF Addressable
  <2>8. mem' \in [begin .. begin + n - 1 -> Word]
    <3>1. ASSUME NEW a \in begin .. begin + n - 1, a - begin < heap.size
          PROVE  mem[a - begin + b] \in Word
      <4>1. a - begin + b \in b .. b + heap.size - 1
        BY <2>2, <2>3, <2>6, <3>1
      <4> QED
        BY <2>6, <4>1
    <3>2. 0 \in Word
      BY SizesAssumption DEF Word
    <3> QED
      BY <2>5, <3>1, <3>2
  <2>9. heap'.current \in heap'.begin .. heap'.begin + heap'.size /\ heap'.current \in Nat
    BY <2>2, <2>3, <2>5, <2>6
  <2>10. TypeInv'
    <3>1. IsChunk(heap') /\ IsChunk(old')
      BY <2>2, <2>3, <2>5, <2>6, <2>9 DEF IsChunk
    <3>2. mem' \in [heap'.begin .. heap'.begin + heap'.size - 1 -> Word]
      BY <2>5, <2>8
    <3>3. 8 * (heap'.begin + heap'.size) < WORD
      BY <2>4, <2>5
    <3>4. mapped' \subseteq Pages
      BY <1>1, <2>2, <2>5 DEF TypeInv, TypeOK
    <3>5. phase' \in {"mutator"} \cup Collecting \cup Ends
      BY <2>5 DEF Collecting
    <3> QED
      BY <1>1, <3>1, <3>2, <3>3, <3>4, <3>5 DEF TypeInv, TypeOK, program
  <2>11. ProgramInv'
    BY <1>1, <2>5 DEF ProgramInv, Ends, I, program
  <2>12. RoomInv'
    <3>1. I' = I /\ live' = live
      BY <1>1 DEF I, program
    <3>2. live' + Size(Requested(I')) <= heap'.size
      BY <2>3, <2>5, <3>1
    <3>3. old'.begin \in Nat /\ 8 * old'.current < WORD
      <4>1. old'.begin = b /\ old'.current = c
        BY <2>5 DEF b, c
      <4>2. 8 * c < WORD
        <5>1. b \in Nat /\ c \in Nat /\ heap.size \in Nat /\ c <= b + heap.size /\ 8 * (b + heap.size) < WORD
          BY <2>6
        <5> QED
          BY <2>7, <5>1
      <4> QED
        BY <2>6, <4>1, <4>2
    <3>4. heap'.current - heap'.begin = old'.current - old'.begin
      <4>1. old'.begin = b /\ old'.current = c
        BY <2>5 DEF b, c
      <4> QED
        BY <4>1, <2>2, <2>5, <2>6
    <3> QED
      BY <3>2, <3>3, <3>4 DEF RoomInv
  <2>13. /\ Sound(mem, O, b, c) /\ Holding(mem, O, O) /\ Rooted(O)
         /\ Grey(mem, O) = {}
         /\ \A h \in B : \A f \in FieldsAt(mem, h) : Leads(mem[f], B)
         /\ \A k \in 1 .. Len(Roots) : Leads(Roots[k], B)
         /\ live = Taken(mem, B, c)
         /\ \A h \in B : Holds(mem, h) = 8 * (b + Taken(mem, B, h))
    BY <1>1, KeptIsTaken DEF HeapInv, MapInv, O, b, c
  <2>14. B \in SUBSET O /\ O \in SUBSET Nat
    BY <2>13, SoundFacts DEF B, Black
  <2> HIDE DEF B
  <2>15. \A a \in b .. c - 1 : mem'[a + d] = mem[a]
    <3>1. ASSUME NEW a \in b .. c - 1 PROVE mem'[a + d] = mem[a]
      <4>1. a + d \in begin .. begin + n - 1 /\ (a + d) - begin < heap.size /\ (a + d) - begin + b = a
        BY <2>2, <2>3, <2>6, <2>7
      <4> QED
        BY <2>5, <4>1
    <3> QED
      BY <3>1
  <2>16. IsMemory(mem', b + d, c + d)
    <3>1. b + d \in Nat /\ c + d \in Nat /\ b + d <= c + d
      BY <2>2, <2>5, <2>6, <2>7, <2>9
    <3>2. 8 * (c + d) < WORD
      <4>1. c + d <= begin + n
        BY <2>5, <2>7, <2>9
      <4> QED
        BY <2>2, <2>3, <2>4, <2>7, <3>1, <4>1
    <3>3. DOMAIN mem' = begin .. begin + n - 1
      BY <2>8
    <3>4. b + d .. (c + d) - 1 \subseteq DOMAIN mem'
      BY <2>2, <2>3, <2>5, <2>7, <2>9, <3>3
    <3>5. mem' \in [DOMAIN mem' -> Word]
      BY <2>8, <3>3
    <3> QED
      BY <2>7, <3>1, <3>2, <3>4, <3>5 DEF IsMemory
  <2>17. /\ \A h \in O : /\ mem'[h + d] = mem[h] /\ mem'[(h + d) + 1] = mem[h + 1]
                         /\ \A f \in FieldsAt(mem', h + d) : /\ f - d \in FieldsAt(mem, h)
                                                             /\ mem'[f] = mem[f - d]
         /\ Sound(mem', P, begin, heap'.current)
         /\ Black(mem', P) = Shifted(B, d)
         /\ Grey(mem', P) = Shifted(Grey(mem, O), d)
    <3>1. d \in Int
      BY <2>7
    <3>2. /\ \A h \in O : /\ mem'[h + d] = mem[h] /\ mem'[(h + d) + 1] = mem[h + 1]
                         /\ \A f \in FieldsAt(mem', h + d) : /\ f - d \in FieldsAt(mem, h)
                                                             /\ mem'[f] = mem[f - d]
          /\ Sound(mem', Shifted(O, d), b + d, c + d)
          /\ Black(mem', Shifted(O, d)) = Shifted(Black(mem, O), d)
          /\ Grey(mem', Shifted(O, d)) = Shifted(Grey(mem, O), d)
      <4>1. Sound(mem, O, b, c)
        BY <2>13
      <4> QED
        BY <2>15, <2>16, <3>1, <4>1, CopySound
    <3> QED
      BY <2>7, <3>2 DEF P, B
  <2>18. AllObjects' = P
    <3>1. Objects(mem', begin, heap'.current) = P
      BY <2>17, SoundObjects
    <3> QED
      BY <2>5, <3>1 DEF AllObjects
  <2> DEFINE C == Black(mem', P)
  <2>19. C = Shifted(B, d) /\ \A h \in B : h + d \in C /\ h \in O
    BY <2>14, <2>17 DEF Shifted
  <2>20. \A y \in C : \E h \in B : y = h + d
    BY <2>19 DEF Shifted
  <2> HIDE DEF C
  <2>21. \A a \in Int : Kept(mem', P, a + d) = Taken(mem, B, a)
    <3>1. \A h \in B : mem'[h + d] = mem[h]
      BY <2>14, <2>17
    <3>2. d \in Int
      BY <2>7
    <3>3. \A a \in Int : Taken(mem', Shifted(B, d), a + d) = Taken(mem, B, a)
      <4>1. Sound(mem, O, b, c)
        BY <2>13
      <4>2. B \in SUBSET O
        BY <2>14
      <4>3. ASSUME NEW a \in Int PROVE Taken(mem', Shifted(B, d), a + d) = Taken(mem, B, a)
        BY <3>1, <3>2, <4>1, <4>2, CopyTaken
      <4> QED
        BY <4>3
    <3> QED
      BY <2>19, <3>3, KeptIsTaken DEF C
  <2>22. /\ Grey(mem', P) = {}
         /\ live = Kept(mem', P, heap'.current)
    <3>1. Grey(mem', P) = {}
      BY <2>13, <2>17 DEF Shifted
    <3>2. c \in Int /\ heap'.current = c + d
      BY <2>6, <2>7
    <3> QED
      BY <2>13, <2>21, <3>1, <3>2
  <2>23. \A h \in B : /\ Holds(mem', h + d) = Holds(mem, h)
                      /\ Holds(mem', h + d) = 8 * (b + Kept(mem', P, h + d))
    <3>1. \A h \in B : h \in Int /\ Holds(mem', h + d) = Holds(mem, h)
      BY <2>14, <2>17 DEF Holds
    <3> QED
      BY <2>13, <2>21, <3>1
  <2>24. \A y \in C : Holds(mem', y) = 8 * (old'.begin + Kept(mem', P, y))
    BY <2>5, <2>20, <2>23 DEF b
  <2>25. DOMAIN ids' = {Dest(mem, y)' : y \in C}
    <3>1. \A y \in C : Dest(mem, y)' = begin + (Holds(mem', y) \div 8 - b)
      BY <2>5 DEF Dest, Rebased, b
    <3>2. ASSUME NEW h \in B
          PROVE  begin + (Holds(mem', h + d) \div 8 - b) = Holds(mem, h) \div 8 - b + begin
      <4>1. h \in O \cup {c}
        BY <2>14
      <4>2. Taken(mem, B, h) \in Nat
        BY <2>13, <2>14, <4>1, TakenEnds
      <4>3. Holds(mem, h) \in Nat
        BY <2>6, <2>13, <4>2
      <4>4. Holds(mem, h) \div 8 \in Int
        BY <4>3
      <4>5. Holds(mem', h + d) = Holds(mem, h)
        BY <2>23
      <4> QED
        BY <2>2, <2>6, <4>4, <4>5
    <3>3. \A h \in B : Holds(mem, h) \div 8 - b + begin \in {Dest(mem, y)' : y \in C}
      BY <2>19, <3>1, <3>2
    <3>4. \A y \in C : Dest(mem, y)' \in {Holds(mem, h) \div 8 - b + begin : h \in B}
      BY <2>20, <3>1, <3>2
    <3> QED
      BY <2>5, <3>3, <3>4
  <2>26. Olds' = B
    <3>1. \A h \in B : (h + d) - begin + b = h
      BY <2>2, <2>6, <2>7, <2>14
    <3>2. \A x : x \in {y - begin + b : y \in C} <=> x \in B
      BY <2>19, <2>20, <3>1
    <3>3. Olds' = {y - begin + b : y \in C}
      BY <2>5, <2>18 DEF Olds, C, b
    <3> QED
      BY <3>2, <3>3
  <2>27. Holding(mem', C, B)
    <3>1. ASSUME NEW h \in B, NEW f \in FieldsAt(mem', h + d) PROVE Is(mem'[f], B)
      <4>1. f - d \in FieldsAt(mem, h) /\ mem'[f] = mem[f - d] /\ h \in O
        BY <2>14, <2>17
      <4>2. Is(mem[f - d], O) /\ Leads(mem[f - d], B)
        BY <2>13, <4>1 DEF Holding
      <4> QED
        BY <2>14, <4>1, <4>2, IsWhatLeads
    <3> QED
      BY <2>20, <3>1 DEF Holding
  <2>28. /\ UNBOXED(stack'[0])
         /\ \A k \in 1 .. sp' - 1 : Is(stack'[k], B)
         /\ \A k \in 1 .. Len(extra_roots') : Is(extra_roots'[k], B)
    <3>1. /\ \A k \in 1 .. Len(Roots) : Is(Roots[k], O)
          /\ ToSet(Roots) = {stack[k] : k \in 1 .. sp - 1} \cup {extra_roots[k] : k \in 1 .. Len(extra_roots)}
          /\ ToSet(Roots) = {Roots[k] : k \in 1 .. Len(Roots)}
      BY <1>1, <2>13, RootsFacts DEF Ends
    <3>2. \A k \in 1 .. Len(Roots) : Is(Roots[k], B)
      BY <2>13, <2>14, <3>1, IsWhatLeads
    <3>3. \A w \in ToSet(Roots) : Is(w, B)
      BY <3>1, <3>2
    <3>4. UNBOXED(stack[0])
      BY <2>13 DEF Rooted
    <3>5. /\ \A k \in 1 .. sp - 1 : Is(stack[k], B)
          /\ \A k \in 1 .. Len(extra_roots) : Is(extra_roots[k], B)
      BY <3>1, <3>3
    <3> QED
      <4>1. stack' = stack /\ sp' = sp /\ extra_roots' = extra_roots
        BY <1>1 DEF program
      <4> QED
        BY <3>4, <3>5, <4>1
  <2>29. CopyInv'
    <3>1. phase' = "fields" /\ live' = live /\ heap'.begin = begin
      BY <1>1, <2>5
    <3>2. Rooted(Olds)'
      BY <2>26, <2>28 DEF Rooted
    <3>3. Black(mem, AllObjects)' = C
      BY <2>18 DEF C
    <3>4. Holding(mem, Black(mem, AllObjects), Olds)'
      BY <2>26, <2>27, <3>3
    <3>5. (DOMAIN ids = {Dest(mem, h) : h \in Black(mem, AllObjects)})'
      BY <2>25, <3>3
    <3> QED
      BY <2>17, <2>18, <2>22, <2>24, <3>1, <3>2, <3>3, <3>4, <3>5 DEF CopyInv
  <2>30. GCInv'
    BY <2>5, <2>10, <2>11, <2>12, <2>29 DEF GCInv, HeapInv, MarkInv, MapInv, MoveInv
  <2>31. \A h \in B : ids'[Dest(mem, h + d)'] = ids[h]
    <3> DEFINE to(h) == Holds(mem, h) \div 8 - b + begin
    <3>1. ids' = [g \in {to(h) : h \in B} |-> ids[CHOOSE h \in B : to(h) = g]]
      BY <2>5
    <3>2. \A h \in B : h \in O \cup {c} /\ Taken(mem, B, h) \in Nat
      <4>1. \A h \in B : h \in O \cup {c}
        BY <2>14
      <4> QED
        BY <2>13, <2>14, <4>1, TakenEnds
    <3>3. ASSUME NEW h \in B PROVE to(h) = Taken(mem, B, h) + begin
      <4> DEFINE t == Taken(mem, B, h)
                 x == Holds(mem, h)
                 a == begin
      <4>1. t \in Nat /\ a \in Nat /\ b \in Nat /\ x = 8 * (b + t)
        BY <2>2, <2>6, <2>13, <3>2
      <4> HIDE DEF t, x, a
      <4>2. x \div 8 - b + a = t + a
        BY ONLY <4>1
      <4> QED
        BY <4>2 DEF t, x, a
    <3>4. ASSUME NEW h \in B PROVE Dest(mem, h + d)' = to(h)
      <4> DEFINE t == Taken(mem, B, h)
                 y == h + d
      <4>1. Dest(mem, y)' = begin + (Holds(mem', y) \div 8 - b)
        <5> HIDE DEF y
        <5> QED
          BY <2>5 DEF Dest, Rebased, b
      <4>2. Holds(mem', y) = 8 * (b + t)
        BY <2>13, <2>23
      <4>3. t \in Nat /\ begin \in Nat /\ b \in Nat /\ to(h) = t + begin
        BY <2>2, <2>6, <3>2, <3>3
      <4> HIDE DEF t
      <4>4. (8 * (b + t)) \div 8 = b + t /\ begin + ((b + t) - b) = t + begin
        BY ONLY <4>3
      <4> HIDE DEF y
      <4>5. Dest(mem, y)' = t + begin
        BY <4>1, <4>2, <4>4
      <4> QED
        BY <4>3, <4>5 DEF y
    <3> HIDE DEF to
    <3>5. ASSUME NEW g \in B, NEW h \in B, to(g) = to(h) PROVE g = h
      <4>1. Taken(mem, B, g) = Taken(mem, B, h)
        BY <2>2, <3>2, <3>3, <3>5
      <4> QED
        BY <2>13, <2>14, <4>1, TakenApart
    <3>6. ASSUME NEW h \in B PROVE ids'[to(h)] = ids[h]
      <4>1. (CHOOSE x \in B : to(x) = to(h)) = h
        BY <3>5
      <4> QED
        BY <3>1, <4>1
    <3> QED
      BY <3>4, <3>6
  <2>32. ASSUME NEW h \in O
         PROVE  h + d \in Nat /\ \A f \in FieldsAt(mem, h) : mem'[f + d] = mem[f]
    <3>1. h >= b /\ h \in Nat /\ h < c /\ FieldsAt(mem, h) \subseteq h + 2 .. Behind(mem, h) - 1
          /\ Behind(mem, h) <= c /\ Behind(mem, h) \in Nat
      <4>1. h + 1 < c /\ c \in Nat /\ h \in Nat
        BY <2>13, SoundFacts
      <4> QED
        BY <2>13, <4>1, SoundFacts
    <3>2. \A f \in FieldsAt(mem, h) : f \in b .. c - 1
      BY <2>6, <3>1
    <3>3. h + d \in Nat
      BY <2>2, <2>6, <2>7, <3>1
    <3> QED
      BY <2>15, <3>2, <3>3
  <2>33. /\ Black(mem, AllObjects)' = Shifted(Black(mem, AllObjects), d)
         /\ Olds' = Black(mem, AllObjects)
    BY <2>18, <2>19, <2>26 DEF B, C, O
  <2>34. Copied(d)
    <3>1. d \in Int /\ phase' = "fields" /\ old' = heap
      BY <2>5, <2>7
    <3>2. heap'.begin = heap.begin + d
      BY <2>5, <2>7 DEF b
    <3>3. \A h \in O : /\ h + d \in Nat /\ mem'[h + d] = mem[h]
                       /\ \A f \in FieldsAt(mem, h) : mem'[f + d] = mem[f]
      BY <2>17, <2>32
    <3> QED
      BY <2>31, <2>33, <3>1, <3>2, <3>3 DEF Copied, B, O
  <2> QED
    BY <2>30, <2>34
<1> QED
  BY <1>2, <1>3

-----------------------------------------------------------------------------
(***************************************************************************)
(* References are brought up to date.                                      *)
(***************************************************************************)
(* What headers and forward words determine.                                 *)
LEMMA SameFrame ==
  ASSUME NEW m, NEW O, NEW b, NEW c, Sound(m, O, b, c), NEW n, IsMemory(n, b, c),
         \A h \in O : n[h] = m[h] /\ n[h + 1] = m[h + 1]
  PROVE  /\ Sound(n, O, b, c)
         /\ \A h \in O : /\ Behind(n, h) = Behind(m, h) /\ FieldsAt(n, h) = FieldsAt(m, h)
                         /\ Holds(n, h) = Holds(m, h)
         /\ Black(n, O) = Black(m, O) /\ Grey(n, O) = Grey(m, O)
         /\ \A a : Kept(n, O, a) = Kept(m, O, a)
<1>1. \A h \in O : /\ Behind(n, h) = Behind(m, h) /\ FieldsAt(n, h) = FieldsAt(m, h)
                   /\ Holds(n, h) = Holds(m, h)
  BY DEF Behind, FieldsAt, Holds
<1>2. Black(n, O) = Black(m, O) /\ Grey(n, O) = Grey(m, O)
  BY DEF Black, Grey, is_marked, is_enqueued
<1>3. Tiles(n, O, b, c)
  BY <1>1 DEF Tiles, Sound
<1>4. Sound(n, O, b, c)
  BY <1>1, <1>3 DEF Sound
<1>5. ASSUME NEW a PROVE Kept(n, O, a) = Kept(m, O, a)
  <2>1. \A h \in Black(m, O) : n[h] = m[h]
    BY DEF Black
  <2>2. Taken(n, Black(m, O), a) = Taken(m, Black(m, O), a)
    BY <2>1, TakenSame
  <2> QED
    BY <1>2, <2>2, KeptIsTaken
<1> QED
  BY <1>1, <1>2, <1>4, <1>5

(* What the phases that fix pointers know of a marked object: where it was    *)
(* and where it will be.                                                   *)
LEMMA NewAddressIs ==
  ASSUME TypeInv, RoomInv, CopyInv, phase \in {"fields", "stack"},
         NEW x \in Black(mem, AllObjects), NEW w, w = Content(x - heap.begin + old.begin)
  PROVE  /\ PointsToOld(w) /\ LooksLikeObject(w)
         /\ Dest(mem, x) \in DOMAIN ids /\ Dest(mem, x) \in Nat
         /\ Dest(mem, x) = heap.begin + Kept(mem, AllObjects, x)
         /\ NewAddress(w) = Content(Dest(mem, x)) /\ NewAddress(w) \in Word
<1> DEFINE O == AllObjects
           b == heap.begin
           c == heap.current
           ob == old.begin
           oc == old.current
           B == Black(mem, O)
           k == Kept(mem, O, x)
           o == x - b + ob
<1>1. /\ Sound(mem, O, b, c)
      /\ \A h \in B : Holds(mem, h) = 8 * (ob + Kept(mem, O, h))
      /\ DOMAIN ids = {Dest(mem, h) : h \in B}
      /\ ob \in Nat /\ c - b = oc - ob /\ B \in SUBSET O
  BY DEF CopyInv, RoomInv, Black
<1>2. /\ b \in Nat /\ c \in Nat /\ WORD \in Nat /\ WORD > 0 /\ oc \in Nat
      /\ x \in O /\ x \in Nat /\ x >= b /\ x + 1 < c /\ x \in DOMAIN mem
      /\ Content(x) + 3 < WORD /\ Content(x) = 8 * (x + 2)
      /\ IsHeader(mem[x])
  <2>1. x \in O /\ IsHeader(mem[x])
    BY <1>1 DEF Sound
  <2>2. oc \in Nat
    BY DEF TypeInv, TypeOK, IsChunk
  <2> HIDE DEF O, b, c, ob, oc
  <2> QED
    BY <1>1, <2>1, <2>2, SoundFacts, ContentFacts, SizesAssumption
<1>3. k \in Nat /\ k <= x - b
  <2>1. x \in O \cup {c} /\ k = Taken(mem, B, x)
    BY <1>2, KeptIsTaken
  <2> HIDE DEF k, O, B, b, c
  <2> QED
    BY <1>1, <2>1, TakenEnds
<1>4. Holds(mem, x) = 8 * (ob + k) /\ x \in B
  BY <1>1
<1> HIDE DEF k, O, B, b, c, ob, oc
<1>5. o \in Nat /\ w = 8 * (o + 2) /\ w \div 8 = o + 2 /\ ~ UNBOXED(w) /\ o >= ob /\ o + 2 <= oc
      /\ w \in Nat
  <2>1. o \in Nat /\ o >= ob /\ o + 2 <= oc
    BY <1>1, <1>2
  <2>2. w = Content(o)
    BY DEF b, ob
  <2> QED
    BY <2>1, <2>2, ContentFacts
<1>6. PointsToOld(w)
  <2>1. 8 * ob <= w /\ w <= 8 * oc
    BY <1>1, <1>2, <1>5
  <2> QED
    BY <1>5, <2>1 DEF PointsToOld, ob, oc
<1>7. Rebased(w \div 8) - 1 = x + 1 /\ Rebased(w \div 8) - 2 = x
  <2>1. Rebased(w \div 8) = b + ((o + 2) - ob)
    BY <1>5 DEF Rebased, b, ob
  <2> QED
    BY <1>1, <1>2, <2>1
<1>8. LooksLikeObject(w)
  BY <1>2, <1>7 DEF LooksLikeObject, DATA_HEADER_SZ
<1>9. Dest(mem, x) = b + k
  <2>1. Dest(mem, x) = b + ((8 * (ob + k)) \div 8 - ob)
    BY <1>4 DEF Dest, Rebased, b, ob
  <2>2. (8 * (ob + k)) \div 8 = ob + k
    BY <1>1, <1>3
  <2> QED
    BY <1>1, <1>2, <1>3, <2>1, <2>2
<1>10. NewAddress(w) = Content(Dest(mem, x)) /\ NewAddress(w) \in Word
  <2>1. NewAddress(w) = (8 * b + 8 * (ob + k) - 8 * ob + 16) % WORD
    BY <1>4, <1>7 DEF NewAddress, Holds, DATA_HEADER_SZ, b, ob
  <2> DEFINE v == 8 * b + 8 * (ob + k) - 8 * ob + 16
  <2>2. v = 8 * (b + k + 2) /\ v \in Nat /\ v < WORD
    BY <1>1, <1>2, <1>3
  <2>3. Content(Dest(mem, x)) = v
    BY <1>9, <2>2, <1>2, <1>3 DEF Content, DATA_HEADER_SZ
  <2> HIDE DEF v
  <2>4. v % WORD = v /\ v \in Word
    BY <1>2, <2>2 DEF Word
  <2> QED
    BY <2>1, <2>3, <2>4 DEF v
<1>11. Dest(mem, x) \in DOMAIN ids
  BY <1>1, <1>4
<1> QED
  BY <1>2, <1>3, <1>6, <1>8, <1>9, <1>10, <1>11 DEF k, b, O

(* A value of the old heap, fixed as the collector fixes it.                  *)
Fixed(w) == IF PointsToOld(w) THEN NewAddress(w) ELSE w

LEMMA FixedIs ==
  ASSUME TypeInv, RoomInv, CopyInv, phase \in {"fields", "stack"}, NEW w, Is(w, Olds)
  PROVE  /\ Is(Fixed(w), DOMAIN ids) /\ Fixed(w) \in Word
         /\ PointsToOld(w) => LooksLikeObject(w)
<1>1. CASE UNBOXED(w)
  BY <1>1 DEF Is, Fixed, PointsToOld
<1>2. CASE ~ UNBOXED(w)
  <2>1. PICK o \in Olds : w = Content(o)
    BY <1>2 DEF Is
  <2>2. PICK x \in Black(mem, AllObjects) : o = x - heap.begin + old.begin
    BY <2>1 DEF Olds
  <2>3. /\ PointsToOld(w) /\ LooksLikeObject(w)
        /\ Dest(mem, x) \in DOMAIN ids
        /\ NewAddress(w) = Content(Dest(mem, x)) /\ NewAddress(w) \in Word
    BY <2>1, <2>2, NewAddressIs
  <2> QED
    BY <2>3 DEF Is, Fixed
<1> QED
  BY <1>1, <1>2

LEMMA FieldsFixed ==
  ASSUME GCInv, update_references, prog' = prog
  PROVE  /\ GCInv' /\ AllObjects' = AllObjects /\ Olds' = Olds
         /\ Black(mem', AllObjects) = Black(mem, AllObjects)
         /\ \A h \in AllObjects : mem'[h] = mem[h] /\ Holds(mem', h) = Holds(mem, h)
         /\ \A h \in Black(mem, AllObjects) : \A f \in FieldsAt(mem, h) : mem'[f] = Fixed(mem[f])
<1> DEFINE O == AllObjects
           b == heap.begin
           c == heap.current
           B == Black(mem, O)
           U == UNION {ToSet(Fields(mem, h)) : h \in Marked}
<1>1. /\ TypeInv /\ ProgramInv /\ RoomInv /\ CopyInv /\ phase = "fields"
      /\ UNCHANGED <<prog, program, heap, mapped, head, tail, live, old, ids>>
      /\ phase' = "stack" /\ next' = 1
      /\ mem' = [a \in DOMAIN mem |-> IF a \in U /\ PointsToOld(mem[a])
                                        THEN NewAddress(mem[a]) ELSE mem[a]]
  BY DEF GCInv, update_references, FIRST_ROOT
<1>2. /\ Sound(mem, O, b, c) /\ Grey(mem, O) = {}
      /\ live = Kept(mem, O, c)
      /\ \A h \in B : Holds(mem, h) = 8 * (old.begin + Kept(mem, O, h))
      /\ DOMAIN ids = {Dest(mem, h) : h \in B}
      /\ Holding(mem, B, Olds) /\ Rooted(Olds)
  BY <1>1 DEF CopyInv
<1>3. B \in SUBSET O /\ Marked = B
  BY DEF Black, Marked
<1>4. \A a : a \in U <=> \E h \in B : a \in FieldsAt(mem, h)
  <2>1. \A h \in O : ToSet(Fields(mem, h)) = FieldsAt(mem, h)
    BY <1>2, SoundFacts
  <2> QED
    BY <1>3, <2>1
<1> HIDE DEF U, O, B, b, c
<1>5. /\ mem \in [DOMAIN mem -> Word] /\ DOMAIN mem' = DOMAIN mem
      /\ \A a \in DOMAIN mem : mem'[a] = IF a \in U THEN Fixed(mem[a]) ELSE mem[a]
  <2>1. mem \in [DOMAIN mem -> Word]
    BY <1>2 DEF Sound, IsMemory
  <2> QED
    BY <1>1, <2>1 DEF Fixed
<1>6. \A a \in U : Is(mem[a], Olds)
  BY <1>2, <1>4 DEF Holding
<1>7. \A a \in U : Is(Fixed(mem[a]), DOMAIN ids) /\ Fixed(mem[a]) \in Word
  BY <1>1, <1>6, FixedIs
<1>8. mem' \in [DOMAIN mem -> Word]
  <2>1. \A a \in DOMAIN mem : mem'[a] \in Word
    BY <1>5, <1>7
  <2>2. mem' = [a \in DOMAIN mem |-> mem'[a]]
    BY <1>1
  <2> QED
    BY <2>1, <2>2
<1>9. \A h \in O : mem'[h] = mem[h] /\ mem'[h + 1] = mem[h + 1]
  <2>1. ASSUME NEW h \in O PROVE mem'[h] = mem[h] /\ mem'[h + 1] = mem[h + 1]
    <3>1. h \in DOMAIN mem /\ h + 1 \in DOMAIN mem
      BY <1>2, SoundFacts
    <3>2. h \notin U /\ h + 1 \notin U
      BY <1>2, <1>3, <1>4, ForwardApart
    <3> QED
      BY <1>5, <3>1, <3>2
  <2> QED
    BY <2>1
<1>10. /\ Sound(mem', O, b, c)
       /\ \A h \in O : /\ FieldsAt(mem', h) = FieldsAt(mem, h)
                       /\ Holds(mem', h) = Holds(mem, h)
       /\ Black(mem', O) = B /\ Grey(mem', O) = {}
       /\ \A a : Kept(mem', O, a) = Kept(mem, O, a)
  <2>1. IsMemory(mem', b, c)
    BY <1>2, <1>5, <1>8 DEF Sound, IsMemory
  <2> QED
    BY <1>2, <1>9, <2>1, SameFrame DEF B
<1>11. AllObjects' = O
  <2>1. Objects(mem', b, c) = O
    BY <1>10, SoundObjects
  <2> QED
    BY <1>1, <2>1 DEF AllObjects, b, c
<1>12. /\ stack' = stack /\ sp' = sp /\ extra_roots' = extra_roots /\ todo' = todo /\ heap' = heap
       /\ prog' = prog /\ mapped' = mapped /\ old' = old /\ ids' = ids /\ live' = live
       /\ head' = head /\ tail' = tail
  BY <1>1 DEF program
<1>13. TypeInv'
  <2>1. mem' \in [heap.begin .. heap.begin + heap.size - 1 -> Word]
    BY <1>1, <1>8 DEF TypeInv, TypeOK
  <2>2. phase' \in {"mutator"} \cup Collecting \cup Ends /\ next' \in Nat
    BY <1>1 DEF Collecting
  <2> QED
    BY <1>1, <1>12, <2>1, <2>2 DEF TypeInv, TypeOK
<1>14. ProgramInv' /\ RoomInv'
  BY <1>1, <1>12 DEF ProgramInv, RoomInv, Ends, I
<1>15. Olds' = Olds
  BY <1>10, <1>11, <1>12 DEF Olds, b, B, O
<1>16. Holding(mem', B, DOMAIN ids)
  <2>1. ASSUME NEW h \in B, NEW f \in FieldsAt(mem', h) PROVE Is(mem'[f], DOMAIN ids)
    <3>1. h \in O /\ f \in FieldsAt(mem, h) /\ f \in DOMAIN mem
      BY <1>2, <1>3, <1>10, SoundFacts
    <3>2. f \in U
      BY <1>4, <3>1
    <3> QED
      BY <1>5, <1>7, <3>1, <3>2
  <2> QED
    BY <2>1 DEF Holding
<1>17. DOMAIN ids = {Dest(mem, h)' : h \in B}
  <2>1. \A h \in B : Dest(mem, h)' = Dest(mem, h)
    BY <1>3, <1>10, <1>12 DEF Dest, Rebased
  <2> QED
    BY <1>2, <2>1
<1>18. CopyInv'
  <2>1. Black(mem, AllObjects)' = B
    BY <1>10, <1>11
  <2>2. (DOMAIN ids = {Dest(mem, h) : h \in Black(mem, AllObjects)})'
    BY <1>12, <1>17, <2>1
  <2>3. \A h \in B : Holds(mem', h) = 8 * (old'.begin + Kept(mem', O, h))
    BY <1>2, <1>3, <1>10, <1>12
  <2>4. live' = Kept(mem', O, c) /\ heap'.begin = b /\ heap'.current = c
    BY <1>2, <1>10, <1>12 DEF b, c
  <2>5. UNBOXED(stack'[0]) /\ next' \in 1 .. STACK_MAX_SIZE + 1
    BY <1>1, <1>2, <1>12, SizesAssumption DEF Rooted
  <2>6. \A j \in 1 .. sp' - 1 : Is(stack'[j], IF j < next' THEN DOMAIN ids' ELSE Olds')
    <3>1. \A j \in 1 .. sp' - 1 : ~ (j < next')
      BY <1>1
    <3>2. \A j \in 1 .. sp' - 1 : Is(stack'[j], Olds')
      BY <1>2, <1>12, <1>15 DEF Rooted
    <3> QED
      BY <3>1, <3>2
  <2>7. \A k \in 1 .. Len(extra_roots') : Is(extra_roots'[k], Olds')
    BY <1>2, <1>12, <1>15 DEF Rooted
  <2>8. Holding(mem', B, DOMAIN ids')
    BY <1>12, <1>16
  <2> QED
    BY <1>1, <1>10, <1>11, <2>1, <2>2, <2>3, <2>4, <2>5, <2>6, <2>7, <2>8 DEF CopyInv
<1>19. GCInv'
  BY <1>1, <1>13, <1>14, <1>18 DEF GCInv, HeapInv, MarkInv, MapInv, MoveInv
<1>20. \A h \in B : \A f \in FieldsAt(mem, h) : mem'[f] = Fixed(mem[f])
  <2>1. \A h \in B : \A f \in FieldsAt(mem, h) : f \in DOMAIN mem
    BY <1>2, <1>3, SoundFacts
  <2> QED
    BY <1>4, <1>5, <2>1
<1>21. \A h \in O : mem'[h] = mem[h] /\ Holds(mem', h) = Holds(mem, h)
  BY <1>9, <1>10
<1> QED
  BY <1>10, <1>11, <1>15, <1>19, <1>20, <1>21 DEF O, B

(* A slot beyond the top may hold anything: what is written back is a word.  *)
LEMMA SlotFixed ==
  ASSUME GCInv, FixSlot, prog' = prog
  PROVE  GCInv'
<1> DEFINE w == stack[next]
<1>1. /\ TypeInv /\ ProgramInv /\ RoomInv /\ CopyInv /\ phase = "stack" /\ next <= LastFixed
      /\ UNCHANGED <<prog, sp, extra_roots, todo, heap, mem, mapped, head, tail, live, old, ids>>
  BY DEF GCInv, FixSlot
<1>2. /\ next \in 1 .. STACK_MAX_SIZE + 1 /\ UNBOXED(stack[0])
      /\ \A j \in 1 .. sp - 1 : Is(stack[j], IF j < next THEN DOMAIN ids ELSE Olds)
      /\ \A k \in 1 .. Len(extra_roots) : Is(extra_roots[k], Olds)
  BY <1>1 DEF CopyInv
<1>3. /\ STACK_MAX_SIZE \in Nat /\ sp \in 0 .. STACK_MAX_SIZE /\ stack \in [Slots -> Word]
      /\ sp >= 1
  BY <1>1, SizesAssumption DEF TypeInv, TypeOK, ProgramInv, Ends
<1>4. next \in Slots /\ next \in Nat /\ next >= 1 /\ next <= sp
  <2>1. next \in Nat /\ next >= 1 /\ next <= sp /\ next <= STACK_MAX_SIZE - 1
    BY <1>1, <1>2, <1>3 DEF LastFixed
  <2> QED
    BY <1>3, <2>1 DEF Slots
<1>5. AllObjects' = AllObjects
  BY <1>1 DEF AllObjects
<1>6. \A h : Dest(mem, h)' = Dest(mem, h)
  BY <1>1 DEF Dest, Rebased
<1>7. Olds' = Olds
  BY <1>1, <1>5 DEF Olds
<1>8. SUFFICES ASSUME phase' \in {"stack", "crashed"}, next' \in Nat, stack' \in [Slots -> Word],
                      phase' = "stack" => /\ next' = next + 1
                                          /\ Is(stack'[next], DOMAIN ids) \/ next = sp
                                          /\ \A j \in Slots : j # next => stack'[j] = stack[j]
               PROVE  GCInv'
  <2>1. CASE ~ PointsToOld(w)
    <3>1. next' = next + 1 /\ stack' = stack /\ phase' = "stack"
      BY <1>1, <2>1 DEF FixSlot
    <3>2. Is(stack[next], DOMAIN ids) \/ next = sp
      <4>1. CASE next # sp
        <5>1. next \in 1 .. sp - 1 /\ ~ (next < next)
          BY <1>3, <1>4, <4>1
        <5>2. Is(w, Olds)
          BY <1>2, <5>1
        <5> QED
          BY <1>1, <2>1, <5>2, FixedIs DEF Fixed
      <4> QED
        BY <4>1
    <3> QED
      BY <1>3, <1>4, <1>8, <3>1, <3>2
  <2>2. CASE PointsToOld(w) /\ ~ LooksLikeObject(w)
    <3>1. next' = next /\ stack' = stack /\ phase' = "crashed"
      BY <2>2 DEF FixSlot
    <3> QED
      BY <1>3, <1>4, <1>8, <3>1
  <2>3. CASE PointsToOld(w) /\ LooksLikeObject(w)
    <3>1. next' = next + 1 /\ stack' = [stack EXCEPT ![next] = NewAddress(w)] /\ phase' = "stack"
      BY <1>1, <2>3 DEF FixSlot
    <3>2. Is(NewAddress(w), DOMAIN ids) \/ next = sp
      <4>1. CASE next # sp
        <5>1. next \in 1 .. sp - 1 /\ ~ (next < next)
          BY <1>3, <1>4, <4>1
        <5>2. Is(w, Olds)
          BY <1>2, <5>1
        <5> QED
          BY <1>1, <2>3, <5>2, FixedIs DEF Fixed
      <4> QED
        BY <4>1
    <3>3. NewAddress(w) \in Word
      <4> DEFINE r == Rebased(w \div 8)
      <4>1. /\ heap.begin \in Nat /\ heap.size \in Nat /\ heap.current \in Nat
            /\ heap.current <= heap.begin + heap.size
            /\ mem \in [heap.begin .. heap.begin + heap.size - 1 -> Word]
            /\ old.begin \in Nat /\ old.current \in Nat
            /\ heap.current - heap.begin = old.current - old.begin
            /\ WORD \in Nat \ {0} /\ w \in Nat
        <5>1. w \in Word /\ WORD \in Nat \ {0}
          BY <1>3, <1>4, SizesAssumption
        <5>2. w \in Nat
          BY <5>1 DEF Word
        <5>3. /\ heap.begin \in Nat /\ heap.size \in Nat
              /\ heap.current \in heap.begin .. heap.begin + heap.size
              /\ mem \in [heap.begin .. heap.begin + heap.size - 1 -> Word]
              /\ old.begin \in Nat /\ old.current \in old.begin .. old.begin + old.size /\ old.size \in Nat
          BY <1>1 DEF TypeInv, TypeOK, IsChunk
        <5>4. heap.current - heap.begin = old.current - old.begin
          BY <1>1 DEF RoomInv
        <5> QED
          BY <5>1, <5>2, <5>3, <5>4
      <4>2. w <= 8 * old.current
        BY <2>3 DEF PointsToOld
      <4>3. w \div 8 \in Nat /\ w \div 8 <= old.current
        BY <4>1, <4>2
      <4>4. r = heap.begin + (w \div 8 - old.begin)
        BY DEF Rebased
      <4>5. r \in Int /\ r - 2 \in DOMAIN mem
        BY <2>3, <4>1, <4>3, <4>4 DEF LooksLikeObject, DATA_HEADER_SZ
      <4> HIDE DEF r
      <4>6. r - 1 \in heap.begin .. heap.begin + heap.size - 1
        <5>1. r - 2 \in heap.begin .. heap.begin + heap.size - 1
          BY <4>1, <4>5
        <5>2. r <= heap.current
          <6> DEFINE q == w \div 8
          <6>1. q \in Nat /\ q <= old.current /\ r = heap.begin + (q - old.begin)
            BY <4>3, <4>4
          <6>2. /\ heap.begin \in Nat /\ heap.current \in Nat /\ old.begin \in Nat /\ old.current \in Nat
                /\ heap.current - heap.begin = old.current - old.begin
            BY <4>1
          <6> HIDE DEF q
          <6> QED
            BY <6>1, <6>2
        <5> QED
          BY <4>1, <4>5, <5>1, <5>2
      <4>7. mem[r - 1] \in Nat
        BY <4>1, <4>6 DEF Word
      <4>8. GET_FORWARD_ADDRESS(mem[r - 1]) \in Int
        BY <4>7 DEF GET_FORWARD_ADDRESS
      <4> DEFINE v == 8 * heap.begin + GET_FORWARD_ADDRESS(mem[r - 1]) - 8 * old.begin + (8 * DATA_HEADER_SZ)
      <4>9. v \in Int /\ NewAddress(w) = v % WORD
        BY <4>1, <4>8 DEF NewAddress, r, DATA_HEADER_SZ
      <4> HIDE DEF v
      <4> QED
        BY <4>1, <4>9 DEF Word
    <3> QED
      BY <1>3, <1>4, <1>8, <3>1, <3>2, <3>3
  <2> QED
    BY <2>1, <2>2, <2>3
<1>9. TypeInv'
  BY <1>1, <1>8 DEF TypeInv, TypeOK, Collecting, Ends
<1>10. CASE phase' = "crashed"
  BY <1>9, <1>10 DEF GCInv, ProgramInv, HeapInv, MarkInv, MapInv, RoomInv, CopyInv, MoveInv, Ends
<1>11. CASE phase' = "stack"
  <2>1. ProgramInv' /\ RoomInv'
    BY <1>1, <1>11 DEF ProgramInv, RoomInv, Ends, I
  <2>2. (DOMAIN ids = {Dest(mem, h) : h \in Black(mem, AllObjects)})'
    <3>1. DOMAIN ids = {Dest(mem, h) : h \in Black(mem, AllObjects)}
      BY <1>1 DEF CopyInv
    <3> QED
      BY <1>1, <1>5, <1>6, <3>1
  <2>3. UNBOXED(stack'[0])
    <3>1. 0 \in Slots /\ 0 # next
      BY <1>3, <1>4 DEF Slots
    <3> QED
      BY <1>2, <1>8, <1>11, <3>1
  <2>4. \A j \in 1 .. sp - 1 : Is(stack'[j], IF j < next' THEN DOMAIN ids ELSE Olds)
    <3>1. ASSUME NEW j \in 1 .. sp - 1 PROVE Is(stack'[j], IF j < next + 1 THEN DOMAIN ids ELSE Olds)
      <4>1. j \in Slots /\ j # sp
        BY <1>3 DEF Slots
      <4>2. CASE j = next
        <5>1. j < next + 1
          BY <1>4, <4>2
        <5> QED
          BY <1>8, <1>11, <4>1, <4>2, <5>1
      <4>3. CASE j # next
        <5>1. stack'[j] = stack[j]
          BY <1>8, <1>11, <4>1, <4>3
        <5>2. j < next + 1 <=> j < next
          BY <1>4, <4>3
        <5> QED
          BY <1>2, <5>1, <5>2
      <4> QED
        BY <4>2, <4>3
    <3> QED
      BY <1>8, <1>11, <3>1
  <2>5. next' \in 1 .. STACK_MAX_SIZE + 1
    BY <1>3, <1>4, <1>8, <1>11 DEF Slots
  <2>6. CopyInv'
    <3>1. /\ Sound(mem, AllObjects, heap.begin, heap.current)
          /\ Grey(mem, AllObjects) = {}
          /\ live = Kept(mem, AllObjects, heap.current)
          /\ \A h \in Black(mem, AllObjects) :
               Holds(mem, h) = 8 * (old.begin + Kept(mem, AllObjects, h))
          /\ Holding(mem, Black(mem, AllObjects), DOMAIN ids)
      BY <1>1 DEF CopyInv
    <3> QED
      BY <1>1, <1>2, <1>5, <1>7, <1>11, <2>2, <2>3, <2>4, <2>5, <3>1 DEF CopyInv
  <2> QED
    BY <1>9, <1>11, <2>1, <2>6 DEF GCInv, HeapInv, MarkInv, MapInv, MoveInv
<1> QED
  BY <1>8, <1>10, <1>11

(* The objects have not moved yet: none is below Frontier.                   *)
LEMMA RootsFixed ==
  ASSUME GCInv, scan_and_fix_region_roots, prog' = prog
  PROVE  GCInv' /\ Rest' = AllObjects /\ Done' = {}
<1> DEFINE O == AllObjects
           b == heap.begin
           c == heap.current
           B == Black(mem, O)
<1>1. /\ TypeInv /\ ProgramInv /\ RoomInv /\ CopyInv /\ phase = "stack" /\ next > LastFixed
      /\ UNCHANGED <<prog, stack, sp, todo, heap, mem, mapped, head, tail, live, old, ids>>
      /\ extra_roots' = [k \in DOMAIN extra_roots |-> Fixed(extra_roots[k])]
      /\ phase' = "move" /\ next' = b
  BY DEF GCInv, scan_and_fix_region_roots, Fixed
<1>2. /\ Sound(mem, O, b, c) /\ Grey(mem, O) = {} /\ live = Kept(mem, O, c)
      /\ \A h \in B : Holds(mem, h) = 8 * (old.begin + Kept(mem, O, h))
      /\ DOMAIN ids = {Dest(mem, h) : h \in B}
      /\ Holding(mem, B, DOMAIN ids)
      /\ UNBOXED(stack[0])
      /\ \A j \in 1 .. sp - 1 : Is(stack[j], IF j < next THEN DOMAIN ids ELSE Olds)
      /\ \A k \in 1 .. Len(extra_roots) : Is(extra_roots[k], Olds)
  BY <1>1 DEF CopyInv
<1>3. B \in SUBSET O
  BY DEF Black
<1>4. /\ next \in Nat /\ sp \in Nat /\ STACK_MAX_SIZE \in Nat /\ extra_roots \in Seq(Word)
      /\ b \in Nat /\ c \in Nat /\ b <= c /\ 8 * c < WORD /\ WORD \in Nat /\ WORD % 8 = 0
      /\ mem \in [DOMAIN mem -> Word]
  <2>1. /\ next \in Nat /\ sp \in Nat /\ STACK_MAX_SIZE \in Nat /\ extra_roots \in Seq(Word)
    BY <1>1, SizesAssumption DEF TypeInv, TypeOK
  <2> QED
    BY <1>2, <2>1, SizesAssumption DEF Sound, IsMemory
<1>5. \A j \in 1 .. sp - 1 : Is(stack[j], DOMAIN ids)
  <2>1. \A j \in 1 .. sp - 1 : j < next
    BY <1>1, <1>2, <1>4 DEF LastFixed
  <2> QED
    BY <1>2, <2>1
<1>6. \A k \in 1 .. Len(extra_roots) : Is(Fixed(extra_roots[k]), DOMAIN ids)
                                       /\ Fixed(extra_roots[k]) \in Word
  BY <1>1, <1>2, FixedIs
<1>7. /\ extra_roots' \in Seq(Word) /\ Len(extra_roots') = Len(extra_roots)
      /\ \A k \in 1 .. Len(extra_roots') : Is(extra_roots'[k], DOMAIN ids)
  <2>1. DOMAIN extra_roots = 1 .. Len(extra_roots) /\ Len(extra_roots) \in Nat
    BY <1>4
  <2>2. extra_roots' = [k \in 1 .. Len(extra_roots) |-> Fixed(extra_roots[k])]
    BY <1>1, <2>1
  <2>3. \A k \in 1 .. Len(extra_roots) : extra_roots'[k] = Fixed(extra_roots[k])
    BY <2>2
  <2>4. extra_roots' \in Seq(Word) /\ Len(extra_roots') = Len(extra_roots)
    BY <1>6, <2>1, <2>2
  <2> QED
    BY <1>6, <2>3, <2>4
<1>8. TypeInv'
  BY <1>1, <1>4, <1>7 DEF TypeInv, TypeOK, Collecting
<1>9. ProgramInv' /\ RoomInv'
  <2>1. Len(extra_roots') = Len(extra_roots)
    BY <1>7
  <2> QED
    BY <1>1, <2>1 DEF ProgramInv, RoomInv, Ends, I
<1> HIDE DEF O, b, c, B
<1>10. Rest' = O
  <2>1. Objects(mem, b, c) = O
    BY <1>2, SoundObjects
  <2> QED
    BY <1>1, <2>1 DEF Rest, b, c
<1>11. live = Taken(mem, B, c) /\ live \in Nat
  <2>1. live = Taken(mem, B, c)
    BY <1>2, KeptIsTaken DEF B
  <2>2. Taken(mem, B, c) \in Nat
    BY <1>2, <1>3, WordsBelow
  <2> QED
    BY <2>1, <2>2
<1>12. Frontier' = b
  <2>1. Frontier' = b + live - Kept(mem, O, c)
    BY <1>1, <1>10 DEF Frontier, b, c
  <2>2. Frontier' = b + live - live
    BY <1>2, <2>1
  <2> QED
    BY <1>4, <1>11, <2>2
<1>13. \A h \in B : Dest(mem, h) \in Nat /\ Dest(mem, h) >= b
  <2>1. ASSUME NEW h \in B PROVE Dest(mem, h) \in Nat /\ Dest(mem, h) >= b
    <3>1. Dest(mem, h) = b + Kept(mem, O, h)
      BY <1>1, NewAddressIs DEF B, O, b
    <3>2. Kept(mem, O, h) \in Nat
      <4>1. Taken(mem, B, h) \in Nat
        BY <1>2, <1>3, WordsBelow
      <4> QED
        BY <4>1, KeptIsTaken DEF B
    <3> QED
      BY <1>4, <3>1, <3>2
  <2> QED
    BY <2>1
<1>14. Done' = {}
  <2>1. \A d \in DOMAIN ids : ~ (d < b)
    BY <1>2, <1>4, <1>13
  <2>2. Done' = {d \in DOMAIN ids : d < b}
    BY <1>1, <1>12 DEF Done
  <2> QED
    BY <2>1, <2>2
<1>15. Sound(mem, {}, b, b)
  <2>1. IsMemory(mem, b, b)
    <3>1. 8 * b < WORD /\ b .. b - 1 = {}
      BY <1>4
    <3> QED
      BY <1>4, <3>1 DEF IsMemory
  <2>2. Tiles(mem, {}, b, b)
    BY <1>4, TilesEmpty
  <2> QED
    BY <2>1, <2>2 DEF Sound
<1>16. \A h \in B : Holds(mem, h) = 8 * (old.begin + b - b + Kept(mem, O, h))
  <2>1. old.begin + b - b = old.begin
    BY <1>1, <1>4 DEF RoomInv
  <2> QED
    BY <1>2, <2>1
<1>17. \A h \in B : Dest(mem, h)' = Dest(mem, h)
  BY <1>1 DEF Dest, Rebased
<1>18. MoveInv'
  <2>1. /\ heap' = heap /\ mem' = mem /\ ids' = ids /\ old' = old /\ live' = live
    BY <1>1
  <2>2. Black(mem, Rest)' = B
    BY <1>10, <2>1 DEF B
  <2>3. (DOMAIN ids = Done \cup {Dest(mem, h) : h \in Black(mem, Rest)})'
    BY <1>2, <1>14, <1>17, <2>1, <2>2
  <2>4. next' \in b .. c /\ Frontier' \in b .. next'
    BY <1>1, <1>4, <1>12 DEF b
  <2>5. Rooted(DOMAIN ids)'
    BY <1>1, <1>2, <1>5, <1>7 DEF Rooted
  <2>6. \A h \in B : Holds(mem, h) = 8 * (old.begin + Frontier' - b + Kept(mem, O, h))
    BY <1>12, <1>16
  <2>7. Dark(mem, {}) = {} /\ Holding(mem, {}, DOMAIN ids)
    BY DEF Dark, Black, Grey, Holding
  <2>8. Sound(mem, O, next', c) /\ Sound(mem, {}, b, Frontier')
    BY <1>1, <1>2, <1>12, <1>15 DEF b
  <2> QED
    BY <1>2, <1>10, <1>14, <2>1, <2>2, <2>3, <2>4, <2>5, <2>6, <2>7, <2>8 DEF MoveInv, b, c
<1>19. GCInv'
  BY <1>1, <1>8, <1>9, <1>18 DEF GCInv, HeapInv, MarkInv, MapInv, CopyInv
<1> QED
  BY <1>10, <1>14, <1>19 DEF O

-----------------------------------------------------------------------------
(***************************************************************************)
(* Objects are moved.                                                      *)
(***************************************************************************)
(* A stretch of memory that has not changed holds the same objects.           *)
LEMMA SameStretch ==
  ASSUME NEW m, NEW O, NEW b, NEW c, Sound(m, O, b, c), NEW n, IsMemory(n, b, c),
         \A a \in b .. c - 1 : n[a] = m[a]
  PROVE  /\ Sound(n, O, b, c)
         /\ \A h \in O : /\ n[h] = m[h]
                         /\ Behind(n, h) = Behind(m, h) /\ FieldsAt(n, h) = FieldsAt(m, h)
                         /\ Holds(n, h) = Holds(m, h)
                         /\ \A f \in FieldsAt(m, h) : n[f] = m[f]
         /\ Black(n, O) = Black(m, O) /\ Grey(n, O) = Grey(m, O)
         /\ \A a : Kept(n, O, a) = Kept(m, O, a)
<1>1. /\ b \in Nat /\ c \in Nat
      /\ \A h \in O : /\ h \in Nat /\ h >= b /\ h + 1 < c
                      /\ Behind(m, h) \in Nat /\ Behind(m, h) <= c
                      /\ FieldsAt(m, h) \subseteq h + 2 .. Behind(m, h) - 1
  BY SoundFacts
<1>2. \A h \in O : h \in b .. c - 1 /\ h + 1 \in b .. c - 1
  BY <1>1
<1>3. \A h \in O : n[h] = m[h] /\ n[h + 1] = m[h + 1]
  BY <1>2
<1>4. \A h \in O : \A f \in FieldsAt(m, h) : f \in b .. c - 1
  BY <1>1
<1>5. \A h \in O : \A f \in FieldsAt(m, h) : n[f] = m[f]
  BY <1>4
<1> QED
  BY <1>3, <1>5, SameFrame

(* One more object behind those of a heap.                                   *)
LEMMA OneMore ==
  ASSUME NEW m, NEW O, NEW b, NEW c, Sound(m, O, b, c),
         IsMemory(m, b, Behind(m, c)), m[c] \in Nat, IsHeader(m[c])
  PROVE  Sound(m, O \cup {c}, b, Behind(m, c))
<1> DEFINE d == Behind(m, c)
           P == O \cup {c}
<1>1. /\ b \in Nat /\ c \in Nat /\ b <= c /\ (b < c => b \in O)
      /\ \A h \in O : /\ h \in Nat /\ h >= b /\ h + 1 < c
                      /\ Behind(m, h) \in Nat /\ Behind(m, h) \in O \cup {c} /\ Behind(m, h) <= c
                      /\ IsHeader(m[h])
      /\ \A g, h \in O : g < h => Behind(m, g) <= h
  BY SoundFacts DEF Sound
<1>2. d \in Nat /\ d >= c + 2
  BY <1>1, SizeFacts DEF Behind
<1> HIDE DEF d
<1>3. P \subseteq b .. d - 1
  BY <1>1, <1>2
<1>4. b \in P
  BY <1>1
<1>5. \A h \in P : Behind(m, h) \in P \/ Behind(m, h) >= d
  BY <1>1, <1>2 DEF d
<1>6. ASSUME NEW g \in P, NEW h \in P, g < h PROVE Behind(m, g) <= h
  <2>1. g \in O
    BY <1>1, <1>6
  <2>2. CASE h \in O
    BY <1>1, <1>6, <2>1, <2>2
  <2>3. CASE h = c
    BY <1>1, <2>1, <2>3
  <2> QED
    BY <2>2, <2>3
<1>7. Tiles(m, P, b, d)
  BY <1>3, <1>4, <1>5, <1>6 DEF Tiles
<1>8. \A h \in P : Behind(m, h) <= d /\ IsHeader(m[h])
  BY <1>1, <1>2 DEF d
<1> QED
  BY <1>7, <1>8 DEF Sound, d

(* One object less, in front.                                                *)
LEMMA OneLess ==
  ASSUME NEW m, NEW O, NEW b, NEW c, Sound(m, O, b, c), b < c
  PROVE  /\ b \in O /\ Sound(m, O \ {b}, Behind(m, b), c)
         /\ Black(m, O \ {b}) = Black(m, O) \ {b} /\ Grey(m, O \ {b}) \subseteq Grey(m, O)
         /\ \A d \in (O \ {b}) \cup {c} :
              Kept(m, O, d) = Kept(m, O \ {b}, d) + (IF b \in Black(m, O) THEN Size(m[b]) ELSE 0)
<1> DEFINE P == O \ {b}
           e == Behind(m, b)
           s == Size(m[b])
<1>1. /\ b \in Nat /\ c \in Nat /\ b \in O /\ O \subseteq Nat
      /\ \A h \in O : /\ h \in Nat /\ h >= b /\ h + 1 < c /\ m[h] \in Nat
                      /\ Behind(m, h) \in Nat /\ Behind(m, h) >= h + 2
                      /\ Behind(m, h) \in O \cup {c} /\ Behind(m, h) <= c
                      /\ IsHeader(m[h])
      /\ \A g, h \in O : g < h => Behind(m, g) <= h
      /\ IsMemory(m, b, c)
  BY SoundFacts DEF Sound
<1>2. s \in Nat /\ s >= 2 /\ e = b + s /\ e \in Nat /\ e <= c /\ e > b
  BY <1>1, SizeFacts DEF Behind
<1> HIDE DEF e, s, P
<1>3. \A h : h \in P <=> h \in O /\ h # b
  BY DEF P
<1>4. ASSUME NEW h \in P PROVE h >= e /\ h \in O /\ h \in Nat
  <2>1. h \in O /\ h # b
    BY <1>3
  <2>2. h \in O /\ h \in Nat /\ b < h
    <3>1. h \in Nat /\ h >= b /\ b \in Nat
      BY <1>1, <2>1
    <3> QED
      BY <2>1, <3>1
  <2>3. Behind(m, b) <= h
    BY <1>1, <2>2
  <2> QED
    BY <1>2, <2>2, <2>3 DEF e
<1>5. Tiles(m, P, e, c)
  <2>1. \A h \in P : h \in e .. c - 1
    BY <1>1, <1>2, <1>4
  <2>2. e < c => e \in P
    BY <1>1, <1>2, <1>3 DEF e
  <2>3. ASSUME NEW h \in P PROVE Behind(m, h) \in P \/ Behind(m, h) >= c
    <3>1. h \in O
      BY <1>3
    <3>2. h \in Nat /\ h >= b /\ b \in Nat /\ Behind(m, h) \in Nat /\ Behind(m, h) >= h + 2
          /\ Behind(m, h) \in O \cup {c}
      BY <1>1, <3>1
    <3>3. Behind(m, h) > b /\ Behind(m, h) \in O \cup {c}
      BY <3>2
    <3>4. Behind(m, h) # b
      BY <1>1, <1>3, <3>3
    <3> QED
      BY <1>1, <1>3, <3>3, <3>4
  <2>4. \A g, h \in P : g < h => Behind(m, g) <= h
    BY <1>1, <1>3
  <2> QED
    BY <2>1, <2>2, <2>3, <2>4 DEF Tiles
<1>6. Sound(m, P, e, c)
  <2>1. e .. c - 1 \subseteq b .. c - 1
    BY <1>1, <1>2
  <2>2. IsMemory(m, e, c)
    BY <1>1, <1>2, <2>1 DEF IsMemory
  <2>3. \A h \in P : Behind(m, h) <= c /\ IsHeader(m[h])
    BY <1>1, <1>3
  <2> QED
    BY <1>5, <2>2, <2>3 DEF Sound
<1>7. Black(m, P) = Black(m, O) \ {b} /\ Grey(m, P) \subseteq Grey(m, O)
  BY <1>3 DEF Black, Grey
<1>8. ASSUME NEW d \in P \cup {c}
      PROVE  Kept(m, O, d) = Kept(m, P, d) + (IF b \in Black(m, O) THEN s ELSE 0)
  <2> DEFINE V == Words(m, Below(Black(m, O), d))
             W == Words(m, Below(Black(m, P), d))
             J == b .. e - 1
  <2>1. Black(m, O) \in SUBSET O /\ Black(m, P) \in SUBSET P
    BY DEF Black
  <2>2. \A w : w \in V <=> \E h \in Black(m, O) : h < d /\ w \in Int /\ h <= w /\ w < Behind(m, h)
    BY <2>1, WordsBelow
  <2>3. /\ IsFiniteSet(W) /\ Cardinality(W) \in Nat
        /\ \A w : w \in W <=> \E h \in Black(m, P) : h < d /\ w \in Int /\ h <= w /\ w < Behind(m, h)
    BY <1>6, <2>1, WordsBelow DEF Taken
  <2>4. IsFiniteSet(J) /\ Cardinality(J) = s
    <3>1. b \in Int /\ e - 1 \in Int /\ (IF b > e - 1 THEN 0 ELSE e - 1 - b + 1) = s
      BY <1>1, <1>2
    <3> HIDE DEF V, W
    <3> QED
      BY <3>1, FS_Interval
  <2>5. \A w : w \in J <=> w \in Int /\ b <= w /\ w < Behind(m, b)
    BY <1>1, <1>2 DEF e
  <2>6. d > b /\ d \in Nat
    BY <1>1, <1>2, <1>4
  <2>7. Kept(m, O, d) = Cardinality(V) /\ Kept(m, P, d) = Cardinality(W)
    BY DEF Kept
  <2> HIDE DEF V, W, J
  <2>8. CASE b \in Black(m, O)
    <3>1. \A w : w \in V <=> w \in W \/ w \in J
      BY <1>7, <2>2, <2>3, <2>5, <2>6, <2>8
    <3>2. V = W \cup J
      BY <3>1
    <3>3. W \cap J = {}
      <4>1. \A w \in W : w \notin J
        <5>1. ASSUME NEW w \in W PROVE w \notin J
          <6>1. PICK h \in Black(m, P) : w \in Int /\ h <= w
            BY <2>3
          <6>2. h >= e /\ h \in Nat
            BY <1>4, <2>1, <6>1
          <6> QED
            BY <1>2, <2>5, <6>1, <6>2 DEF e
        <5> QED
          BY <5>1
      <4> QED
        BY <4>1
    <3>4. Cardinality(V) = Cardinality(W) + Cardinality(J) - Cardinality(W \cap J)
      BY <2>3, <2>4, <3>2, FS_Union
    <3>5. Cardinality(W \cap J) = 0
      BY <3>3, FS_EmptySet
    <3> QED
      BY <1>2, <2>3, <2>4, <2>7, <2>8, <3>4, <3>5
  <2>9. CASE b \notin Black(m, O)
    <3>1. \A w : w \in V <=> w \in W
      BY <1>7, <2>2, <2>3, <2>9
    <3>2. V = W
      BY <3>1
    <3> QED
      BY <2>3, <2>7, <2>9, <3>2
  <2> QED
    BY <2>8, <2>9
<1> QED
  BY <1>1, <1>6, <1>7, <1>8 DEF P, e, s

(* What a step of the relocation does to the objects: the one at the front   *)
(* of the rest, when it is marked, is at Frontier as it was; the others are  *)
(* left alone.                                                             *)
Relocated ==
  /\ Black(mem, Rest)' = Black(mem, Rest) \ {next}
  /\ \A x \in Done \cup (Black(mem, Rest) \ {next}) :
       mem'[x] = mem[x] /\ \A f \in FieldsAt(mem, x) : mem'[f] = mem[f]
  /\ \A x \in Black(mem, Rest) \ {next} : Dest(mem, x)' = Dest(mem, x)
  /\ next \notin Black(mem, Rest) => Done' = Done
  /\ next \in Black(mem, Rest) =>
       /\ Done' = Done \cup {Frontier} /\ Dest(mem, next) = Frontier
       /\ mem'[Frontier] = mem[next]
       /\ \A f \in FieldsAt(mem, next) : mem'[f + (Frontier - next)] = mem[f]

(* The object at the front of the rest, if it is marked, moves to Frontier:   *)
(* over what has moved before and over itself, never over the rest.          *)
LEMMA ObjectMoved ==
  ASSUME GCInv, physically_relocate, prog' = prog
  PROVE  GCInv' /\ Relocated
<1> DEFINE b == heap.begin
           c == heap.current
           ob == old.begin
           R == Rest
           D == Done
           F == Frontier
           N == DOMAIN ids
           B == Black(mem, R)
           h == next
           e == Behind(mem, h)
           s == Size(mem[h])
           R1 == R \ {h}
           s1 == IF h \in B THEN s ELSE 0
           top == b + heap.size
<1>1. /\ TypeInv /\ ProgramInv /\ RoomInv /\ MoveInv /\ phase = "move" /\ h < c
      /\ UNCHANGED <<prog, program, heap, mapped, phase, head, tail, live, old, ids>>
      /\ next' = h + s
  BY DEF GCInv, physically_relocate
<1>2. /\ h \in b .. c
      /\ Sound(mem, R, h, c) /\ Grey(mem, R) = {}
      /\ F \in b .. h
      /\ Sound(mem, D, b, F) /\ Dark(mem, D) = {} /\ Holding(mem, D, N)
      /\ Holding(mem, B, N)
      /\ \A x \in B : Holds(mem, x) = 8 * (ob + F - b + Kept(mem, R, x))
      /\ N = D \cup {Dest(mem, x) : x \in B}
      /\ Rooted(N)
  BY <1>1 DEF MoveInv
<1>3. /\ F = b + live - Kept(mem, R, c)
      /\ D = {d \in N : d < F}
  BY DEF Frontier, Done
<1>4. /\ b \in Nat /\ c \in Nat /\ ob \in Nat /\ h \in Nat /\ F \in Nat /\ b <= F /\ F <= h /\ live \in Nat
      /\ 8 * c < WORD /\ WORD \in Nat /\ WORD % 8 = 0 /\ c <= top /\ top \in Nat
      /\ DOMAIN mem = b .. top - 1 /\ mem \in [DOMAIN mem -> Word]
  <2>1. /\ b \in Nat /\ heap.size \in Nat /\ c \in b .. b + heap.size /\ live \in Nat
        /\ mem \in [b .. b + heap.size - 1 -> Word]
    BY <1>1 DEF TypeInv, TypeOK, IsChunk
  <2>2. 8 * c < WORD /\ WORD % 8 = 0 /\ WORD \in Nat
    BY <1>2, SizesAssumption DEF Sound, IsMemory
  <2>3. ob \in Nat
    BY <1>1 DEF RoomInv
  <2>4. top \in Nat /\ c <= top /\ DOMAIN mem = b .. top - 1 /\ mem \in [DOMAIN mem -> Word]
    BY <2>1
  <2> HIDE DEF F, b, c, h, ob, top
  <2>5. h \in Nat /\ F \in Nat /\ b <= F /\ F <= h
    BY <1>2, <2>1
  <2> QED
    BY <2>1, <2>2, <2>3, <2>5, <2>4
<1>5. \A x \in B : Dest(mem, x) = b + (Holds(mem, x) \div 8 - ob)
  BY DEF Dest, Rebased
<1>6. N' = N /\ heap' = heap /\ \A x : Dest(mem, x)' = b + (Holds(mem', x) \div 8 - ob)
  BY <1>1 DEF Dest, Rebased
<1>7. B \in SUBSET R
  BY DEF Black
<1>8. mem' = IF h \in B THEN MovedTo(mem, h, Rebased(Holds(mem, h) \div 8)) ELSE mem
  <2>1. h \in R
    BY <1>1, <1>2, OneLess
  <2>2. h \in B <=> is_marked(mem, h)
    BY <2>1 DEF Black
  <2> HIDE DEF B
  <2>3. mem' = IF is_marked(mem, h) THEN MovedTo(mem, h, Rebased(Holds(mem, h) \div 8)) ELSE mem
    BY DEF physically_relocate, Holds
  <2> QED
    BY <2>2, <2>3
<1>9. Frontier' = b + live - Kept(mem', Rest', c) /\ Done' = {d \in N : d < Frontier'}
  BY <1>1 DEF Frontier, Done
<1>10. Rest' = Objects(mem', next', c)
  BY <1>1 DEF Rest
<1>11. Rebased(Holds(mem, h) \div 8) = b + (Holds(mem, h) \div 8 - ob)
  BY DEF Rebased
<1>12. h \in R /\ Sound(mem, R1, e, c) /\ Black(mem, R1) = B \ {h} /\ Grey(mem, R1) = {}
       /\ \A d \in R1 \cup {c} : Kept(mem, R, d) = Kept(mem, R1, d) + s1
  BY <1>1, <1>2, OneLess
<1> HIDE DEF b, c, ob, R, D, F, N, B, h, R1, top, s1
<1>13. /\ b \in Nat /\ c \in Nat /\ ob \in Nat /\ h \in Nat /\ F \in Nat /\ live \in Nat /\ top \in Nat
       /\ b <= F /\ F <= h /\ h < c /\ c <= top
  <2>1. h < c
    BY <1>1 DEF h, c
  <2> QED
    BY <1>4, <2>1
<1>14. s \in Nat /\ s >= 2 /\ e = h + s /\ e \in Nat /\ e <= c /\ mem[h] \in Nat /\ mem[h + 1] \in Nat
       /\ IsHeader(mem[h]) /\ h + 1 < c
  <2>1. mem[h] \in Nat /\ Behind(mem, h) <= c /\ mem[h + 1] \in Nat /\ h + 1 < c
    BY <1>2, <1>12, SoundFacts
  <2>2. s \in Nat /\ s >= 2 /\ e = h + s
    BY <2>1, SizeFacts DEF Behind
  <2>3. IsHeader(mem[h])
    BY <1>2, <1>12 DEF Sound
  <2>4. e <= c
    BY <2>1
  <2>5. h \in Nat /\ c \in Nat
    BY <1>4
  <2> HIDE DEF e, s
  <2>6. e \in Nat
    BY ONLY <2>2, <2>5
  <2> QED
    BY ONLY <2>1, <2>2, <2>3, <2>4, <2>6
<1>15. next' = e
  BY <1>1, <1>14
<1> HIDE DEF e, s
<1>16. s \in Nat /\ s >= 2 /\ e = h + s /\ e \in Nat /\ e <= c
  BY <1>14
<1>17. DOMAIN mem = b .. top - 1 /\ mem \in [DOMAIN mem -> Word]
  BY <1>4
<1>18. \A x \in R \cup {c} : Kept(mem, R, x) \in Nat
  BY <1>2, <1>7, TakenEnds, KeptIsTaken DEF B
<1>19. \A x \in R1 \cup {c} : Kept(mem, R1, x) \in Nat
  <2>1. Black(mem, R1) \in SUBSET R1
    BY DEF Black
  <2>2. Sound(mem, R1, e, c)
    BY <1>12
  <2>3. \A x \in R1 \cup {c} : Taken(mem, Black(mem, R1), x) \in Nat
    BY <2>1, <2>2, TakenEnds
  <2> QED
    BY <2>3, KeptIsTaken
<1>20. Kept(mem, R, h) = 0
  BY <1>2, <1>7, TakenEnds, KeptIsTaken DEF B
<1>21. ASSUME NEW x \in B
       PROVE  Dest(mem, x) = F + Kept(mem, R, x) /\ Holds(mem, x) \div 8 = ob + F - b + Kept(mem, R, x)
  <2> DEFINE k == Kept(mem, R, x)
  <2>1. k \in Nat
    BY <1>7, <1>18
  <2>2. Holds(mem, x) = 8 * (ob + F - b + k)
    BY <1>2
  <2> HIDE DEF k
  <2>3. ob + F - b + k \in Nat
    BY <1>13, <2>1
  <2>4. Holds(mem, x) \div 8 = ob + F - b + k
    BY <2>3, <2>2
  <2>5. Dest(mem, x) = b + ((ob + F - b + k) - ob)
    BY <1>5, <2>4
  <2> QED
    BY <1>4, <2>1, <2>4, <2>5 DEF k
<1>22. h \in B => mem' = MovedTo(mem, h, F)
  <2> SUFFICES ASSUME h \in B PROVE mem' = MovedTo(mem, h, F)
    OBVIOUS
  <2>1. Holds(mem, h) \div 8 = ob + F - b + 0
    BY <1>20, <1>21
  <2>2. Rebased(Holds(mem, h) \div 8) = b + ((ob + F - b + 0) - ob)
    BY <1>11, <2>1
  <2>3. Rebased(Holds(mem, h) \div 8) = F
    BY <1>4, <2>2
  <2> QED
    BY <1>8, <2>3
<1>23. h \in B => mem' = [a \in DOMAIN mem |-> IF a \notin F .. F + s - 1 THEN mem[a]
                                               ELSE IF a = F + 1 THEN ResetBit(mem[h + 1], 1)
                                               ELSE mem[h + a - F]]
  BY <1>22 DEF MovedTo, s
<1>24. /\ mem' \in [DOMAIN mem -> Word]
       /\ \A a \in Int : a < F \/ a >= e => (a \in DOMAIN mem => mem'[a] = mem[a])
  <2>1. CASE h \notin B
    BY <1>4, <1>8, <2>1
  <2>2. CASE h \in B
    <3>1. \A a \in Int : a < F \/ a >= e => a \notin F .. F + s - 1
      BY <1>13, <1>16
    <3>2. \A a \in F .. F + s - 1 : h + a - F \in DOMAIN mem /\ mem[h + a - F] \in Word
      <4>1. ASSUME NEW a \in F .. F + s - 1 PROVE h + a - F \in b .. top - 1
        BY <1>13, <1>16
      <4> QED
        BY <1>17, <4>1
    <3>3. ResetBit(mem[h + 1], 1) \in Word
      <4>1. ResetBit(mem[h + 1], 1) \in Nat /\ ResetBit(mem[h + 1], 1) <= mem[h + 1]
        BY <1>14, ResetMark
      <4>2. h + 1 \in DOMAIN mem
        <5>1. h + 1 < c
          BY <1>14
        <5>2. h + 1 \in b .. top - 1
          BY ONLY <1>13, <5>1
        <5> QED
          BY <1>17, <5>2
      <4>3. mem[h + 1] \in Word
        BY <1>17, <4>2
      <4> QED
        BY <1>4, <4>1, <4>3 DEF Word
    <3>4. \A a \in DOMAIN mem : (IF a \notin F .. F + s - 1 THEN mem[a]
                                 ELSE IF a = F + 1 THEN ResetBit(mem[h + 1], 1)
                                 ELSE mem[h + a - F]) \in Word
      BY <1>4, <3>2, <3>3
    <3>5. mem' \in [DOMAIN mem -> Word]
      BY <1>23, <2>2, <3>4
    <3> QED
      BY <1>23, <2>2, <3>1, <3>5
  <2> QED
    BY <2>1, <2>2
<1>25. DOMAIN mem' = DOMAIN mem
  BY <1>24
<1>26. \A lo, hi \in Nat : b <= lo /\ lo <= hi /\ hi <= c => IsMemory(mem', lo, hi)
  <2>1. ASSUME NEW lo \in Nat, NEW hi \in Nat, b <= lo, lo <= hi, hi <= c PROVE IsMemory(mem', lo, hi)
    <3>1. lo .. hi - 1 \subseteq DOMAIN mem'
      BY <1>4, <1>25, <2>1
    <3>2. 8 * hi < WORD
      BY <1>4, <2>1
    <3> QED
      BY <1>4, <1>24, <1>25, <2>1, <3>1, <3>2 DEF IsMemory
  <2> QED
    BY <2>1
(* What lies ahead is as it was.                                           *)
<1>27. /\ Sound(mem', R1, e, c)
       /\ \A x \in R1 : /\ FieldsAt(mem', x) = FieldsAt(mem, x) /\ Holds(mem', x) = Holds(mem, x)
                        /\ mem'[x] = mem[x]
                        /\ \A f \in FieldsAt(mem, x) : mem'[f] = mem[f]
       /\ Black(mem', R1) = B \ {h} /\ Grey(mem', R1) = {}
       /\ \A d : Kept(mem', R1, d) = Kept(mem, R1, d)
  <2>1. IsMemory(mem', e, c)
    <3>1. e \in Nat /\ c \in Nat /\ b <= e /\ e <= c
      BY <1>13, <1>16
    <3> QED
      BY <1>26, <3>1
  <2>2. \A a \in e .. c - 1 : mem'[a] = mem[a]
    <3>1. ASSUME NEW a \in e .. c - 1 PROVE a \in Int /\ a >= e /\ a \in DOMAIN mem
      BY <1>13, <1>16, <1>17
    <3> QED
      BY <1>24, <3>1
  <2> QED
    BY <1>12, <2>1, <2>2, SameStretch
<1>28. Rest' = R1
  BY <1>10, <1>15, <1>27, SoundObjects
<1>29. Frontier' = F + s1 /\ s1 \in Nat /\ F + s1 <= e
  <2>1. s1 \in Nat /\ s1 <= s
    BY <1>16 DEF s1
  <2>2. Kept(mem, R, c) = Kept(mem, R1, c) + s1 /\ Kept(mem, R1, c) \in Nat
    BY <1>12, <1>19
  <2>3. Frontier' = b + live - Kept(mem, R1, c)
    BY <1>9, <1>27, <1>28
  <2>4. F = b + live - Kept(mem, R, c)
    BY <1>3
  <2> QED
    BY <1>13, <1>16, <2>1, <2>2, <2>3, <2>4
<1>30. \A x \in B \ {h} : /\ x \in R1
                          /\ Kept(mem, R, x) = Kept(mem, R1, x) + s1 /\ Kept(mem, R1, x) \in Nat
                          /\ Holds(mem', x) = 8 * (ob + (F + s1) - b + Kept(mem, R1, x))
                          /\ Dest(mem, x)' = Dest(mem, x)
                          /\ Dest(mem, x) >= F + s1
  <2>1. ASSUME NEW x \in B \ {h}
        PROVE  /\ x \in R1
               /\ Kept(mem, R, x) = Kept(mem, R1, x) + s1 /\ Kept(mem, R1, x) \in Nat
               /\ Holds(mem', x) = 8 * (ob + (F + s1) - b + Kept(mem, R1, x))
               /\ Dest(mem, x)' = Dest(mem, x)
               /\ Dest(mem, x) >= F + s1
    <3>1. x \in R1
      BY <1>7 DEF R1
    <3>2. Kept(mem, R, x) = Kept(mem, R1, x) + s1 /\ Kept(mem, R1, x) \in Nat
      BY <1>12, <1>19, <3>1
    <3>3. Holds(mem', x) = Holds(mem, x)
      BY <1>27, <3>1
    <3>4. Holds(mem, x) = 8 * (ob + F - b + Kept(mem, R, x))
      BY <1>2
    <3>5. Dest(mem, x)' = Dest(mem, x)
      BY <1>5, <1>6, <3>3
    <3>6. Dest(mem, x) = F + Kept(mem, R, x)
      BY <1>21
    <3>7. 8 * (ob + F - b + Kept(mem, R, x)) = 8 * (ob + (F + s1) - b + Kept(mem, R1, x))
      BY <1>13, <1>29, <3>2
    <3>8. Dest(mem, x) >= F + s1
      BY <1>13, <1>29, <3>2, <3>6
    <3> QED
      BY <3>1, <3>2, <3>3, <3>4, <3>5, <3>7, <3>8
  <2> QED
    BY <2>1
<1>31. Holding(mem', B \ {h}, N)
  BY <1>2, <1>27, <1>30 DEF Holding
(* What has moved.                                                         *)
<1>32. \A d \in D : d \in N /\ d \in Nat /\ d < F
  BY <1>2, <1>3, SoundFacts
<1>33. /\ Sound(mem', D, b, F)
       /\ \A x \in D : /\ FieldsAt(mem', x) = FieldsAt(mem, x) /\ mem'[x] = mem[x]
                       /\ \A f \in FieldsAt(mem, x) : mem'[f] = mem[f]
       /\ Black(mem', D) = {} /\ Grey(mem', D) = {}
  <2>1. IsMemory(mem', b, F)
    BY <1>1, <1>4, <1>26 DEF h, c
  <2>2. \A a \in b .. F - 1 : mem'[a] = mem[a]
    <3>1. ASSUME NEW a \in b .. F - 1 PROVE a \in Int /\ a < F /\ a \in DOMAIN mem
      BY <1>13, <1>16, <1>17
    <3> QED
      BY <1>24, <3>1
  <2>3. Black(mem, D) = {} /\ Grey(mem, D) = {}
    BY <1>2 DEF Dark
  <2> QED
    BY <1>2, <2>1, <2>2, <2>3, SameStretch
<1>34. Holding(mem', D, N)
  BY <1>2, <1>33 DEF Holding
<1>35. /\ Sound(mem', Done', b, Frontier') /\ Dark(mem', Done') = {} /\ Holding(mem', Done', N)
       /\ N = Done' \cup {Dest(mem, x) : x \in B \ {h}}
       /\ h \notin B => Done' = D
       /\ h \in B => /\ Done' = D \cup {F} /\ Dest(mem, h) = F /\ mem'[F] = mem[h]
                     /\ \A f \in FieldsAt(mem, h) : mem'[f + (F - h)] = mem[f]
  <2>1. CASE h \notin B
    <3>1. Frontier' = F /\ B \ {h} = B
      <4>1. s1 = 0
        BY <2>1 DEF s1
      <4> QED
        BY <1>29, <1>13, <2>1, <4>1
    <3>2. Done' = D
      BY <1>3, <1>9, <3>1
    <3> QED
      BY <1>2, <1>33, <1>34, <2>1, <3>1, <3>2 DEF Dark
  <2>2. CASE h \in B
    <3>1. s1 = s /\ Frontier' = F + s
      BY <1>29, <2>2 DEF s1
    <3>2. Dest(mem, h) = F /\ F \in N
      <4>1. Dest(mem, h) = F + 0
        BY <1>20, <1>21, <2>2
      <4> QED
        BY <1>2, <1>4, <2>2, <4>1
    <3>3. Done' = D \cup {F}
      <4>1. \A d \in Done' : d \in D \cup {F}
        <5>1. ASSUME NEW d \in Done' PROVE d \in D \cup {F}
          <6>1. d \in N /\ d < F + s
            BY <1>9, <3>1
          <6>2. CASE d \in D
            BY <6>2
          <6>3. CASE d \notin D
            <7>1. PICK x \in B : d = Dest(mem, x)
              BY <1>2, <6>1, <6>3
            <7>2. CASE x = h
              BY <3>2, <7>1, <7>2
            <7>3. CASE x # h
              <8>1. d >= F + s
                BY <1>30, <3>1, <7>1, <7>3
              <8>2. d \in Int
                <9>1. Dest(mem, x) = F + Kept(mem, R, x) /\ Kept(mem, R, x) \in Nat
                  BY <1>7, <1>18, <1>21
                <9> QED
                  BY <1>13, <7>1, <9>1
              <8> QED
                BY <1>13, <1>16, <6>1, <8>1, <8>2
            <7> QED
              BY <7>2, <7>3
          <6> QED
            BY <6>2, <6>3
        <5> QED
          BY <5>1
      <4>2. \A d \in D : d \in Done'
        BY <1>9, <1>13, <1>16, <1>32, <3>1
      <4>3. F \in Done'
        BY <1>9, <1>13, <1>16, <3>1, <3>2
      <4> QED
        BY <4>1, <4>2, <4>3
    <3>4. /\ mem'[F] = mem[h] /\ mem'[F + 1] = ResetBit(mem[h + 1], 1)
          /\ \A a \in F + 2 .. F + s - 1 : mem'[a] = mem[h + a - F]
      <4>1. F \in F .. F + s - 1 /\ F + 1 \in F .. F + s - 1 /\ F # F + 1 /\ h + F - F = h
        BY <1>13, <1>16
      <4>2. F .. F + s - 1 \subseteq DOMAIN mem
        BY <1>13, <1>16, <1>17
      <4>3. \A a \in F + 2 .. F + s - 1 : a \in F .. F + s - 1 /\ a # F + 1
        BY <1>13, <1>16
      <4> QED
        BY <1>23, <2>2, <4>1, <4>2, <4>3
    <3>5. Behind(mem', F) = F + s
      BY <3>4 DEF Behind, s
    <3>6. Sound(mem', D \cup {F}, b, F + s)
      <4>1. IsMemory(mem', b, F + s)
        <5>1. F + s \in Nat /\ b \in Nat /\ b <= F + s /\ F + s <= c
          BY <1>13, <1>16
        <5> QED
          BY <1>26, <5>1
      <4> QED
        BY <1>14, <1>33, <3>4, <3>5, <4>1, OneMore
    <3>7. Dark(mem', D \cup {F}) = {}
      <4>1. ~ is_marked(mem', F) /\ (is_enqueued(mem', F) <=> is_enqueued(mem, h))
        <5>1. /\ ~ Bit(ResetBit(mem[h + 1], 1), 1)
              /\ Bit(ResetBit(mem[h + 1], 1), 2) <=> Bit(mem[h + 1], 2)
          BY <1>14, ResetMark
        <5> QED
          BY <3>4, <5>1 DEF is_marked, is_enqueued
      <4>2. ~ is_enqueued(mem, h)
        BY <1>2, <1>12 DEF Grey
      <4>3. \A x \in D : ~ is_marked(mem', x) /\ ~ is_enqueued(mem', x)
        BY <1>33 DEF Black, Grey
      <4>4. \A x \in D \cup {F} : ~ is_marked(mem', x) /\ ~ is_enqueued(mem', x)
        BY <4>1, <4>2, <4>3
      <4> QED
        BY <4>4 DEF Dark, Black, Grey
    <3>8. Holding(mem', D \cup {F}, N)
      <4>1. ASSUME NEW f \in FieldsAt(mem', F) PROVE Is(mem'[f], N)
        <5> DEFINE i == FirstField(mem[h])
        <5>1. f \in F + i .. F + s - 1 /\ i \in Nat /\ i >= 2
          BY <1>14, <3>4, SizeFacts DEF FieldsAt, s
        <5>2. f \in F + 2 .. F + s - 1 /\ h + f - F \in h + i .. h + s - 1
          BY <1>13, <1>16, <5>1
        <5>3. h + f - F \in FieldsAt(mem, h) /\ mem'[f] = mem[h + f - F]
          BY <3>4, <5>2 DEF FieldsAt, s
        <5> QED
          BY <1>2, <2>2, <5>3 DEF Holding
      <4> QED
        BY <1>34, <4>1 DEF Holding
    <3>9. N = (D \cup {F}) \cup {Dest(mem, x) : x \in B \ {h}}
      BY <1>2, <2>2, <3>2
    <3>10. ASSUME NEW f \in FieldsAt(mem, h) PROVE mem'[f + (F - h)] = mem[f]
      <4>1. f \in h + 2 .. e - 1
        BY <1>2, <1>12, SoundFacts DEF e
      <4>2. f + (F - h) \in F + 2 .. F + s - 1 /\ h + (f + (F - h)) - F = f
        BY <1>13, <1>16, <4>1
      <4> QED
        BY <3>4, <4>2
    <3> QED
      BY <2>2, <3>1, <3>2, <3>3, <3>4, <3>6, <3>7, <3>8, <3>9, <3>10
  <2> QED
    BY <2>1, <2>2
<1>36. TypeInv'
  <2>1. mem' \in [heap.begin .. heap.begin + heap.size - 1 -> Word]
    <3>1. mem' \in [b .. top - 1 -> Word]
      BY <1>24, <1>17
    <3>2. b = heap.begin
      BY DEF b
    <3>3. top = b + heap.size /\ heap.size \in Nat
      BY <1>1 DEF top, TypeInv, TypeOK, IsChunk
    <3>4. top - 1 = b + heap.size - 1
      BY <1>13, <3>3
    <3> QED
      BY <3>1, <3>2, <3>4
  <2>2. next' \in Nat
    BY <1>14, <1>15
  <2> QED
    BY <1>1, <2>1, <2>2 DEF TypeInv, TypeOK, program
<1>37. ProgramInv' /\ RoomInv'
  BY <1>1 DEF ProgramInv, RoomInv, Ends, I, program
<1>38. MoveInv'
  <2>1. next' \in b .. c /\ Frontier' \in b .. next'
    BY <1>15, <1>29, <1>13, <1>16
  <2>2. Sound(mem', R1, next', c) /\ Grey(mem', R1) = {}
    BY <1>15, <1>27
  <2>3. Black(mem', Rest') = B \ {h}
    BY <1>27, <1>28
  <2>4. \A x \in B \ {h} : Holds(mem', x) = 8 * (ob + Frontier' - b + Kept(mem', R1, x))
    BY <1>27, <1>29, <1>30
  <2>5. (DOMAIN ids = Done \cup {Dest(mem, x) : x \in Black(mem, Rest)})'
    <3>1. N = Done' \cup {Dest(mem, x)' : x \in B \ {h}}
      BY <1>30, <1>35
    <3> QED
      BY <1>6, <2>3, <3>1 DEF N
  <2>6. Rooted(DOMAIN ids)'
    BY <1>1, <1>2 DEF Rooted, N, program
  <2>7. heap' = heap /\ old' = old
    BY <1>1
  <2>8. Holding(mem', B \ {h}, DOMAIN ids') /\ Holding(mem', Done', DOMAIN ids')
    BY <1>6, <1>31, <1>35 DEF N
  <2> QED
    BY <1>28, <1>35, <2>1, <2>2, <2>3, <2>4, <2>5, <2>6, <2>7, <2>8 DEF MoveInv, b, c, ob
<1>39. GCInv'
  BY <1>1, <1>36, <1>37, <1>38 DEF GCInv, HeapInv, MarkInv, MapInv, CopyInv
<1>40. Relocated
  <2>1. Black(mem, Rest)' = B \ {h}
    BY <1>27, <1>28
  <2>2. \A x \in D \cup (B \ {h}) : mem'[x] = mem[x] /\ \A f \in FieldsAt(mem, x) : mem'[f] = mem[f]
    BY <1>27, <1>30, <1>33
  <2>3. \A x \in B \ {h} : Dest(mem, x)' = Dest(mem, x)
    BY <1>30
  <2> QED
    BY <1>35, <2>1, <2>2, <2>3 DEF Relocated, B, R, D, F, h
<1> QED
  BY <1>39, <1>40

-----------------------------------------------------------------------------
(***************************************************************************)
(* Objects are allocated.                                                  *)
(***************************************************************************)
(* An instruction of a statement that can be executed, and what is left of it. *)
LEMMA ExecutableStep ==
  ASSUME WellBehaved, prog \in DOMAIN Programs, NEW n, Executable(todo, n)
  PROVE  /\ Legal(I, n)
         /\ n \in RESERVED .. STACK_MAX_SIZE /\ n + Rise(I) \in RESERVED .. STACK_MAX_SIZE
         /\ Advance => Executable(todo', n + Rise(I))
<1> DEFINE U == Range(todo)
           m == Len(todo)
<1>1. todo \in Seq(U) /\ todo # <<>>
  BY DEF Executable
<1>2. PICK d \in [1 .. m + 1 -> RESERVED .. STACK_MAX_SIZE] :
        /\ d[1] = n /\ d[m + 1] = RESERVED
        /\ \A k \in 1 .. m : Legal(todo[k], d[k]) /\ d[k + 1] = d[k] + Rise(todo[k])
  BY DEF Executable
<1> HIDE DEF U
<1>3. m \in Nat /\ m >= 1 /\ I = todo[1]
  BY <1>1 DEF I
<1> HIDE DEF m
<1>4. 1 \in 1 .. m /\ 1 \in 1 .. m + 1 /\ 1 + 1 \in 1 .. m + 1 /\ m + 1 \in 1 .. m + 1
  BY <1>3
<1>5. /\ Legal(I, n) /\ d[1 + 1] = n + Rise(I)
      /\ n \in RESERVED .. STACK_MAX_SIZE /\ n + Rise(I) \in RESERVED .. STACK_MAX_SIZE
  BY <1>2, <1>3, <1>4
<1>6. ASSUME Advance PROVE Executable(todo', n + Rise(I))
  <2>1. CASE m > 1
    <3> DEFINE s == Tail(todo)
               g == [k \in 1 .. m |-> d[k + 1]]
    <3>1. todo' = s
      BY <1>6, <2>1 DEF Advance, m
    <3>2. s \in Seq(U) /\ Len(s) = m - 1 /\ \A k \in 1 .. m - 1 : s[k] = todo[k + 1]
      BY <1>1, <2>1 DEF m
    <3> HIDE DEF s
    <3>3. s # <<>>
      BY <1>3, <2>1, <3>2
    <3>4. s \in Seq(Range(s))
      <4>1. s = [k \in 1 .. Len(s) |-> s[k]] /\ Len(s) \in Nat /\ DOMAIN s = 1 .. Len(s)
        BY <3>2
      <4>2. \A k \in 1 .. Len(s) : s[k] \in Range(s)
        BY <4>1 DEF Range
      <4> QED
        BY <4>1, <4>2
    <3>5. g \in [1 .. Len(s) + 1 -> RESERVED .. STACK_MAX_SIZE]
      <4>1. \A k \in 1 .. m : k + 1 \in 1 .. m + 1
        BY <1>3
      <4>2. Len(s) + 1 = m
        BY <1>3, <3>2
      <4>3. \A k \in 1 .. m : d[k + 1] \in RESERVED .. STACK_MAX_SIZE
        BY <1>2, <4>1
      <4> QED
        BY <4>2, <4>3
    <3>6. g[1] = n + Rise(I) /\ g[Len(s) + 1] = RESERVED
      <4>1. Len(s) + 1 = m /\ m \in 1 .. m
        BY <1>3, <3>2
      <4> QED
        BY <1>2, <1>4, <1>5, <4>1
    <3>7. ASSUME NEW k \in 1 .. Len(s)
          PROVE  Legal(s[k], g[k]) /\ g[k + 1] = g[k] + Rise(s[k])
      <4>1. k \in 1 .. m /\ k + 1 \in 1 .. m /\ k \in 1 .. m - 1
        BY <1>3, <3>2
      <4>2. s[k] = todo[k + 1] /\ g[k] = d[k + 1] /\ g[k + 1] = d[(k + 1) + 1]
        BY <3>2, <4>1
      <4>3. Legal(todo[k + 1], d[k + 1]) /\ d[(k + 1) + 1] = d[k + 1] + Rise(todo[k + 1])
        BY <1>2, <4>1
      <4> QED
        BY <4>2, <4>3
    <3> HIDE DEF g
    <3> QED
      BY <3>1, <3>3, <3>4, <3>5, <3>6, <3>7 DEF Executable
  <2>2. CASE ~ (m > 1)
    <3>1. m = 1 /\ d[1 + 1] = RESERVED
      BY <1>2, <1>3, <2>2
    <3>2. todo' \in Programs[prog]
      BY <1>6, <2>2 DEF Advance, m
    <3>3. Executable(todo', RESERVED)
      BY <3>2 DEF WellBehaved
    <3> QED
      BY <1>5, <3>1, <3>3
  <2> QED
    BY <2>1, <2>2
<1> QED
  BY <1>5, <1>6

LEMMA HeaderFacts ==
  ASSUME NEW t \in 0 .. 7, NEW l \in Nat
  PROVE  TAG(Header(t, l)) = t /\ LEN(Header(t, l)) = l /\ Header(t, l) \in Nat
BY DEF TAG, LEN, Header

(* What an allocator asks for, where it puts it, and the values its fields get. *)
LEMMA AllocatorFacts ==
  ASSUME I.op \in Allocators, NEW n \in Nat, Legal(I, n)
  PROVE  /\ Requested(I) \in Nat /\ Requested(I) \in Word /\ IsHeader(Requested(I))
         /\ PoppedBefore(I) \in {0, 1} /\ PoppedAfter(I) \in Nat
         /\ Rise(I) = 1 - PoppedBefore(I) - PoppedAfter(I)
         /\ RESERVED + PoppedBefore(I) + PoppedAfter(I) <= n
         /\ PoppedAfter(I) > 0 => PoppedBefore(I) = 0
<1>1. WORD \in Nat /\ RESERVED \in Nat
  BY SizesAssumption
<1>2. Requested(I) \in Word /\ RESERVED + Needs(I) <= n
      /\ (I.op # "CLOSURE" => I.a \in Nat)
      /\ (I.op = "CLOSURE" => I.caps \in Seq(0 .. n - 1))
  BY DEF Legal, Allocators
<1>3. Requested(I) \in Nat
  BY <1>1, <1>2 DEF Word
<1>4. IsHeader(Requested(I))
  <2>1. ASSUME NEW l \in Nat, NEW t \in {STRING_TAG, ARRAY_TAG, SEXP_TAG, CLOSURE_TAG}
        PROVE  IsHeader(Header(t, l))
    <3>1. t \in 0 .. 7
      BY DEF STRING_TAG, ARRAY_TAG, SEXP_TAG, CLOSURE_TAG
    <3>2. TAG(Header(t, l)) = t
      BY <3>1, HeaderFacts
    <3> QED
      BY <3>2 DEF IsHeader
  <2>2. I.op = "CLOSURE" => Len(I.caps) + 1 \in Nat
    BY <1>2
  <2> QED
    BY <1>2, <2>1, <2>2 DEF Requested
<1>5. PoppedBefore(I) \in {0, 1} /\ PoppedAfter(I) \in Nat /\ (PoppedAfter(I) > 0 => PoppedBefore(I) = 0)
  BY <1>2 DEF PoppedBefore, PoppedAfter
<1>6. Needs(I) = PoppedBefore(I) + PoppedAfter(I) /\ Rise(I) = 1 - PoppedBefore(I) - PoppedAfter(I)
  <2>1. CASE I.op \in {"CALL_Barray", "SEXP"}
    BY <1>2, <2>1 DEF Needs, Rise, PoppedBefore, PoppedAfter
  <2>2. CASE I.op = "CALL_Lstring"
    BY <2>2 DEF Needs, Rise, PoppedBefore, PoppedAfter
  <2>3. CASE I.op \in {"CLOSURE", "STRING"}
    BY <2>3 DEF Needs, Rise, PoppedBefore, PoppedAfter
  <2> QED
    BY <2>1, <2>2, <2>3 DEF Allocators
<1> QED
  BY <1>1, <1>2, <1>3, <1>4, <1>5, <1>6

(* The values are those of slots in use.                                     *)
LEMMA FieldValuesAre ==
  ASSUME I.op \in Allocators, NEW n \in Nat, Legal(I, n), NEW popped \in Nat,
         sp \in Nat, sp - popped = n - PoppedBefore(I), sp <= n,
         NEW S, UNBOXED(stack[0]), stack[0] \in Word, \A j \in 1 .. sp - 1 : Is(stack[j], S)
  PROVE  \A k \in 1 .. Size(Requested(I)) - FirstField(Requested(I)) : Is(FieldValues(I)[k], S)
<1>1. /\ Requested(I) \in Nat
      /\ PoppedBefore(I) \in {0, 1} /\ PoppedAfter(I) \in Nat
      /\ RESERVED + PoppedBefore(I) + PoppedAfter(I) <= n
      /\ PoppedAfter(I) > 0 => PoppedBefore(I) = 0
  BY AllocatorFacts
<1>2. RESERVED \in Nat /\ RESERVED >= 1
  BY SizesAssumption
<1>3. \A j \in 0 .. sp - 1 : Is(stack[j], S)
  <2>1. Is(stack[0], S)
    BY DEF Is
  <2>2. \A j \in 0 .. sp - 1 : j = 0 \/ j \in 1 .. sp - 1
    OBVIOUS
  <2> QED
    BY <2>1, <2>2
<1> HIDE DEF Is
<1>4. CASE I.op \in {"CALL_Barray", "SEXP"}
  <2>1. I.a \in Nat /\ PoppedAfter(I) = I.a /\ PoppedBefore(I) = 0
        /\ FieldValues(I) = [k \in 1 .. PoppedAfter(I) |-> Top(PoppedAfter(I) - k + 1)]
    BY <1>4 DEF Legal, PoppedAfter, PoppedBefore, FieldValues, Allocators
  <2>2. Size(Requested(I)) - FirstField(Requested(I)) = I.a
    <3>1. CASE I.op = "CALL_Barray"
      <4>1. Requested(I) = Header(3, I.a)
        BY <3>1 DEF Requested, ARRAY_TAG
      <4>2. TAG(Requested(I)) = 3 /\ LEN(Requested(I)) = I.a
        <5>1. 3 \in 0 .. 7 /\ I.a \in Nat
          BY <2>1
        <5> QED
          BY <4>1, <5>1, HeaderFacts
      <4> QED
        BY <2>1, <4>2 DEF Size, FirstField, STRING_TAG, ARRAY_TAG, SEXP_TAG, DATA_HEADER_SZ
    <3>2. CASE I.op = "SEXP"
      <4>1. Requested(I) = Header(5, I.a)
        BY <3>2 DEF Requested, SEXP_TAG
      <4>2. TAG(Requested(I)) = 5 /\ LEN(Requested(I)) = I.a
        <5>1. 5 \in 0 .. 7 /\ I.a \in Nat
          BY <2>1
        <5> QED
          BY <4>1, <5>1, HeaderFacts
      <4> QED
        BY <2>1, <4>2 DEF Size, FirstField, STRING_TAG, ARRAY_TAG, SEXP_TAG, DATA_HEADER_SZ
    <3> QED
      BY <1>4, <3>1, <3>2
  <2>3. ASSUME NEW k \in 1 .. I.a PROVE Is(FieldValues(I)[k], S)
    <3> DEFINE a == I.a
               j == sp - (a - k + 1)
    <3>1. FieldValues(I)[k] = stack[j]
      BY <2>1 DEF Top
    <3>2. a \in Nat /\ RESERVED + 0 + a <= n /\ sp - popped = n - 0 /\ k \in 1 .. a
      BY <1>1, <2>1
    <3> HIDE DEF a
    <3>3. j \in 0 .. sp - 1
      BY <1>2, <3>2
    <3> QED
      BY <1>3, <3>1, <3>3
  <2> QED
    BY <2>2, <2>3
<1>5. CASE I.op = "CLOSURE"
  <2> DEFINE l == Len(I.caps)
  <2>1. I.caps \in Seq(0 .. n - 1) /\ PoppedBefore(I) = 0 /\ l \in Nat
        /\ FieldValues(I) = [k \in 1 .. l |-> stack[I.caps[k]]]
        /\ Requested(I) = Header(7, l + 1)
    BY <1>5 DEF Legal, PoppedBefore, FieldValues, Requested, CLOSURE_TAG
  <2>2. sp = n
    <3>1. sp - popped = n - 0
      BY <2>1
    <3> QED
      BY <3>1
  <2>3. \A k \in 1 .. l : I.caps[k] \in 0 .. n - 1
    BY <2>1
  <2> HIDE DEF l
  <2>4. TAG(Requested(I)) = 7 /\ LEN(Requested(I)) = l + 1
    <3>1. 7 \in 0 .. 7 /\ l + 1 \in Nat
      BY <2>1
    <3>2. TAG(Header(7, l + 1)) = 7 /\ LEN(Header(7, l + 1)) = l + 1
      BY <3>1, HeaderFacts
    <3>3. Requested(I) = Header(7, l + 1)
      BY <2>1
    <3> QED
      BY <3>2, <3>3
  <2>5. Size(Requested(I)) - FirstField(Requested(I)) = l
    BY <2>1, <2>4 DEF Size, FirstField, STRING_TAG, ARRAY_TAG, SEXP_TAG, DATA_HEADER_SZ
  <2> QED
    BY <1>3, <2>1, <2>2, <2>3, <2>5
<1>6. CASE I.op \in {"STRING", "CALL_Lstring"}
  <2>1. I.a \in Nat /\ Requested(I) = Header(1, I.a)
    BY <1>6 DEF Legal, Requested, STRING_TAG, Allocators
  <2>2. TAG(Requested(I)) = STRING_TAG
    <3>1. 1 \in 0 .. 7
      OBVIOUS
    <3> QED
      BY <2>1, <3>1, HeaderFacts DEF STRING_TAG
  <2>3. FirstField(Requested(I)) = Size(Requested(I))
    BY <2>2 DEF FirstField, STRING_TAG, ARRAY_TAG
  <2>4. Size(Requested(I)) \in Nat
    BY <1>1, SizeFacts
  <2> QED
    BY <2>3, <2>4
<1> QED
  BY <1>4, <1>5, <1>6 DEF Allocators

(* The words of a chunk.                                                     *)
Spans(m, b, top) == IsMemory(m, b, top) /\ DOMAIN m = b .. top - 1

(* Memory m is what mem was, with an object of these values at h added.      *)
Added(m, O, h, header, values) ==
  /\ h \in Nat /\ h \notin O
  /\ \A x \in O : m[x] = mem[x] /\ \A f \in FieldsAt(mem, x) : m[f] = mem[f]
  /\ m[h] = header
  /\ \A k \in 1 .. Size(header) - FirstField(header) :
       m[h + FirstField(header) + (k - 1)] = values[k]

(* A new object behind those of a heap that is sound.                        *)
LEMMA WrittenKeeps ==
  ASSUME Addressable, NEW O, NEW b, NEW h, NEW top \in Nat, NEW header \in Word, NEW values,
         Spans(mem, b, top), IsHeader(header), h + Size(header) <= top,
         Sound(mem, O, b, h), Dark(mem, O) = {}, Holding(mem, O, O),
         \A k \in 1 .. Size(header) - FirstField(header) : Is(values[k], O)
  PROVE  LET m == Written(mem, h, header, PAYLOAD, values)
         IN  /\ Spans(m, b, top)
             /\ Sound(m, O \cup {h}, b, h + Size(header))
             /\ Dark(m, O \cup {h}) = {}
             /\ Holding(m, O \cup {h}, O \cup {h})
             /\ Added(m, O, h, header, values)
<1> DEFINE m == Written(mem, h, header, PAYLOAD, values)
           s == Size(header)
           i == FirstField(header)
           P == O \cup {h}
<1>1. /\ b \in Nat /\ h \in Nat /\ b <= h /\ WORD \in Nat /\ WORD % 8 = 0
      /\ PAYLOAD \in Word /\ 0 \in Word /\ header \in Nat
      /\ mem \in [b .. top - 1 -> Word] /\ 8 * top < WORD
  BY SoundFacts, SizesAssumption DEF Addressable, Word, Spans, IsMemory
<1>2. s \in Nat /\ s >= 2 /\ i \in Nat /\ i >= 2
  BY <1>1, SizeFacts
<1>3. m = [a \in b .. top - 1 |->
             IF a \notin h .. h + s - 1 THEN mem[a]
             ELSE IF a = h THEN header
             ELSE IF a = h + 1 THEN 0
             ELSE IF a < h + i THEN PAYLOAD
             ELSE values[a - h - i + 1]]
  BY <1>1 DEF Written
<1>4. h + s <= top
  OBVIOUS
<1> HIDE DEF s, i, m
<1>5. ASSUME NEW a \in h .. h + s - 1, ~ (a < h + i)
      PROVE  Is(values[a - h - i + 1], O) /\ values[a - h - i + 1] \in Word
  <2>1. a - h - i + 1 \in 1 .. s - i
    BY <1>1, <1>2, <1>5
  <2> QED
    BY <2>1 DEF s, i, Is
<1>6. m \in [b .. top - 1 -> Word]
  BY <1>1, <1>3, <1>5
<1>7. \A a \in b .. h - 1 : m[a] = mem[a]
  <2>1. ASSUME NEW a \in b .. h - 1 PROVE a \in b .. top - 1 /\ a \notin h .. h + s - 1
    BY <1>1, <1>2, <1>4
  <2> QED
    BY <1>3, <2>1
<1>8. m[h] = header /\ m[h + 1] = 0
  <2>1. /\ h \in b .. top - 1 /\ h + 1 \in b .. top - 1
        /\ h \in h .. h + s - 1 /\ h + 1 \in h .. h + s - 1 /\ h + 1 # h
    BY <1>1, <1>2, <1>4
  <2> QED
    BY <1>3, <2>1
<1>9. ASSUME NEW d \in Nat, b <= d, d <= top PROVE IsMemory(m, b, d)
  <2>1. b .. d - 1 \subseteq b .. top - 1 /\ 8 * d < WORD
    BY <1>1, <1>9
  <2>2. DOMAIN m = b .. top - 1 /\ m \in [DOMAIN m -> Word]
    BY <1>6
  <2> QED
    BY <1>1, <1>9, <2>1, <2>2 DEF IsMemory
<1>10. /\ Sound(m, O, b, h)
       /\ \A x \in O : /\ FieldsAt(m, x) = FieldsAt(mem, x)
                       /\ \A f \in FieldsAt(mem, x) : m[f] = mem[f]
       /\ Black(m, O) = Black(mem, O) /\ Grey(m, O) = Grey(mem, O)
  <2>1. IsMemory(m, b, h)
    BY <1>1, <1>2, <1>4, <1>9
  <2> QED
    BY <1>7, <2>1, SameStretch
<1>11. Behind(m, h) = h + s
  BY <1>8 DEF Behind, s
<1>12. Sound(m, P, b, h + s)
  <2>1. h + s \in Nat /\ b <= h + s
    BY <1>1, <1>2
  <2>2. IsMemory(m, b, Behind(m, h))
    BY <1>4, <1>9, <1>11, <2>1
  <2>3. m[h] \in Nat /\ IsHeader(m[h])
    BY <1>1, <1>8
  <2>4. Sound(m, P, b, Behind(m, h))
    BY <1>10, <2>2, <2>3, OneMore
  <2> QED
    BY <1>11, <2>4
<1>13. Dark(m, P) = {}
  <2>1. Black(m, O) = {} /\ Grey(m, O) = {}
    BY <1>10 DEF Dark
  <2>2. ~ is_marked(m, h) /\ ~ is_enqueued(m, h)
    BY <1>8 DEF is_marked, is_enqueued, Bit
  <2>3. \A x \in P : ~ is_marked(m, x) /\ ~ is_enqueued(m, x)
    BY <2>1, <2>2 DEF Black, Grey
  <2> QED
    BY <2>3 DEF Dark, Black, Grey
<1>14. Holding(m, P, P)
  <2>1. ASSUME NEW x \in O, NEW f \in FieldsAt(m, x) PROVE Is(m[f], P)
    <3>1. Is(m[f], O)
      BY <1>10 DEF Holding
    <3> QED
      BY <3>1, IsMore
  <2>2. ASSUME NEW f \in FieldsAt(m, h) PROVE Is(m[f], P)
    <3>1. f \in h + i .. h + s - 1
      BY <1>8 DEF FieldsAt, s, i
    <3>2. /\ f \in b .. top - 1 /\ f \in h .. h + s - 1
          /\ ~ (f < h + i) /\ f # h /\ f # h + 1
      BY <1>1, <1>2, <1>4, <3>1
    <3>3. m[f] = values[f - h - i + 1]
      BY <1>3, <3>2
    <3>4. Is(m[f], O)
      BY <1>5, <3>2, <3>3
    <3> QED
      BY <3>4, IsMore
  <2> QED
    BY <2>1, <2>2 DEF Holding
<1>15. Added(m, O, h, header, values)
  <2>1. h \notin O
    <3>1. O \subseteq b .. h - 1
      BY SoundFacts
    <3> QED
      BY <1>1, <3>1
  <2>2. \A x \in O : m[x] = mem[x]
    <3>1. \A x \in O : x \in b .. h - 1
      BY SoundFacts
    <3> QED
      BY <1>7, <3>1
  <2>3. ASSUME NEW k \in 1 .. s - i PROVE m[h + i + (k - 1)] = values[k]
    <3> DEFINE a == h + i + (k - 1)
    <3>1. /\ a \in b .. top - 1 /\ a \in h .. h + s - 1 /\ a # h /\ a # h + 1 /\ ~ (a < h + i)
          /\ a - h - i + 1 = k
      BY <1>1, <1>2, <1>4, <2>3
    <3> HIDE DEF a
    <3>2. m[a] = values[a - h - i + 1]
      BY <1>3, <3>1
    <3>3. m[a] = values[k]
      BY <3>1, <3>2
    <3> QED
      BY <3>3 DEF a
  <2> QED
    BY <1>1, <1>8, <1>10, <2>1, <2>2, <2>3 DEF Added, s, i
<1> QED
  <2>1. b <= top
    BY <1>1, <1>2, <1>4
  <2>2. Spans(m, b, top)
    BY <1>1, <1>6, <1>9, <2>1 DEF Spans
  <2> QED
    BY <1>12, <1>13, <1>14, <1>15, <2>2 DEF s, m

(* Where the stack ends, and an object named i at h added to objects O and put  *)
(* on it.                                                                  *)
Allocated(O, i, h) ==
  /\ AllObjects' = O \cup {h}
  /\ Added(mem', O, h, Requested(I), FieldValues(I))
  /\ ids'[h] = i /\ \A x \in O : ids'[x] = ids[x]
  /\ sp \in Nat /\ sp <= sp + Len(extra_roots) /\ Legal(I, sp + Len(extra_roots))
  /\ sp' \in Nat /\ sp' >= 1 /\ sp' - 1 <= sp
  /\ sp' - 1 = (sp + Len(extra_roots)) - (PoppedBefore(I) + PoppedAfter(I))
  /\ stack'[sp' - 1] = Content(h) /\ \A j \in 0 .. sp' - 2 : stack'[j] = stack[j]

LEMMA AllocateKeeps ==
  ASSUME Addressable, WellBehaved, TypeInv, ProgramInv, phase \notin Ends, I.op \in Allocators,
         NEW O, NEW i, NEW chunk \in [begin : Nat, size : Nat, current : Nat],
         chunk.begin = heap.begin, chunk.size = heap.size, FitsIn(chunk, Size(Requested(I))),
         Sound(mem, O, heap.begin, chunk.current), Dark(mem, O) = {}, Holding(mem, O, O),
         DOMAIN ids = O, Rooted(O),
         NEW popped \in Nat, popped + Len(extra_roots) = PoppedBefore(I),
         Allocate(chunk, mem, ids, i, popped), phase' = "mutator", prog' = prog,
         mapped' \subseteq mapped, IsChunk(old'),
         next' \in Nat, head' \in Nat, tail' \in Nat, live' \in Nat
  PROVE  GCInv' /\ Allocated(O, i, chunk.current)
<1> DEFINE h == chunk.current
           b == heap.begin
           top == b + heap.size
           header == Requested(I)
           values == FieldValues(I)
           P == O \cup {h}
           n == sp + Len(extra_roots)
           q == sp - (popped + PoppedAfter(I))
<1>1. /\ heap' = [chunk EXCEPT !.current = h + Size(header)]
      /\ mem' = Written(mem, h, header, PAYLOAD, values)
      /\ ids' = [g \in O \cup {h} |-> IF g = h THEN i ELSE ids[g]]
      /\ stack' = [stack EXCEPT ![q] = Content(h)] /\ sp' = q + 1
      /\ extra_roots' = <<>> /\ Advance
  BY DEF Allocate, Push
<1>2. /\ stack \in [Slots -> Word] /\ sp \in Nat /\ sp <= STACK_MAX_SIZE
      /\ b \in Nat /\ heap.size \in Nat /\ top \in Nat
      /\ mem \in [b .. top - 1 -> Word] /\ 8 * top < WORD
      /\ mapped \subseteq Pages /\ STACK_MAX_SIZE \in Nat /\ extra_roots \in Seq(Word)
  <2>1. b \in Nat /\ heap.size \in Nat
    BY DEF TypeInv, TypeOK, IsChunk
  <2>2. b + heap.size - 1 = top - 1 /\ b \in Nat /\ heap.size \in Nat /\ top \in Nat
    BY <2>1
  <2>3. mem \in [b .. b + heap.size - 1 -> Word] /\ 8 * top < WORD
    BY DEF TypeInv, TypeOK
  <2>4. mem \in [b .. top - 1 -> Word]
    BY <2>2, <2>3
  <2>5. stack \in [Slots -> Word] /\ sp \in 0 .. STACK_MAX_SIZE /\ mapped \subseteq Pages
        /\ extra_roots \in Seq(Word)
    BY DEF TypeInv, TypeOK
  <2>6. STACK_MAX_SIZE \in Nat
    BY SizesAssumption
  <2>7. sp \in Nat /\ sp <= STACK_MAX_SIZE
    BY <2>5, <2>6
  <2> QED
    BY <2>2, <2>3, <2>4, <2>5, <2>6, <2>7
<1>3. n \in Nat /\ Executable(todo, n) /\ prog \in DOMAIN Programs /\ Len(extra_roots) \in Nat
      /\ sp - popped = n - PoppedBefore(I) /\ sp <= n
  <2>1. Len(extra_roots) \in Nat
    BY <1>2
  <2>2. Executable(todo, n) /\ prog \in DOMAIN Programs
    BY DEF ProgramInv
  <2> DEFINE e == Len(extra_roots)
             pb == PoppedBefore(I)
  <2>3. sp \in Nat /\ e \in Nat /\ popped + e = pb
    BY <1>2, <2>1
  <2> HIDE DEF e, pb
  <2>4. sp + e \in Nat /\ sp - popped = (sp + e) - pb /\ sp <= sp + e
    BY <2>3
  <2> QED
    BY <2>1, <2>2, <2>4 DEF e, pb
<1>4. /\ Legal(I, n) /\ n + Rise(I) \in RESERVED .. STACK_MAX_SIZE
      /\ Executable(todo', n + Rise(I))
  BY <1>1, <1>3, ExecutableStep
<1>5. /\ header \in Nat /\ header \in Word /\ IsHeader(header)
      /\ PoppedBefore(I) \in {0, 1} /\ PoppedAfter(I) \in Nat
      /\ Rise(I) = 1 - PoppedBefore(I) - PoppedAfter(I)
      /\ RESERVED + PoppedBefore(I) + PoppedAfter(I) <= n
  BY <1>3, <1>4, AllocatorFacts
<1>6. Size(header) \in Nat /\ Size(header) >= 2
  BY <1>5, SizeFacts
<1>7. h \in Nat /\ h >= b /\ h + Size(header) <= top
  <2>1. h \in Nat /\ h >= b
    BY SoundFacts
  <2>2. h + Size(header) <= top
    BY DEF FitsIn
  <2> QED
    BY <2>1, <2>2
<1>8. UNBOXED(stack[0]) /\ \A j \in 1 .. sp - 1 : Is(stack[j], O)
  BY DEF Rooted
<1>9. RESERVED \in Nat /\ RESERVED >= 1
  BY SizesAssumption
<1>10. \A k \in 1 .. Size(header) - FirstField(header) : Is(values[k], O)
  <2>1. stack[0] \in Word
    <3>1. 0 \in Slots
      BY <1>2, SizesAssumption DEF Slots
    <3> QED
      BY <1>2, <3>1
  <2> QED
    BY <1>2, <1>3, <1>4, <1>8, <2>1, FieldValuesAre
<1> HIDE DEF header, values
<1>11. /\ Spans(mem', b, top)
       /\ Sound(mem', P, b, h + Size(header))
       /\ Dark(mem', P) = {}
       /\ Holding(mem', P, P)
       /\ Added(mem', O, h, header, values)
  <2>1. Sound(mem, O, b, h)
    OBVIOUS
  <2> HIDE DEF h, b, top, P
  <2>2. Spans(mem, b, top)
    <3>1. WORD % 8 = 0
      BY DEF Addressable
    <3>2. b <= top
      <4>1. b \in Nat /\ top \in Nat
        BY <1>2
      <4> QED
        BY <1>6, <1>7, <4>1
    <3>3. mem \in [DOMAIN mem -> Word] /\ DOMAIN mem = b .. top - 1
      BY <1>2
    <3> QED
      BY <1>2, <3>1, <3>2, <3>3 DEF Spans, IsMemory
  <2>3. Dark(mem, O) = {} /\ Holding(mem, O, O) /\ h + Size(header) <= top /\ top \in Nat
        /\ header \in Word /\ IsHeader(header)
    BY <1>2, <1>5, <1>7
  <2>4. LET m == Written(mem, h, header, PAYLOAD, values)
        IN  /\ Spans(m, b, top)
            /\ Sound(m, O \cup {h}, b, h + Size(header))
            /\ Dark(m, O \cup {h}) = {}
            /\ Holding(m, O \cup {h}, O \cup {h})
            /\ Added(m, O, h, header, values)
    BY <1>10, <2>1, <2>2, <2>3, WrittenKeeps
  <2> QED
    BY <1>1, <2>4 DEF P
<1>12. /\ heap'.begin = b /\ heap'.size = heap.size /\ heap'.current = h + Size(header)
       /\ heap' \in [begin : Nat, size : Nat, current : Nat]
  BY <1>1, <1>6, <1>7
<1>13. AllObjects' = P
  <2>1. AllObjects' = Objects(mem', b, h + Size(header))
    BY <1>12 DEF AllObjects
  <2> QED
    BY <1>11, <2>1, SoundObjects
<1> HIDE DEF h, b, top, P
(* The stack.                                                               *)
<1>14. q \in Nat /\ q >= RESERVED /\ q <= sp /\ q + 1 = n + Rise(I) /\ q + 1 <= STACK_MAX_SIZE
  <2> DEFINE pb == PoppedBefore(I)
             pa == PoppedAfter(I)
             r == Rise(I)
  <2>1. /\ q = sp - (popped + pa) /\ sp \in Nat /\ pa \in Nat /\ pb \in Nat /\ n \in Nat
        /\ sp - popped = n - pb /\ r = 1 - pb - pa /\ RESERVED + pb + pa <= n
    <3>1. sp \in Nat /\ n \in Nat /\ sp - popped = n - pb
      BY <1>2, <1>3
    <3>2. pa \in Nat /\ pb \in Nat /\ r = 1 - pb - pa /\ RESERVED + pb + pa <= n
      BY <1>5
    <3> HIDE DEF pb, pa, r, n
    <3> QED
      BY <3>1, <3>2 DEF pa
  <2> HIDE DEF pb, pa, r, n, q
  <2>2. q + 1 = n + Rise(I)
    BY <2>1 DEF r
  <2>3. q \in Int /\ q <= sp
    BY <2>1
  <2>4. q >= RESERVED
    BY <1>9, <2>1
  <2>5. q + 1 <= STACK_MAX_SIZE
    BY <1>4, <2>2
  <2> QED
    BY <1>9, <2>2, <2>3, <2>4, <2>5
<1> HIDE DEF q, n
<1>15. Content(h) \in Word /\ Is(Content(h), P)
  <2>1. h \in P
    BY DEF P
  <2>2. Content(h) \in Nat /\ Content(h) + 3 < WORD
    <3>1. Content(h) + 3 < WORD
      BY <1>11, <2>1, SoundFacts
    <3> QED
      BY <1>7, <3>1, ContentFacts
  <2>3. Content(h) \in Word
    BY <2>2, SizesAssumption DEF Word
  <2> QED
    BY <2>1, <2>3 DEF Is
<1>16. stack' \in [Slots -> Word]
  BY <1>1, <1>2, <1>15
<1>17. q \in Slots /\ stack'[q] = Content(h) /\ \A j \in Slots : j # q => stack'[j] = stack[j]
  <2>1. q \in Slots
    BY <1>2, <1>14 DEF Slots
  <2> QED
    BY <1>1, <1>2, <2>1
<1>18. Rooted(P)'
  <2>1. UNBOXED(stack'[0])
    <3>1. 0 \in Slots /\ 0 # q
      BY <1>2, <1>9, <1>14, SizesAssumption DEF Slots
    <3> QED
      BY <1>8, <1>17, <3>1
  <2>2. ASSUME NEW j \in 1 .. sp' - 1 PROVE Is(stack'[j], P)
    <3>1. CASE j = q
      BY <1>15, <1>17, <3>1
    <3>2. CASE j # q
      <4>1. sp' = q + 1
        BY <1>1
      <4>2. j \in 1 .. sp - 1 /\ j \in Slots
        BY <1>2, <1>14, <3>2, <4>1 DEF Slots
      <4>3. stack'[j] = stack[j] /\ Is(stack[j], O)
        BY <1>8, <1>17, <3>2, <4>2
      <4> QED
        BY <4>3, IsMore DEF P
    <3> QED
      BY <3>1, <3>2
  <2>3. Len(extra_roots') = 0
    BY <1>1
  <2>4. P' = P
    OBVIOUS
  <2> QED
    BY <2>1, <2>2, <2>3 DEF Rooted
<1>19. HeapInv'
  <2>1. DOMAIN ids' = P
    BY <1>1 DEF P
  <2>2. Sound(mem', P, heap'.begin, heap'.current)
    BY <1>11, <1>12
  <2> QED
    BY <1>11, <1>13, <1>18, <2>1, <2>2 DEF HeapInv
<1>20. TypeInv'
  <2>1. IsChunk(heap)'
    <3>1. heap'.current \in heap'.begin .. heap'.begin + heap'.size
      <4>1. heap'.begin + heap'.size = top
        BY <1>12 DEF top
      <4>2. h + Size(header) \in b .. top
        <5>1. b \in Nat /\ top \in Nat
          BY <1>2
        <5> QED
          BY <1>6, <1>7, <5>1
      <4> QED
        BY <1>12, <4>1, <4>2
    <3> QED
      BY <1>12, <3>1 DEF IsChunk
  <2>2. mem' \in [heap'.begin .. heap'.begin + heap'.size - 1 -> Word]
    <3>1. b + heap.size - 1 = top - 1
      BY <1>2 DEF top
    <3>2. mem' \in [b .. top - 1 -> Word]
      BY <1>11 DEF Spans, IsMemory
    <3> QED
      BY <1>12, <3>1, <3>2
  <2>3. sp' \in 0 .. STACK_MAX_SIZE
    BY <1>1, <1>2, <1>14
  <2>4. extra_roots' \in Seq(Word) /\ phase' \in {"mutator"} \cup Collecting \cup Ends
    BY <1>1
  <2>5. 8 * (heap'.begin + heap'.size) < WORD
    BY <1>2, <1>12 DEF top
  <2>6. mapped' \subseteq Pages
    BY <1>2
  <2> QED
    BY <1>16, <2>1, <2>2, <2>3, <2>4, <2>5, <2>6 DEF TypeInv, TypeOK
<1>21. ProgramInv'
  <2>1. extra_roots' = <<>> /\ Len(extra_roots') = 0
    BY <1>1
  <2>2. sp' = n + Rise(I) /\ sp' \in Nat /\ sp' + 0 = n + Rise(I)
    BY <1>1, <1>14
  <2>3. Executable(todo', sp' + Len(extra_roots'))
    BY <1>4, <2>1, <2>2
  <2>4. sp' \in RESERVED .. STACK_MAX_SIZE
    BY <1>4, <2>2
  <2> QED
    BY <1>3, <2>1, <2>3, <2>4 DEF ProgramInv
<1>22. Allocated(O, i, h)
  <2>1. /\ h \notin O /\ h \in P /\ \A x \in O : x \in P
        /\ Added(mem', O, h, Requested(I), FieldValues(I))
    BY <1>11 DEF Added, P, header, values
  <2>2. ids'[h] = i /\ \A x \in O : ids'[x] = ids[x]
    BY <1>1, <2>1 DEF P
  <2>3. sp' - 1 = q /\ sp' \in Nat /\ sp' >= 1 /\ sp' - 1 <= sp /\ sp' - 2 = q - 1
    <3> DEFINE p == sp'
    <3>1. p = q + 1 /\ q \in Nat /\ q <= sp /\ sp \in Nat
      BY <1>1, <1>2, <1>14
    <3> HIDE DEF p
    <3>2. p - 1 = q /\ p \in Nat /\ p >= 1 /\ p - 1 <= sp /\ p - 2 = q - 1
      BY ONLY <3>1
    <3> QED
      BY <3>2 DEF p
  <2>4. sp' - 1 = n - (PoppedBefore(I) + PoppedAfter(I))
    <3>1. q = sp - (popped + PoppedAfter(I))
      BY DEF q
    <3> DEFINE pb == PoppedBefore(I)
               pa == PoppedAfter(I)
    <3>2. pa \in Nat /\ pb \in Nat /\ n \in Nat /\ sp - popped = n - pb /\ sp \in Nat
          /\ q = sp - (popped + pa) /\ popped \in Nat
      <4>1. pa \in Nat /\ pb \in Nat
        BY <1>5
      <4>2. n \in Nat /\ sp - popped = n - pb /\ sp \in Nat
        BY <1>2, <1>3
      <4> QED
        BY <3>1, <4>1, <4>2
    <3> HIDE DEF pa, pb
    <3>3. q = n - (pb + pa)
      BY <3>2
    <3> QED
      BY <2>3, <3>3 DEF pa, pb
  <2>5. stack'[sp' - 1] = Content(h)
    BY <1>17, <2>3
  <2>6. ASSUME NEW j \in 0 .. sp' - 2 PROVE stack'[j] = stack[j]
    <3>1. j \in 0 .. q - 1
      BY <2>3
    <3>2. j \in Slots /\ j # q
      BY <1>2, <1>14, <3>1 DEF Slots
    <3> QED
      BY <1>17, <3>2
  <2>7. sp \in Nat /\ sp <= n /\ Legal(I, n)
    BY <1>2, <1>3, <1>4
  <2>8. AllObjects' = O \cup {h}
    BY <1>13 DEF P
  <2> QED
    BY <2>1, <2>2, <2>3, <2>4, <2>5, <2>6, <2>7, <2>8 DEF Allocated, n
<1>23. GCInv'
  BY <1>19, <1>20, <1>21 DEF GCInv, MarkInv, MapInv, RoomInv, CopyInv, MoveInv
<1> QED
  BY <1>22, <1>23 DEF h

NamesOf(S) == {ids[h] : h \in S}

LEMMA AllocKeeps ==
  ASSUME Addressable, WellBehaved, GCInv, Alloc, prog' = prog
  PROVE  GCInv' /\ Allocated(AllObjects, FreshId(NamesOf(Held(ToSet(InUseSlots), mem, ids))), heap.current)
<1> DEFINE i == FreshId(NamesOf(Held(ToSet(InUseSlots), mem, ids)))
<1>1. /\ TypeInv /\ ProgramInv /\ HeapInv /\ phase = "mutator" /\ I.op \in Allocators
      /\ FitsIn(heap, Size(Requested(I)))
      /\ UNCHANGED <<mapped, phase, collector>>
  BY DEF GCInv, Alloc, At
<1>2. Allocate(heap, mem, ids, i, PoppedBefore(I))
  BY DEF Alloc, NamesOf
<1> HIDE DEF i
<1>3. /\ Sound(mem, AllObjects, heap.begin, heap.current)
      /\ Holding(mem, AllObjects, AllObjects)
      /\ Rooted(AllObjects) /\ DOMAIN ids = AllObjects /\ Dark(mem, AllObjects) = {}
  BY <1>1 DEF HeapInv
<1>4. extra_roots = <<>> /\ phase \notin Ends /\ PoppedBefore(I) \in Nat
  BY <1>1 DEF ProgramInv, Ends, PoppedBefore
<1>5. PoppedBefore(I) + Len(extra_roots) = PoppedBefore(I)
  <2>1. Len(extra_roots) = 0
    BY <1>4
  <2> QED
    BY <1>4, <2>1
<1>6. heap \in [begin : Nat, size : Nat, current : Nat]
  BY <1>1 DEF TypeInv, TypeOK, IsChunk
<1>7. /\ IsChunk(old') /\ next' \in Nat /\ head' \in Nat /\ tail' \in Nat /\ live' \in Nat
      /\ phase' = "mutator" /\ mapped' \subseteq mapped
  <2>1. IsChunk(old) /\ next \in Nat /\ head \in Nat /\ tail \in Nat /\ live \in Nat
    BY <1>1 DEF TypeInv, TypeOK
  <2>2. UNCHANGED <<next, head, tail, live, old>>
    BY <1>1 DEF collector
  <2> QED
    BY <1>1, <2>1, <2>2
<1>8. GCInv' /\ Allocated(AllObjects, i, heap.current)
  BY <1>1, <1>2, <1>3, <1>4, <1>5, <1>6, <1>7, AllocateKeeps
<1> QED
  BY <1>8 DEF i

(* Nothing is left to move: the heap is what has moved.                      *)
LEMMA AllMoved ==
  ASSUME GCInv, phase = "move", next >= heap.current
  PROVE  /\ Rest = {} /\ Done = DOMAIN ids
         /\ Sound(mem, DOMAIN ids, heap.begin, heap.begin + live)
         /\ Dark(mem, DOMAIN ids) = {} /\ Holding(mem, DOMAIN ids, DOMAIN ids)
         /\ Rooted(DOMAIN ids)
         /\ FitsIn([heap EXCEPT !.current = heap.begin + live], Size(Requested(I)))
<1> DEFINE b == heap.begin
           c == heap.current
<1>1. /\ TypeInv /\ ProgramInv /\ RoomInv /\ MoveInv
  BY DEF GCInv
<1>2. /\ next \in b .. c /\ Sound(mem, Rest, next, c)
      /\ Sound(mem, Done, b, Frontier) /\ Dark(mem, Done) = {} /\ Holding(mem, Done, DOMAIN ids)
      /\ DOMAIN ids = Done \cup {Dest(mem, h) : h \in Black(mem, Rest)}
      /\ Rooted(DOMAIN ids)
  BY <1>1 DEF MoveInv
<1>3. /\ heap \in [begin : Nat, size : Nat, current : Nat] /\ b \in Nat /\ c \in Nat /\ heap.size \in Nat
      /\ live \in Nat
  BY <1>1 DEF TypeInv, TypeOK, IsChunk
<1>4. next = c
  <2>1. next >= c
    OBVIOUS
  <2> HIDE DEF b, c
  <2> QED
    BY <1>2, <1>3, <2>1
<1>5. Rest = {}
  <2>1. Rest \subseteq c .. c - 1
    BY <1>2, <1>4, SoundFacts
  <2> QED
    BY <1>3, <2>1
<1>6. Kept(mem, Rest, c) = 0
  <2>1. Words(mem, Below(Black(mem, {}), c)) = {}
    BY DEF Words, Below, Black
  <2> QED
    BY <1>5, <2>1, FS_EmptySet DEF Kept
<1>7. Frontier = b + live
  <2>1. Frontier = b + live - 0
    BY <1>6 DEF Frontier
  <2> QED
    BY <1>3, <2>1
<1>8. DOMAIN ids = Done
  <2>1. Black(mem, Rest) = {}
    BY <1>5 DEF Black
  <2> QED
    BY <1>2, <2>1
<1>9. FitsIn([heap EXCEPT !.current = heap.begin + live], Size(Requested(I)))
  <2>1. live + Size(Requested(I)) <= heap.size
    BY <1>1 DEF RoomInv
  <2>2. Size(Requested(I)) \in Nat
    BY <1>1, RequestedFacts DEF Ends
  <2>3. b + live + Size(Requested(I)) <= b + heap.size
    BY <1>3, <2>1, <2>2
  <2> QED
    BY <1>3, <2>3 DEF FitsIn
<1> QED
  BY <1>2, <1>5, <1>7, <1>8, <1>9

LEMMA EndCollectionKeeps ==
  ASSUME Addressable, WellBehaved, GCInv, EndCollection, prog' = prog
  PROVE  /\ GCInv' /\ phase' = "mutator"
         /\ Allocated(DOMAIN ids, FreshId(NamesOf(DOMAIN ids)), heap.begin + live)
<1> DEFINE chunk == [heap EXCEPT !.current = heap.begin + live]
           i == FreshId(NamesOf(DOMAIN ids))
<1>1. /\ TypeInv /\ ProgramInv /\ phase = "move" /\ next >= heap.current
      /\ mapped' = mapped \ UnmappedInBytes(old.begin, old.size)
      /\ next' = 0 /\ head' = 0 /\ tail' = 0 /\ live' = 0 /\ old' = Chunk(0, 0, 0)
  BY DEF GCInv, EndCollection
<1>2. /\ Sound(mem, DOMAIN ids, heap.begin, heap.begin + live)
      /\ Dark(mem, DOMAIN ids) = {} /\ Holding(mem, DOMAIN ids, DOMAIN ids)
      /\ Rooted(DOMAIN ids) /\ FitsIn(chunk, Size(Requested(I)))
  BY <1>1, AllMoved
<1>3. Allocate(chunk, mem, ids, i, 0)
  BY <1>2 DEF EndCollection, NamesOf
<1> HIDE DEF i
<1>4. phase' = "mutator"
  BY <1>2 DEF EndCollection
<1>5. heap \in [begin : Nat, size : Nat, current : Nat] /\ heap.begin + live \in Nat
  BY <1>1 DEF TypeInv, TypeOK, IsChunk
<1>6. /\ chunk \in [begin : Nat, size : Nat, current : Nat]
      /\ chunk.begin = heap.begin /\ chunk.size = heap.size /\ chunk.current = heap.begin + live
  BY <1>5
<1> HIDE DEF chunk
<1>7. IsChunk(old')
  BY <1>1 DEF IsChunk, Chunk
<1>8. I.op \in Allocators /\ phase \notin Ends /\ 0 + Len(extra_roots) = PoppedBefore(I)
  BY <1>1 DEF ProgramInv, Ends, PoppedBefore
<1>9. /\ mapped' \subseteq mapped /\ 0 \in Nat
      /\ next' \in Nat /\ head' \in Nat /\ tail' \in Nat /\ live' \in Nat
  BY <1>1
<1>10. Sound(mem, DOMAIN ids, heap.begin, chunk.current)
  BY <1>2, <1>6
<1>11. GCInv' /\ Allocated(DOMAIN ids, i, chunk.current)
  BY <1>1, <1>2, <1>3, <1>4, <1>6, <1>7, <1>8, <1>9, <1>10, AllocateKeeps
<1> QED
  BY <1>4, <1>6, <1>11 DEF i

LEMMA RootsLength ==
  ASSUME NEW st, NEW n \in Nat, n >= 1, NEW e \in Seq(Word)
  PROVE  Len([j \in 1 .. n - FIRST_ROOT |-> st[FIRST_ROOT + j - 1]] \o e) \in Nat
<1> DEFINE s == [j \in 1 .. n - FIRST_ROOT |-> st[FIRST_ROOT + j - 1]]
           U == {st[FIRST_ROOT + j - 1] : j \in 1 .. n - FIRST_ROOT} \cup Word
<1>1. n - FIRST_ROOT \in Nat
  BY DEF FIRST_ROOT
<1>2. s \in Seq(U) /\ e \in Seq(U)
  BY <1>1
<1> HIDE DEF s, U
<1>3. s \o e \in Seq(U)
  BY <1>2
<1>4. Len(s \o e) \in Nat
  BY <1>3
<1> QED
  BY <1>4 DEF s

(* The roots are the stack and what the runtime holds now.                   *)
LEMMA StartCollectionKeeps ==
  ASSUME WellBehaved, GCInv, StartCollection, prog' = prog
  PROVE  GCInv'
<1> DEFINE O == AllObjects
           n == sp + Len(extra_roots)
           p == PoppedBefore(I)
<1>1. /\ TypeInv /\ ProgramInv /\ HeapInv /\ phase = "mutator" /\ I.op \in Allocators
      /\ sp' = sp - p
      /\ extra_roots' = [k \in 1 .. p |-> Top(k)]
      /\ phase' = "roots" /\ next' = 1
      /\ UNCHANGED <<stack, todo, heap, mem, mapped, head, tail, live, old, ids>>
  BY DEF GCInv, StartCollection, At
<1>2. /\ Sound(mem, O, heap.begin, heap.current) /\ Holding(mem, O, O)
      /\ Rooted(O) /\ DOMAIN ids = O /\ Dark(mem, O) = {}
  BY <1>1 DEF HeapInv
<1>3. /\ extra_roots = <<>> /\ prog \in DOMAIN Programs /\ Executable(todo, n)
      /\ n = sp /\ sp \in Nat /\ n \in Nat /\ sp <= STACK_MAX_SIZE
      /\ stack \in [Slots -> Word]
  <2>1. extra_roots = <<>> /\ prog \in DOMAIN Programs /\ Executable(todo, n)
    BY <1>1 DEF ProgramInv, Ends
  <2>2. sp \in Nat /\ sp <= STACK_MAX_SIZE /\ stack \in [Slots -> Word]
    BY <1>1, SizesAssumption DEF TypeInv, TypeOK
  <2>3. Len(extra_roots) = 0
    BY <2>1
  <2> QED
    BY <2>1, <2>2, <2>3
<1>4. Legal(I, n) /\ n \in RESERVED .. STACK_MAX_SIZE
  BY <1>3, ExecutableStep
<1>5. p \in {0, 1} /\ RESERVED + p <= sp /\ RESERVED \in Nat /\ RESERVED >= 1 /\ STACK_MAX_SIZE \in Nat
  <2>1. p \in {0, 1} /\ PoppedAfter(I) \in Nat /\ RESERVED + p + PoppedAfter(I) <= n
    BY <1>1, <1>3, <1>4, AllocatorFacts
  <2>2. RESERVED \in Nat /\ RESERVED >= 1 /\ STACK_MAX_SIZE \in Nat
    BY SizesAssumption
  <2> HIDE DEF n, p
  <2> QED
    BY <1>3, <2>1, <2>2
<1> HIDE DEF n, p
<1>6. Len(extra_roots') = p /\ \A k \in 1 .. p : extra_roots'[k] = stack[sp - k]
  BY <1>1, <1>5 DEF Top
<1>7. \A k \in 1 .. p : sp - k \in 1 .. sp - 1
  BY <1>3, <1>5
<1>8. Rooted(O)'
  <2>1. ASSUME NEW j \in 1 .. sp' - 1 PROVE Is(stack[j], O)
    <3>1. j \in 1 .. sp - 1
      BY <1>1, <1>3, <1>5
    <3> QED
      BY <1>2, <3>1 DEF Rooted
  <2>2. ASSUME NEW k \in 1 .. p PROVE Is(extra_roots'[k], O)
    BY <1>2, <1>6, <1>7 DEF Rooted
  <2>3. O' = O
    BY <1>1 DEF AllObjects
  <2> QED
    BY <1>1, <1>2, <1>6, <2>1, <2>2, <2>3 DEF Rooted
<1>9. AllObjects' = O /\ ids' = ids /\ heap' = heap /\ mem' = mem
  BY <1>1 DEF AllObjects
<1>10. HeapInv'
  BY <1>1, <1>2, <1>8, <1>9 DEF HeapInv
<1>11. extra_roots' \in Seq(Word)
  <2>1. \A k \in 1 .. p : sp - k \in Slots
    BY <1>3, <1>5 DEF Slots
  <2>2. \A k \in 1 .. p : Top(k) \in Word
    BY <1>3, <2>1 DEF Top
  <2> QED
    BY <1>1, <1>5, <2>2
<1>12. sp' \in RESERVED .. STACK_MAX_SIZE /\ sp' \in 0 .. STACK_MAX_SIZE /\ sp' + p = n
  BY <1>1, <1>3, <1>5
<1>13. TypeInv'
  BY <1>1, <1>11, <1>12 DEF TypeInv, TypeOK, Collecting
<1>14. ProgramInv'
  <2>1. I' = I /\ PoppedBefore(I)' = p
    BY <1>1 DEF I, PoppedBefore, p
  <2>2. Executable(todo', sp' + Len(extra_roots'))
    BY <1>1, <1>3, <1>6, <1>12
  <2> QED
    BY <1>1, <1>3, <1>6, <1>12, <2>1, <2>2 DEF ProgramInv, p
<1>15. MarkInv'
  <2>1. Black(mem, O) = {} /\ Grey(mem, O) = {} /\ Dark(mem, O) = {}
    BY <1>2 DEF Dark
  <2>2. Len(Roots') \in Nat
    <3>1. sp' \in Nat /\ sp' >= 1
      BY <1>5, <1>12
    <3>2. Len([j \in 1 .. sp' - FIRST_ROOT |-> stack'[FIRST_ROOT + j - 1]] \o extra_roots') \in Nat
      BY <1>11, <3>1, RootsLength
    <3> QED
      BY <3>2 DEF Roots
  <2> QED
    BY <1>1, <1>9, <2>1, <2>2 DEF MarkInv
<1> QED
  BY <1>1, <1>10, <1>13, <1>14, <1>15 DEF GCInv, MapInv, RoomInv, CopyInv, MoveInv

-----------------------------------------------------------------------------
(***************************************************************************)
(* Bytes of words.                                                         *)
(***************************************************************************)
(* Bytes.                                                                    *)
LEMMA WeightIs ==
  /\ WEIGHT[0] = 1
  /\ \A j \in 1 .. 7 : WEIGHT[j] = 256 * WEIGHT[j - 1]
<1> DEFINE w1 == 256 * 1
           w2 == 256 * w1
           w3 == 256 * w2
           w4 == 256 * w3
           w5 == 256 * w4
           w6 == 256 * w5
           w7 == 256 * w6
           f == [j \in 0 .. 7 |-> IF j = 0 THEN 1 ELSE IF j = 1 THEN w1 ELSE IF j = 2 THEN w2
                                  ELSE IF j = 3 THEN w3 ELSE IF j = 4 THEN w4
                                  ELSE IF j = 5 THEN w5 ELSE IF j = 6 THEN w6 ELSE w7]
           Is256(g) == g = [j \in 0 .. 7 |-> IF j = 0 THEN 1 ELSE 256 * g[j - 1]]
<1>1. \A j \in 0 .. 7 : f[j] = IF j = 0 THEN 1 ELSE 256 * f[j - 1]
  <2>1. w1 = 256 * 1 /\ w2 = 256 * w1 /\ w3 = 256 * w2 /\ w4 = 256 * w3 /\ w5 = 256 * w4
        /\ w6 = 256 * w5 /\ w7 = 256 * w6
    OBVIOUS
  <2> HIDE DEF w1, w2, w3, w4, w5, w6, w7
  <2>2. /\ f[0] = 1 /\ f[1] = w1 /\ f[2] = w2 /\ f[3] = w3 /\ f[4] = w4 /\ f[5] = w5 /\ f[6] = w6
        /\ f[7] = w7
    OBVIOUS
  <2> HIDE DEF f
  <2>3. ASSUME NEW j \in 0 .. 7 PROVE f[j] = IF j = 0 THEN 1 ELSE 256 * f[j - 1]
    <3>1. j \in {0, 1, 2, 3, 4, 5, 6, 7}
      OBVIOUS
    <3>2. f[0] = 1 /\ f[1] = 256 * f[1 - 1] /\ f[2] = 256 * f[2 - 1] /\ f[3] = 256 * f[3 - 1]
          /\ f[4] = 256 * f[4 - 1] /\ f[5] = 256 * f[5 - 1] /\ f[6] = 256 * f[6 - 1]
          /\ f[7] = 256 * f[7 - 1]
      BY <2>1, <2>2
    <3> QED
      BY <3>1, <3>2
  <2> QED
    BY <2>3
<1>2. DOMAIN f = 0 .. 7 /\ f = [j \in 0 .. 7 |-> f[j]]
  OBVIOUS
<1> HIDE DEF f
<1>3. Is256(f)
  BY <1>1, <1>2
<1>4. WEIGHT = CHOOSE g : Is256(g)
  BY DEF WEIGHT
<1>5. Is256(WEIGHT)
  <2> HIDE DEF Is256
  <2> QED
    BY <1>3, <1>4
<1> QED
  BY <1>5

LEMMA WeightFacts ==
  /\ \A j \in 0 .. 7 : WEIGHT[j] \in Nat \ {0}
  /\ \A j \in 1 .. 7 : WEIGHT[j] % 4 = 0
<1>1. WEIGHT[0] \in Nat \ {0}
  BY WeightIs
<1>2. ASSUME NEW j \in 1 .. 7, WEIGHT[j - 1] \in Nat \ {0}
      PROVE  WEIGHT[j] \in Nat \ {0} /\ WEIGHT[j] % 4 = 0
  BY <1>2, WeightIs
<1>3. WEIGHT[1] \in Nat \ {0} /\ WEIGHT[1] % 4 = 0
  BY <1>1, <1>2
<1>4. WEIGHT[2] \in Nat \ {0} /\ WEIGHT[2] % 4 = 0
  BY <1>3, <1>2
<1>5. WEIGHT[3] \in Nat \ {0} /\ WEIGHT[3] % 4 = 0
  BY <1>4, <1>2
<1>6. WEIGHT[4] \in Nat \ {0} /\ WEIGHT[4] % 4 = 0
  BY <1>5, <1>2
<1>7. WEIGHT[5] \in Nat \ {0} /\ WEIGHT[5] % 4 = 0
  BY <1>6, <1>2
<1>8. WEIGHT[6] \in Nat \ {0} /\ WEIGHT[6] % 4 = 0
  BY <1>7, <1>2
<1>9. WEIGHT[7] \in Nat \ {0} /\ WEIGHT[7] % 4 = 0
  BY <1>8, <1>2
<1>10. /\ \A j \in 0 .. 7 : j \in {0, 1, 2, 3, 4, 5, 6, 7}
       /\ \A j \in 1 .. 7 : j \in {1, 2, 3, 4, 5, 6, 7}
  OBVIOUS
<1> QED
  BY <1>1, <1>3, <1>4, <1>5, <1>6, <1>7, <1>8, <1>9, <1>10

LEMMA Monotone ==
  ASSUME NEW w \in Nat, NEW a \in Int, NEW b \in Int, a <= b
  PROVE  w * a <= w * b
<1>1. b - a \in Nat
  OBVIOUS
<1>2. w * (b - a) >= 0
  BY <1>1
<1>3. w * (b - a) = w * b - w * a
  OBVIOUS
<1> QED
  BY <1>2, <1>3

(* x holds whole bytes of weight w: with one of them replaced it is a word.  *)
LEMMA ByteReplaced ==
  ASSUME NEW x \in Word, NEW w \in Nat \ {0}, WORD % (256 * w) = 0, NEW byte \in 0 .. 255
  PROVE  /\ (x \div w) % 256 \in 0 .. 255
         /\ x + w * (byte - ((x \div w) % 256)) \in Word
<1> DEFINE q == x \div w
           r == x % w
           t == q \div 256
           u == q % 256
           M == WORD \div (256 * w)
           y == 256 * t + byte
<1>1. x \in Nat /\ x < WORD /\ WORD \in Nat \ {0}
  BY SizesAssumption DEF Word
<1>2. q \in Nat /\ r \in Nat /\ r < w /\ x = w * q + r
  BY <1>1
<1>3. M \in Nat /\ WORD = (256 * w) * M
  BY <1>1
<1> HIDE DEF q, r
<1>4. t \in Nat /\ u \in 0 .. 255 /\ q = 256 * t + u
  BY <1>2
<1> HIDE DEF t, u, M
<1>5. WORD = w * (256 * M)
  BY <1>3
<1>6. q < 256 * M
  <2> SUFFICES ASSUME q >= 256 * M PROVE FALSE
    BY <1>2, <1>3
  <2>1. 256 * M \in Int /\ 256 * M <= q
    BY <1>2, <1>3
  <2>2. w * (256 * M) <= w * q
    BY <1>2, <2>1, Monotone
  <2> QED
    BY <1>1, <1>2, <1>5, <2>2
<1>7. y \in Nat /\ y <= 256 * M - 1 /\ y = q + (byte - u)
  BY <1>3, <1>4, <1>6
<1> HIDE DEF y
<1>8. w * y <= w * (256 * M - 1)
  BY <1>3, <1>7, Monotone
<1>9. w * (256 * M - 1) = w * (256 * M) - w
  BY <1>3
<1>10. w * y = w * q + w * (byte - u)
  BY <1>2, <1>4, <1>7
<1>11. w * y \in Nat
  BY <1>7
<1>12. x + w * (byte - u) = w * y + r
  <2>1. w * (byte - u) \in Int /\ w * q \in Int
    BY <1>2, <1>4
  <2> QED
    BY <1>1, <1>2, <1>10, <1>11, <2>1
<1>13. w * y + r \in Nat /\ w * y + r < WORD
  BY <1>1, <1>2, <1>5, <1>8, <1>9, <1>11
<1>14. x + w * (byte - u) \in Word
  BY <1>1, <1>12, <1>13 DEF Word
<1> QED
  BY <1>4, <1>14 DEF u, q

(* Any byte but the lowest leaves the flags alone.                           *)
LEMMA FlagsSpared ==
  ASSUME NEW x \in Nat, NEW w \in Nat, w % 4 = 0, NEW d \in Int, x + w * d \in Nat
  PROVE  SameFlags(x + w * d, x)
<1> DEFINE e == w \div 4
           z == e * d
           y == x + w * d
<1>1. e \in Nat /\ w = 4 * e
  OBVIOUS
<1>2. z \in Int /\ w * d = 4 * z
  BY <1>1
<1>3. y = x + 4 * z /\ y \in Nat
  BY <1>2
<1> HIDE DEF e, z, y
<1>4. y % 2 = x % 2 /\ (y \div 2) % 2 = (x \div 2) % 2 /\ y \div 1 = y /\ x \div 1 = x
  BY <1>2, <1>3
<1> QED
  BY <1>4 DEF SameFlags, Bit, y

-----------------------------------------------------------------------------
(***************************************************************************)
(* The mutator.                                                            *)
(***************************************************************************)
LEMMA MutatorFacts ==
  ASSUME WellBehaved, GCInv, phase = "mutator"
  PROVE  /\ sp \in Nat /\ sp <= STACK_MAX_SIZE /\ STACK_MAX_SIZE \in Nat
         /\ RESERVED \in Nat /\ RESERVED >= 1
         /\ stack \in [Slots -> Word] /\ extra_roots = <<>>
         /\ Legal(I, sp) /\ sp + Rise(I) \in RESERVED .. STACK_MAX_SIZE
         /\ Advance => Executable(todo', sp + Rise(I))
         /\ prog \in DOMAIN Programs
         /\ UNBOXED(stack[0]) /\ \A j \in 0 .. sp - 1 : j \in Slots /\ Is(stack[j], AllObjects)
         /\ Sound(mem, AllObjects, heap.begin, heap.current)
         /\ Holding(mem, AllObjects, AllObjects) /\ Dark(mem, AllObjects) = {}
         /\ DOMAIN ids = AllObjects
         /\ mem \in [heap.begin .. heap.begin + heap.size - 1 -> Word]
         /\ heap.begin \in Nat /\ heap.current \in Nat
<1>1. /\ TypeInv /\ ProgramInv /\ HeapInv
  BY DEF GCInv
<1>2. /\ STACK_MAX_SIZE \in Nat /\ RESERVED \in Nat /\ RESERVED >= 1 /\ WORD \in Nat
  BY SizesAssumption
<1>3. /\ sp \in Nat /\ sp <= STACK_MAX_SIZE /\ sp >= 1 /\ stack \in [Slots -> Word]
      /\ extra_roots = <<>> /\ prog \in DOMAIN Programs /\ Executable(todo, sp + Len(extra_roots))
  <2>1. sp \in 0 .. STACK_MAX_SIZE /\ stack \in [Slots -> Word]
    BY <1>1 DEF TypeInv, TypeOK
  <2>2. sp \in RESERVED .. STACK_MAX_SIZE /\ extra_roots = <<>> /\ prog \in DOMAIN Programs
        /\ Executable(todo, sp + Len(extra_roots))
    BY <1>1 DEF ProgramInv, Ends
  <2> QED
    BY <1>2, <2>1, <2>2
<1>4. Executable(todo, sp)
  <2>1. sp + Len(extra_roots) = sp
    <3>1. Len(extra_roots) = 0
      BY <1>3
    <3> QED
      BY <1>3, <3>1
  <2> QED
    BY <1>3, <2>1
<1>5. Legal(I, sp) /\ sp + Rise(I) \in RESERVED .. STACK_MAX_SIZE
      /\ (Advance => Executable(todo', sp + Rise(I)))
  BY <1>3, <1>4, ExecutableStep
<1>6. /\ Sound(mem, AllObjects, heap.begin, heap.current) /\ Holding(mem, AllObjects, AllObjects)
      /\ Rooted(AllObjects) /\ DOMAIN ids = AllObjects /\ Dark(mem, AllObjects) = {}
  BY <1>1 DEF HeapInv
<1>7. UNBOXED(stack[0]) /\ \A j \in 1 .. sp - 1 : Is(stack[j], AllObjects)
  BY <1>6 DEF Rooted
<1>8. ASSUME NEW j \in 0 .. sp - 1 PROVE j \in Slots /\ Is(stack[j], AllObjects)
  <2>1. j \in Slots
    BY <1>2, <1>3 DEF Slots
  <2>2. CASE j = 0
    BY <1>3, <1>7, <2>1, <2>2 DEF Is
  <2>3. CASE j # 0
    <3>1. j \in 1 .. sp - 1
      BY <1>3, <2>3
    <3> QED
      BY <1>7, <2>1, <3>1
  <2> QED
    BY <2>2, <2>3
<1>9. mem \in [heap.begin .. heap.begin + heap.size - 1 -> Word]
      /\ heap.begin \in Nat /\ heap.current \in Nat
  BY <1>1 DEF TypeInv, TypeOK, IsChunk
<1> QED
  BY <1>2, <1>3, <1>5, <1>6, <1>7, <1>8, <1>9

(* What an instruction does to the stack and to the words of objects.        *)
LEMMA MutatorKeeps ==
  ASSUME WellBehaved, GCInv, phase = "mutator", phase' = phase, prog' = prog, Advance,
         UNCHANGED <<heap, mapped, extra_roots, collector, ids>>,
         mem' \in [heap.begin .. heap.begin + heap.size - 1 -> Word],
         Sound(mem', AllObjects, heap.begin, heap.current),
         Dark(mem', AllObjects) = {}, Holding(mem', AllObjects, AllObjects),
         sp' = sp + Rise(I),
         NEW q \in 1 .. STACK_MAX_SIZE - 1, NEW w, Is(w, AllObjects),
         stack' = [stack EXCEPT ![q] = w],
         \A j \in 1 .. sp' - 1 : j = q \/ j \in 1 .. sp - 1
  PROVE  GCInv'
<1> DEFINE O == AllObjects
<1>1. /\ sp \in Nat /\ sp <= STACK_MAX_SIZE /\ STACK_MAX_SIZE \in Nat
      /\ RESERVED \in Nat /\ RESERVED >= 1
      /\ stack \in [Slots -> Word] /\ extra_roots = <<>>
      /\ sp + Rise(I) \in RESERVED .. STACK_MAX_SIZE
      /\ Executable(todo', sp + Rise(I))
      /\ prog \in DOMAIN Programs
      /\ UNBOXED(stack[0]) /\ \A j \in 0 .. sp - 1 : j \in Slots /\ Is(stack[j], O)
      /\ DOMAIN ids = O
  BY MutatorFacts
<1>2. q \in Slots /\ w \in Word /\ q # 0 /\ 0 \in Slots
  BY <1>1 DEF Slots, Is
<1>3. stack' \in [Slots -> Word] /\ stack'[q] = w /\ \A j \in Slots : j # q => stack'[j] = stack[j]
  BY <1>1, <1>2
<1>4. sp' \in RESERVED .. STACK_MAX_SIZE /\ sp' \in 0 .. STACK_MAX_SIZE /\ sp' \in Nat
  BY <1>1
<1>5. AllObjects' = O /\ heap' = heap /\ ids' = ids /\ extra_roots' = <<>> /\ Len(extra_roots') = 0
  <2>1. Objects(mem', heap.begin, heap.current) = O
    BY SoundObjects
  <2> QED
    BY <1>1, <2>1 DEF AllObjects
<1>6. Rooted(O)'
  <2>1. ASSUME NEW j \in 1 .. sp' - 1 PROVE Is(stack'[j], O)
    <3>1. CASE j = q
      BY <1>3, <3>1
    <3>2. CASE j # q
      <4>1. j \in 0 .. sp - 1
        BY <1>1, <3>2
      <4> QED
        BY <1>1, <1>3, <3>2, <4>1
    <3> QED
      BY <3>1, <3>2
  <2>2. UNBOXED(stack'[0])
    BY <1>1, <1>2, <1>3
  <2> QED
    BY <1>5, <2>1, <2>2 DEF Rooted
<1>7. HeapInv'
  BY <1>1, <1>5, <1>6 DEF HeapInv
<1>8. ProgramInv'
  <2>1. sp' + Len(extra_roots') = sp + Rise(I)
    <3>1. sp' + 0 = sp'
      BY <1>4
    <3> QED
      BY <1>5, <3>1
  <2> QED
    BY <1>1, <1>4, <1>5, <2>1 DEF ProgramInv
<1>9. TypeInv'
  <2>1. TypeInv
    BY DEF GCInv
  <2>2. UNCHANGED <<heap, mapped, extra_roots, phase, next, head, tail, live, old>>
    BY DEF collector
  <2> QED
    BY <1>3, <1>4, <2>1, <2>2 DEF TypeInv, TypeOK
<1> QED
  BY <1>7, <1>8, <1>9 DEF GCInv, MarkInv, MapInv, RoomInv, CopyInv, MoveInv

LEMMA ConstKeeps ==
  ASSUME WellBehaved, GCInv, Const, prog' = prog
  PROVE  GCInv'
<1>1. /\ phase = "mutator" /\ I.op = "CONST" /\ Advance /\ mem' = mem /\ phase' = phase
      /\ stack' = [stack EXCEPT ![sp - 0] = BOX(I.a)] /\ sp' = sp - 0 + 1
      /\ UNCHANGED <<heap, mapped, extra_roots, collector, ids>>
  BY DEF Const, At, Push, Quiet
<1>2. I.a \in Nat /\ BOX(I.a) \in Word /\ Rise(I) = 1
  BY <1>1, MutatorFacts DEF Legal, Rise
<1>3. Is(BOX(I.a), AllObjects)
  <2>1. UNBOXED(BOX(I.a))
    BY <1>2 DEF UNBOXED, BOX
  <2> QED
    BY <1>2, <2>1 DEF Is
<1>4. sp \in 1 .. STACK_MAX_SIZE - 1 /\ sp - 0 = sp /\ sp' = sp + Rise(I)
      /\ \A j \in 1 .. sp' - 1 : j = sp \/ j \in 1 .. sp - 1
  <2>1. sp \in Nat /\ sp + 1 \in RESERVED .. STACK_MAX_SIZE /\ RESERVED \in Nat /\ RESERVED >= 1
        /\ STACK_MAX_SIZE \in Nat /\ RESERVED + 0 <= sp
    BY <1>1, <1>2, MutatorFacts DEF Legal, Needs
  <2> QED
    BY <1>1, <1>2, <2>1
<1> QED
  BY <1>1, <1>3, <1>4, MutatorFacts, MutatorKeeps

LEMMA LoadKeeps ==
  ASSUME WellBehaved, GCInv, Load, prog' = prog
  PROVE  GCInv'
<1>1. /\ phase = "mutator" /\ I.op = "LD" /\ Advance /\ mem' = mem /\ phase' = phase
      /\ stack' = [stack EXCEPT ![sp - 0] = stack[I.a]] /\ sp' = sp - 0 + 1
      /\ UNCHANGED <<heap, mapped, extra_roots, collector, ids>>
  BY DEF Load, At, Push, Quiet
<1>2. I.a \in 0 .. sp - 1 /\ Rise(I) = 1
  BY <1>1, MutatorFacts DEF Legal, Rise
<1>3. Is(stack[I.a], AllObjects)
  BY <1>1, <1>2, MutatorFacts
<1>4. sp \in 1 .. STACK_MAX_SIZE - 1 /\ sp - 0 = sp /\ sp' = sp + Rise(I)
      /\ \A j \in 1 .. sp' - 1 : j = sp \/ j \in 1 .. sp - 1
  <2>1. sp \in Nat /\ sp + 1 \in RESERVED .. STACK_MAX_SIZE /\ RESERVED \in Nat /\ RESERVED >= 1
        /\ STACK_MAX_SIZE \in Nat /\ RESERVED + 0 <= sp
    BY <1>1, <1>2, MutatorFacts DEF Legal, Needs
  <2> QED
    BY <1>1, <1>2, <2>1
<1> QED
  BY <1>1, <1>3, <1>4, MutatorFacts, MutatorKeeps

LEMMA StoreKeeps ==
  ASSUME WellBehaved, GCInv, Store, prog' = prog
  PROVE  GCInv'
<1>1. /\ phase = "mutator" /\ I.op = "ST" /\ Advance /\ mem' = mem /\ phase' = phase
      /\ stack' = [stack EXCEPT ![I.a] = stack[sp - 1]] /\ sp' = sp
      /\ UNCHANGED <<heap, mapped, extra_roots, collector, ids>>
  BY DEF Store, At, Quiet, Top
<1>2. I.a \in 1 .. sp - 1 /\ Rise(I) = 0
  BY <1>1, MutatorFacts DEF Legal, Rise
<1>3. sp - 1 \in 0 .. sp - 1 /\ I.a \in 1 .. STACK_MAX_SIZE - 1 /\ sp' = sp + Rise(I)
  <2>1. sp \in Nat /\ STACK_MAX_SIZE \in Nat /\ sp <= STACK_MAX_SIZE
    BY <1>1, MutatorFacts
  <2> QED
    BY <1>1, <1>2, <2>1
<1>4. Is(stack[sp - 1], AllObjects)
  BY <1>1, <1>3, MutatorFacts
<1>5. \A j \in 1 .. sp' - 1 : j = I.a \/ j \in 1 .. sp - 1
  BY <1>1
<1> QED
  BY <1>1, <1>3, <1>4, <1>5, MutatorFacts, MutatorKeeps

LEMMA DropKeeps ==
  ASSUME WellBehaved, GCInv, Drop, prog' = prog
  PROVE  GCInv'
<1>1. /\ phase = "mutator" /\ I.op = "DROP" /\ Advance /\ mem' = mem /\ phase' = phase
      /\ stack' = stack /\ sp' = sp - 1
      /\ UNCHANGED <<heap, mapped, extra_roots, collector, ids>>
  BY DEF Drop, At, Quiet
<1>2. Rise(I) = -1 /\ RESERVED + 1 <= sp
  BY <1>1, MutatorFacts DEF Legal, Rise, Needs
<1>3. /\ 1 \in 1 .. STACK_MAX_SIZE - 1 /\ 1 \in 0 .. sp - 1 /\ sp' = sp + Rise(I)
      /\ \A j \in 1 .. sp' - 1 : j = 1 \/ j \in 1 .. sp - 1
  <2>1. sp \in Nat /\ STACK_MAX_SIZE \in Nat /\ sp <= STACK_MAX_SIZE /\ RESERVED \in Nat /\ RESERVED >= 1
    BY <1>1, MutatorFacts
  <2> QED
    BY <1>1, <1>2, <2>1
<1>4. Is(stack[1], AllObjects) /\ stack' = [stack EXCEPT ![1] = stack[1]]
  <2>1. Is(stack[1], AllObjects) /\ stack \in [Slots -> Word]
    BY <1>1, <1>3, MutatorFacts
  <2> QED
    BY <1>1, <2>1
<1> QED
  BY <1>1, <1>3, <1>4, MutatorFacts, MutatorKeeps

(* Where element j of an object is: a word of its characters, or a field.    *)
LEMMA ElementAt ==
  ASSUME NEW m, NEW O, NEW b, NEW c, Sound(m, O, b, c), NEW h \in O,
         NEW j \in Nat, j < LEN(m[h])
  PROVE  /\ TAG(m[h]) = STRING_TAG =>
              /\ FieldsAt(m, h) = {}
              /\ (h + DATA_HEADER_SZ) + (j \div 8) \in h + 2 .. Behind(m, h) - 1
         /\ TAG(m[h]) \in {ARRAY_TAG, SEXP_TAG} => Fields(m, h)[j + 1] \in FieldsAt(m, h)
<1> DEFINE x == m[h]
           l == LEN(x)
           s == Size(x)
           i == FirstField(x)
<1>1. x \in Nat /\ h \in Nat
  BY SoundFacts
<1>2. l \in Nat /\ s \in Nat /\ i \in Nat
  BY <1>1, SizeFacts DEF LEN
<1>3. Behind(m, h) = h + s /\ FieldsAt(m, h) = h + i .. h + s - 1
      /\ Fields(m, h) = [k \in 1 .. s - i |-> h + i + k - 1]
  BY DEF Behind, FieldsAt, Fields
<1>4. ASSUME TAG(x) = STRING_TAG PROVE i = s /\ s = 2 + BYTES_TO_WORDS(l + 1)
  <2>1. s = DATA_HEADER_SZ + BYTES_TO_WORDS(l + 1) /\ i = Size(x)
    BY <1>4 DEF Size, FirstField, STRING_TAG, ARRAY_TAG, SEXP_TAG
  <2> QED
    BY <2>1 DEF DATA_HEADER_SZ
<1>5. ASSUME TAG(x) = ARRAY_TAG PROVE i = 2 /\ s = 2 + l
  BY <1>5 DEF Size, FirstField, STRING_TAG, ARRAY_TAG, SEXP_TAG, DATA_HEADER_SZ
<1>6. ASSUME TAG(x) = SEXP_TAG PROVE i = 2 + 1 /\ s = 2 + (l + 1)
  BY <1>6 DEF Size, FirstField, STRING_TAG, ARRAY_TAG, SEXP_TAG, DATA_HEADER_SZ
<1>7. j < l
  OBVIOUS
<1> HIDE DEF s, i, l
<1>8. ASSUME TAG(x) = STRING_TAG
      PROVE  /\ FieldsAt(m, h) = {}
             /\ (h + DATA_HEADER_SZ) + (j \div 8) \in h + 2 .. Behind(m, h) - 1
  <2>1. i = s /\ s = 2 + BYTES_TO_WORDS(l + 1)
    BY <1>4, <1>8
  <2>2. FieldsAt(m, h) = {}
    BY <1>1, <1>2, <1>3, <2>1
  <2>3. BYTES_TO_WORDS(l + 1) = l \div 8 + 1
    BY <1>2 DEF BYTES_TO_WORDS
  <2>4. j \div 8 \in Nat /\ j \div 8 <= l \div 8 /\ l \div 8 \in Nat
    BY <1>2, <1>7
  <2>5. (h + 2) + (j \div 8) \in h + 2 .. h + s - 1
    <3> DEFINE y == j \div 8
               z == l \div 8
    <3>1. y \in Nat /\ z \in Nat /\ y <= z /\ s = 2 + (z + 1)
      BY <2>1, <2>3, <2>4
    <3> HIDE DEF y, z
    <3>2. (h + 2) + y \in h + 2 .. h + s - 1
      BY <1>1, <3>1
    <3> QED
      BY <3>2 DEF y
  <2>6. (h + s) - 1 = h + s - 1
    BY <1>1, <1>2
  <2>7. (h + 2) + (j \div 8) \in h + 2 .. Behind(m, h) - 1
    BY <1>3, <2>5, <2>6
  <2> QED
    BY <2>2, <2>7 DEF DATA_HEADER_SZ
<1>9. ASSUME TAG(x) \in {ARRAY_TAG, SEXP_TAG} PROVE Fields(m, h)[j + 1] \in FieldsAt(m, h)
  <2>1. s - i = l
    BY <1>2, <1>5, <1>6, <1>9
  <2>2. j + 1 \in 1 .. s - i /\ h + i + (j + 1) - 1 \in h + i .. h + s - 1
    BY <1>1, <1>2, <1>7, <2>1
  <2> QED
    BY <1>3, <2>2
<1> QED
  BY <1>8, <1>9

(* The object whose element a step asks for.                                 *)
LEMMA HasElementFacts ==
  ASSUME WellBehaved, GCInv, phase = "mutator", NEW p, Is(p, AllObjects), NEW k \in Word,
         HasElement(p, k)
  PROVE  /\ HeaderOf(p) \in AllObjects
         /\ UNBOX(k) \in Nat /\ UNBOX(k) < LEN(mem[HeaderOf(p)])
         /\ TAG(mem[HeaderOf(p)]) \in {ARRAY_TAG, SEXP_TAG, STRING_TAG}
<1>1. Sound(mem, AllObjects, heap.begin, heap.current)
  BY MutatorFacts
<1>2. ~ UNBOXED(p) /\ TAG(mem[HeaderOf(p)]) \in {ARRAY_TAG, SEXP_TAG, STRING_TAG}
      /\ UNBOX(k) < LEN(mem[HeaderOf(p)])
  BY DEF HasElement
<1>3. PICK h \in AllObjects : p = Content(h)
  BY <1>2 DEF Is
<1>4. h \in Nat
  BY <1>1, SoundFacts
<1>5. HeaderOf(p) = h
  BY <1>3, <1>4, ContentFacts
<1>6. UNBOX(k) \in Nat
  BY SizesAssumption DEF UNBOX, Word
<1> QED
  BY <1>2, <1>5, <1>6

LEMMA ElemKeeps ==
  ASSUME Addressable, WellBehaved, GCInv, Elem, prog' = prog
  PROVE  GCInv'
<1> DEFINE O == AllObjects
           h == HeaderOf(Top(2))
           k == UNBOX(Top(1))
           w == Element(h, k)
<1>1. /\ phase = "mutator" /\ I.op = "ELEM" /\ Advance /\ mem' = mem /\ phase' = phase
      /\ stack' = [stack EXCEPT ![sp - 2] = w] /\ sp' = sp - 2 + 1
      /\ UNCHANGED <<heap, mapped, extra_roots, collector, ids>>
      /\ HasElement(Top(2), Top(1))
  BY DEF Elem, At, Push, Quiet
<1>2. Rise(I) = -1 /\ RESERVED + 2 <= sp
  BY <1>1, MutatorFacts DEF Legal, Rise, Needs
<1>3. /\ sp - 2 \in 1 .. STACK_MAX_SIZE - 1 /\ sp - 1 \in 0 .. sp - 1 /\ sp - 2 \in 0 .. sp - 1
      /\ sp' = sp + Rise(I)
      /\ \A j \in 1 .. sp' - 1 : j = sp - 2 \/ j \in 1 .. sp - 1
  <2>1. sp \in Nat /\ STACK_MAX_SIZE \in Nat /\ sp <= STACK_MAX_SIZE /\ RESERVED \in Nat /\ RESERVED >= 1
    BY <1>1, MutatorFacts
  <2> QED
    BY <1>1, <1>2, <2>1
<1>4. Is(Top(2), O) /\ Top(1) \in Word
  BY <1>1, <1>3, MutatorFacts DEF Top, Is
<1>5. /\ h \in O /\ k \in Nat /\ k < LEN(mem[h])
      /\ TAG(mem[h]) \in {ARRAY_TAG, SEXP_TAG, STRING_TAG}
  BY <1>1, <1>4, HasElementFacts
<1>6. Sound(mem, O, heap.begin, heap.current) /\ Holding(mem, O, O)
  BY <1>1, MutatorFacts
<1>7. w = IF TAG(mem[h]) = STRING_TAG THEN BOX(Byte(mem, h + DATA_HEADER_SZ, k))
          ELSE mem[Fields(mem, h)[k + 1]]
  BY DEF Element
<1> HIDE DEF h, k, w
<1>8. CASE TAG(mem[h]) = STRING_TAG
  <2> DEFINE a == (h + DATA_HEADER_SZ) + (k \div 8)
             v == WEIGHT[k % 8]
             byte == Byte(mem, h + DATA_HEADER_SZ, k)
  <2>1. a \in h + 2 .. Behind(mem, h) - 1
    BY <1>5, <1>6, <1>8, ElementAt
  <2>2. mem[a] \in Nat
    <3>1. /\ h \in Nat /\ Behind(mem, h) \in Nat /\ Behind(mem, h) <= heap.current
          /\ heap.begin <= h /\ heap.begin \in Nat /\ heap.current \in Nat
          /\ Typed(mem, heap.begin, heap.current)
      BY <1>5, <1>6, SoundFacts
    <3> HIDE DEF a
    <3>2. a \in heap.begin .. heap.current - 1
      BY <2>1, <3>1
    <3> QED
      BY <3>1, <3>2 DEF Typed
  <2>3. v \in Nat \ {0}
    <3>1. k % 8 \in 0 .. 7
      BY <1>5
    <3> QED
      BY <3>1, WeightFacts
  <2>4. byte = (mem[a] \div v) % 256
    BY DEF Byte
  <2> HIDE DEF a, v, byte
  <2>5. byte \in 0 .. 255
    BY <2>2, <2>3, <2>4
  <2>6. w = 2 * byte + 1
    BY <1>7, <1>8 DEF BOX, byte
  <2>7. w \in Nat /\ w < WORD /\ w % 2 = 1
    BY <2>5, <2>6, SizesAssumption DEF Addressable
  <2>8. Is(w, O)
    BY <2>7, SizesAssumption DEF Is, Word, UNBOXED
  <2> QED
    BY <1>1, <1>3, <2>8, MutatorFacts, MutatorKeeps
<1>9. CASE TAG(mem[h]) # STRING_TAG
  <2>1. Fields(mem, h)[k + 1] \in FieldsAt(mem, h)
    BY <1>5, <1>6, <1>9, ElementAt
  <2>2. Is(w, O)
    BY <1>5, <1>6, <1>7, <1>9, <2>1 DEF Holding
  <2> QED
    BY <1>1, <1>3, <2>2, MutatorFacts, MutatorKeeps
<1> QED
  BY <1>8, <1>9

-----------------------------------------------------------------------------
(***************************************************************************)
(* Elements are stored.                                                    *)
(***************************************************************************)
Differs(n, m, a, w) == n = [m EXCEPT ![a] = w]

(* A word of an object's payload is written.                                 *)
LEMMA WordWritten ==
  ASSUME NEW m, NEW O, NEW b, NEW c, Sound(m, O, b, c), Holding(m, O, O), Dark(m, O) = {},
         NEW a, \A g \in O : a # g /\ a # g + 1,
         NEW w \in Word, \A g \in O : a \in FieldsAt(m, g) => Is(w, O),
         NEW n, Differs(n, m, a, w)
  PROVE  /\ DOMAIN n = DOMAIN m /\ n \in [DOMAIN m -> Word]
         /\ Sound(n, O, b, c) /\ Holding(n, O, O) /\ Dark(n, O) = {}
<1>1. IsMemory(m, b, c)
  BY DEF Sound
<1>2. /\ DOMAIN n = DOMAIN m /\ n \in [DOMAIN m -> Word]
      /\ \A x \in DOMAIN m : n[x] = IF x = a THEN w ELSE m[x]
  BY <1>1 DEF IsMemory, Differs
<1>3. IsMemory(n, b, c)
  BY <1>1, <1>2 DEF IsMemory
<1>4. \A h \in O : n[h] = m[h] /\ n[h + 1] = m[h + 1]
  <2>1. \A h \in O : h \in DOMAIN m /\ h + 1 \in DOMAIN m
    BY SoundFacts
  <2> QED
    BY <1>2, <2>1
<1>5. /\ Sound(n, O, b, c)
      /\ \A h \in O : FieldsAt(n, h) = FieldsAt(m, h)
      /\ Black(n, O) = Black(m, O) /\ Grey(n, O) = Grey(m, O)
  BY <1>3, <1>4, SameFrame
<1>6. Dark(n, O) = {}
  BY <1>5 DEF Dark
<1>7. Holding(n, O, O)
  <2>1. ASSUME NEW h \in O, NEW f \in FieldsAt(m, h) PROVE Is(n[f], O)
    <3>1. f \in DOMAIN m
      BY SoundFacts
    <3>2. Is(m[f], O)
      BY DEF Holding
    <3>3. CASE f = a
      BY <1>2, <3>1, <3>3
    <3>4. CASE f # a
      BY <1>2, <3>1, <3>2, <3>4
    <3> QED
      BY <3>3, <3>4
  <2> QED
    BY <1>5, <2>1 DEF Holding
<1> QED
  BY <1>2, <1>5, <1>6, <1>7

(* A word behind an object's forward word is no other object's.              *)
LEMMA PayloadApart ==
  ASSUME NEW m, NEW O, NEW b, NEW c, Sound(m, O, b, c), NEW h \in O,
         NEW a \in h + 2 .. Behind(m, h) - 1
  PROVE  /\ a \in Nat /\ a \in DOMAIN m /\ m[a] \in Word
         /\ \A g \in O : a # g /\ a # g + 1
         /\ \A g \in O : a \in FieldsAt(m, g) => g = h
<1>1. /\ h \in Nat /\ Behind(m, h) \in Nat /\ Behind(m, h) <= c /\ b <= h
      /\ b \in Nat /\ c \in Nat
  BY SoundFacts
<1>2. a \in Nat /\ a >= h + 2 /\ a < Behind(m, h) /\ a \in b .. c - 1
  BY <1>1
<1>3. a \in DOMAIN m /\ m[a] \in Word
  BY <1>2 DEF Sound, IsMemory
<1>4. ASSUME NEW g \in O
      PROVE  a # g /\ a # g + 1 /\ (a \in FieldsAt(m, g) => g = h)
  <2>1. /\ g \in Nat /\ Behind(m, g) \in Nat /\ Behind(m, g) >= g + 2
        /\ FieldsAt(m, g) \subseteq g + 2 .. Behind(m, g) - 1
        /\ g < h => Behind(m, g) <= h
        /\ h < g => Behind(m, h) <= g
    BY SoundFacts
  <2>2. a # g /\ a # g + 1
    BY <1>1, <1>2, <2>1
  <2>3. ASSUME a \in FieldsAt(m, g) PROVE g = h
    <3>1. a >= g + 2 /\ a < Behind(m, g)
      BY <2>1, <2>3
    <3> QED
      BY <1>1, <1>2, <2>1, <3>1
  <2> QED
    BY <2>2, <2>3
<1> QED
  BY <1>2, <1>3, <1>4

(* A byte above the flags of an object's forward word is written.            *)
LEMMA ForwardWritten ==
  ASSUME NEW m, NEW O, NEW b, NEW c, Sound(m, O, b, c), Holding(m, O, O), Dark(m, O) = {},
         NEW h \in O, NEW w \in Word, SameFlags(w, m[h + 1]),
         NEW n, Differs(n, m, h + 1, w)
  PROVE  /\ DOMAIN n = DOMAIN m /\ n \in [DOMAIN m -> Word]
         /\ Sound(n, O, b, c) /\ Holding(n, O, O) /\ Dark(n, O) = {}
<1>1. IsMemory(m, b, c)
  BY DEF Sound
<1>2. /\ DOMAIN n = DOMAIN m /\ n \in [DOMAIN m -> Word]
      /\ \A x \in DOMAIN m : n[x] = IF x = h + 1 THEN w ELSE m[x]
  BY <1>1 DEF IsMemory, Differs
<1>3. SameHeap(m, n, O)
  BY <1>2 DEF SameHeap
<1>4. /\ Sound(n, O, b, c)
      /\ \A g \in O : /\ FieldsAt(n, g) = FieldsAt(m, g)
                      /\ \A f \in FieldsAt(m, g) : n[f] = m[f]
  BY <1>3, SameHeapFacts
<1>5. ASSUME NEW g \in O PROVE ~ is_marked(n, g) /\ ~ is_enqueued(n, g)
  <2>1. ~ is_marked(m, g) /\ ~ is_enqueued(m, g)
    BY DEF Dark, Black, Grey
  <2>2. g + 1 \in DOMAIN m
    BY SoundFacts
  <2>3. CASE g + 1 = h + 1
    BY <1>2, <2>1, <2>2, <2>3 DEF SameFlags, is_marked, is_enqueued
  <2>4. CASE g + 1 # h + 1
    BY <1>2, <2>1, <2>2, <2>4 DEF is_marked, is_enqueued
  <2> QED
    BY <2>3, <2>4
<1>6. Dark(n, O) = {}
  BY <1>5 DEF Dark, Black, Grey
<1>7. Holding(n, O, O)
  BY <1>4 DEF Holding
<1> QED
  BY <1>2, <1>4, <1>6, <1>7

LEMMA StoreElementKeeps ==
  ASSUME WellBehaved, GCInv, StoresSpareFlags, StoreElement, prog' = prog
  PROVE  GCInv'
<1> DEFINE O == AllObjects
           h == HeaderOf(Top(3))
           k == UNBOX(Top(2))
           v == Top(1)
           tag == TAG(mem[h])
<1>1. /\ phase = "mutator" /\ I.op = "STA" /\ Advance /\ phase' = phase
      /\ stack' = [stack EXCEPT ![sp - 3] = v] /\ sp' = sp - 3 + 1
      /\ UNCHANGED <<heap, mapped, extra_roots, collector, ids>>
      /\ HasElement(Top(3), Top(2)) /\ Storable(Top(3), v)
      /\ tag = ARRAY_TAG  => mem' = [mem EXCEPT ![Fields(mem, h)[k + 1]] = v]
      /\ tag = STRING_TAG => mem' = WithByte(mem, h + DATA_HEADER_SZ, k, UNBOX(v))
      /\ tag = SEXP_TAG   => mem' = WithByte(mem, h + 1, k, v % 256)
  BY DEF StoreElement, At, Push, Quiet, ARRAY_TAG, STRING_TAG, SEXP_TAG
<1>2. Rise(I) = -2 /\ RESERVED + 3 <= sp
  BY <1>1, MutatorFacts DEF Legal, Rise, Needs
<1>3. /\ sp - 3 \in 1 .. STACK_MAX_SIZE - 1
      /\ sp - 1 \in 0 .. sp - 1 /\ sp - 2 \in 0 .. sp - 1 /\ sp - 3 \in 0 .. sp - 1
      /\ sp' = sp + Rise(I)
      /\ \A j \in 1 .. sp' - 1 : j = sp - 3 \/ j \in 1 .. sp - 1
  <2>1. sp \in Nat /\ STACK_MAX_SIZE \in Nat /\ sp <= STACK_MAX_SIZE /\ RESERVED \in Nat /\ RESERVED >= 1
    BY <1>1, MutatorFacts
  <2> QED
    BY <1>1, <1>2, <2>1
<1>4. Is(Top(3), O) /\ Top(2) \in Word /\ Is(v, O) /\ v \in Word /\ v \in Nat /\ v < WORD
  <2>1. Is(Top(3), O) /\ Is(Top(2), O) /\ Is(v, O)
    BY <1>1, <1>3, MutatorFacts DEF Top
  <2> HIDE DEF v
  <2> QED
    BY <2>1, SizesAssumption DEF Is, Word
<1>5. h \in O /\ k \in Nat /\ k < LEN(mem[h]) /\ tag \in {ARRAY_TAG, SEXP_TAG, STRING_TAG}
  BY <1>1, <1>4, HasElementFacts
<1>6. Sound(mem, O, heap.begin, heap.current) /\ Holding(mem, O, O) /\ Dark(mem, O) = {}
  BY <1>1, MutatorFacts
<1>7. mem \in [heap.begin .. heap.begin + heap.size - 1 -> Word]
  BY <1>1, MutatorFacts
<1>8. /\ tag # ARRAY_TAG => WORD % (256 * WEIGHT[k % 8]) = 0
      /\ tag = SEXP_TAG => k \in 1 .. 7
  BY <1>1 DEF StoresSpareFlags, StoreElement
<1>9. ASSUME DOMAIN mem' = DOMAIN mem, mem' \in [DOMAIN mem -> Word],
             Sound(mem', O, heap.begin, heap.current), Holding(mem', O, O), Dark(mem', O) = {}
      PROVE  GCInv'
  <2>1. mem' \in [heap.begin .. heap.begin + heap.size - 1 -> Word]
    BY <1>9, <1>7
  <2> QED
    BY <1>1, <1>3, <1>4, <1>9, <2>1, MutatorKeeps
<1> HIDE DEF h, k, v, tag
<1>10. CASE tag = ARRAY_TAG
  <2> DEFINE a == Fields(mem, h)[k + 1]
  <2>1. a \in FieldsAt(mem, h)
    BY <1>5, <1>6, <1>10, ElementAt DEF tag
  <2>2. \A g \in O : a # g /\ a # g + 1
    BY <1>5, <1>6, <2>1, ForwardApart
  <2>3. Differs(mem', mem, a, v)
    BY <1>1, <1>10 DEF Differs
  <2> HIDE DEF a
  <2>4. /\ DOMAIN mem' = DOMAIN mem /\ mem' \in [DOMAIN mem -> Word]
        /\ Sound(mem', O, heap.begin, heap.current) /\ Holding(mem', O, O) /\ Dark(mem', O) = {}
    BY <1>4, <1>6, <2>2, <2>3, WordWritten
  <2> QED
    BY <1>9, <2>4
<1>11. k % 8 \in 0 .. 7 /\ k \div 8 \in Nat
  BY <1>5
<1> DEFINE New(a, byte) == mem[a] + WEIGHT[k % 8] * (byte - ((mem[a] \div WEIGHT[k % 8]) % 256))
<1>12. ASSUME tag # ARRAY_TAG, NEW a \in DOMAIN mem, NEW byte \in 0 .. 255
       PROVE  /\ mem[a] \in Nat /\ WEIGHT[k % 8] \in Nat
              /\ byte - ((mem[a] \div WEIGHT[k % 8]) % 256) \in Int
              /\ New(a, byte) \in Word
  <2>1. mem[a] \in Word
    BY <1>7
  <2>2. WEIGHT[k % 8] \in Nat \ {0}
    BY <1>11, WeightFacts
  <2>3. WORD % (256 * WEIGHT[k % 8]) = 0
    BY <1>8, <1>12
  <2>4. /\ (mem[a] \div WEIGHT[k % 8]) % 256 \in 0 .. 255
        /\ mem[a] + WEIGHT[k % 8] * (byte - ((mem[a] \div WEIGHT[k % 8]) % 256)) \in Word
    BY <2>1, <2>2, <2>3, ByteReplaced
  <2>5. mem[a] \in Nat
    BY <2>1, SizesAssumption DEF Word
  <2> QED
    BY <2>2, <2>4, <2>5
<1>13. CASE tag = STRING_TAG
  <2> DEFINE a == (h + DATA_HEADER_SZ) + (k \div 8)
             byte == UNBOX(v)
  <2>1. FieldsAt(mem, h) = {} /\ a \in h + 2 .. Behind(mem, h) - 1
    BY <1>5, <1>6, <1>13, ElementAt DEF tag
  <2>2. byte \in 0 .. 255
    <3>1. v <= 255
      BY <1>1, <1>13 DEF Storable, IsString, tag, h
    <3> QED
      BY <1>4, <3>1 DEF UNBOX
  <2>3. Differs(mem', mem, a, New(a, byte))
    BY <1>1, <1>13 DEF WithByte, Byte, Differs
  <2> HIDE DEF a, byte, New
  <2>4. /\ a \in DOMAIN mem /\ \A g \in O : a # g /\ a # g + 1
        /\ \A g \in O : a \in FieldsAt(mem, g) => g = h
    BY <1>5, <1>6, <2>1, PayloadApart
  <2>5. New(a, byte) \in Word
    <3>1. tag # ARRAY_TAG /\ a \in DOMAIN mem /\ byte \in 0 .. 255
      BY <1>13, <2>2, <2>4 DEF ARRAY_TAG, STRING_TAG
    <3> QED
      BY <1>12, <3>1
  <2>6. \A g \in O : a \in FieldsAt(mem, g) => Is(New(a, byte), O)
    BY <2>1, <2>4
  <2>7. /\ DOMAIN mem' = DOMAIN mem /\ mem' \in [DOMAIN mem -> Word]
        /\ Sound(mem', O, heap.begin, heap.current) /\ Holding(mem', O, O) /\ Dark(mem', O) = {}
    BY <1>6, <2>3, <2>4, <2>5, <2>6, WordWritten
  <2> QED
    BY <1>9, <2>7
<1>14. CASE tag = SEXP_TAG
  <2> DEFINE byte == v % 256
             u == WEIGHT[k % 8]
             x == mem[h + 1]
             d == byte - ((x \div u) % 256)
             w == x + u * d
  <2>1. k \in 1 .. 7 /\ k \div 8 = 0 /\ k % 8 = k
    BY <1>8, <1>14
  <2>2. byte \in 0 .. 255
    BY <1>4
  <2>3. h \in Nat /\ h + 1 \in DOMAIN mem
    BY <1>5, <1>6, SoundFacts
  <2>4. Differs(mem', mem, h + 1, w)
    <3>1. (h + 1) + k \div 8 = h + 1
      BY <2>1, <2>3
    <3>2. mem' = WithByte(mem, h + 1, k, byte)
      BY <1>1, <1>14
    <3>3. LET a == (h + 1) + k \div 8
          IN  mem' = [mem EXCEPT ![a] =
                        mem[a] + WEIGHT[k % 8] * (byte - ((mem[a] \div WEIGHT[k % 8]) % 256))]
      BY <3>2 DEF WithByte, Byte
    <3> QED
      BY <3>1, <3>3 DEF Differs
  <2> HIDE DEF byte
  <2>5. x \in Nat /\ u \in Nat /\ d \in Int /\ w \in Word
    <3>1. tag # ARRAY_TAG
      BY <1>14 DEF ARRAY_TAG, SEXP_TAG
    <3>2. w = New(h + 1, byte)
      OBVIOUS
    <3>3. x \in Nat /\ u \in Nat /\ d \in Int
      BY <1>12, <2>2, <2>3, <3>1
    <3> HIDE DEF New, w
    <3>4. New(h + 1, byte) \in Word
      BY <1>12, <2>2, <2>3, <3>1
    <3> QED
      BY <3>2, <3>3, <3>4
  <2>6. u % 4 = 0
    BY <2>1, WeightFacts
  <2>7. x + u * d \in Nat
    BY <2>5, SizesAssumption DEF Word
  <2> HIDE DEF u, d, x
  <2>8. SameFlags(w, x)
    BY <2>5, <2>6, <2>7, FlagsSpared
  <2> HIDE DEF w
  <2>9. SameFlags(w, mem[h + 1])
    BY <2>8 DEF x
  <2>10. /\ DOMAIN mem' = DOMAIN mem /\ mem' \in [DOMAIN mem -> Word]
         /\ Sound(mem', O, heap.begin, heap.current) /\ Holding(mem', O, O) /\ Dark(mem', O) = {}
    BY <1>5, <1>6, <2>4, <2>5, <2>9, ForwardWritten
  <2> QED
    BY <1>9, <2>10
<1> QED
  BY <1>5, <1>10, <1>13, <1>14

-----------------------------------------------------------------------------
(***************************************************************************)
(* The invariant.                                                          *)
(***************************************************************************)
LEMMA FailKeeps ==
  ASSUME GCInv, Fail, prog' = prog
  PROVE  GCInv'
<1>1. /\ TypeInv
      /\ phase' \in {"crashed", "failed"}
      /\ UNCHANGED <<program, heap, mem, mapped, collector, ids>>
  BY DEF GCInv, Fail
<1>2. TypeInv'
  BY <1>1 DEF TypeInv, TypeOK, Ends, program, collector
<1> QED
  BY <1>1, <1>2 DEF GCInv, ProgramInv, HeapInv, MarkInv, MapInv, RoomInv, CopyInv, MoveInv, Ends

LEMMA ShutdownKeeps ==
  ASSUME Addressable, GCInv, __shutdown, prog' = prog
  PROVE  GCInv'
<1>1. /\ TypeInv /\ phase' = "exited"
      /\ mapped' = mapped \ UnmappedInBytes(heap.begin, heap.size)
      /\ heap' = Chunk(0, 0, 0) /\ mem' = <<>> /\ sp' = 0
      /\ UNCHANGED <<stack, extra_roots, todo, collector, ids>>
  BY DEF GCInv, __shutdown
<1>2. heap' = [begin |-> 0, size |-> 0, current |-> 0] /\ IsChunk(heap')
  BY <1>1 DEF IsChunk, Chunk
<1>3. mem' \in [heap'.begin .. heap'.begin + heap'.size - 1 -> Word]
  <2>1. heap'.begin .. heap'.begin + heap'.size - 1 = {}
    BY <1>2
  <2>2. <<>> \in [{} -> Word]
    OBVIOUS
  <2> QED
    BY <1>1, <2>1, <2>2
<1>4. sp' \in 0 .. STACK_MAX_SIZE /\ 8 * (heap'.begin + heap'.size) < WORD
  BY <1>1, <1>2, SizesAssumption DEF Addressable
<1>5. TypeInv'
  <2>1. /\ stack \in [Slots -> Word] /\ IsChunk(old) /\ mapped \subseteq Pages
        /\ extra_roots \in Seq(Word) /\ next \in Nat /\ head \in Nat /\ tail \in Nat /\ live \in Nat
    BY <1>1 DEF TypeInv, TypeOK
  <2>2. UNCHANGED <<next, head, tail, live, old>>
    BY <1>1 DEF collector
  <2> QED
    BY <1>1, <1>2, <1>3, <1>4, <2>1, <2>2 DEF TypeInv, TypeOK, Ends
<1> QED
  BY <1>1, <1>5 DEF GCInv, ProgramInv, HeapInv, MarkInv, MapInv, RoomInv, CopyInv, MoveInv, Ends

LEMMA InitHolds ==
  ASSUME Addressable, WellBehaved, Init
  PROVE  GCInv /\ RoomMade
<1>1. PICK n \in Pages :
        /\ PagesOf(n * PAGE, MINIMUM_HEAP_CAPACITY) \subseteq Pages
        /\ heap = Chunk(n * PAGE, MINIMUM_HEAP_CAPACITY, 0)
        /\ mapped = PagesOf(n * PAGE, MINIMUM_HEAP_CAPACITY)
        /\ mem = [a \in n * PAGE .. n * PAGE + MINIMUM_HEAP_CAPACITY - 1 |-> 0]
  BY DEF Init
<1>2. /\ stack = [j \in Slots |-> BOX(0)] /\ sp = RESERVED /\ extra_roots = <<>>
      /\ prog \in DOMAIN Programs /\ todo \in Programs[prog] /\ phase = "mutator"
      /\ next = 0 /\ head = 0 /\ tail = 0 /\ live = 0 /\ old = Chunk(0, 0, 0) /\ ids = <<>>
  BY DEF Init
<1> DEFINE b == n * PAGE
           size == MINIMUM_HEAP_CAPACITY
<1>3. /\ b \in Nat /\ size \in Nat \ {0} /\ WORD \in Nat /\ WORD % 8 = 0 /\ WORD > 511
      /\ RESERVED \in Nat /\ RESERVED >= 1 /\ RESERVED <= STACK_MAX_SIZE /\ STACK_MAX_SIZE \in Nat
  <2>1. n \in Nat /\ PAGE \in Nat
    BY SizesAssumption
  <2>2. n * PAGE \in Nat
    BY <2>1
  <2> QED
    BY <2>2, SizesAssumption DEF Addressable
<1> HIDE DEF b, size
<1>4. 8 * (b + size) < WORD
  BY <1>1, <1>3, PagesEnd DEF b, size
<1>5. heap = [begin |-> b, size |-> size, current |-> b] /\ IsChunk(heap)
  <2>1. heap = [begin |-> b, size |-> size, current |-> b]
    BY <1>1, <1>3 DEF Chunk, b, size
  <2> QED
    BY <1>3, <2>1 DEF IsChunk
<1>6. 0 \in Word /\ 1 \in Word /\ BOX(0) = 1
  BY <1>3 DEF Word, BOX
<1>7. mem = [a \in b .. b + size - 1 |-> 0] /\ mem \in [b .. b + size - 1 -> Word]
  BY <1>1, <1>6 DEF b, size
<1>8. AllObjects = {} /\ Sound(mem, {}, b, b)
  <2>1. IsMemory(mem, b, b)
    <3>1. b .. b - 1 = {} /\ 8 * b < WORD
      BY <1>3, <1>4
    <3>2. mem \in [DOMAIN mem -> Word]
      BY <1>7
    <3> QED
      BY <1>3, <3>1, <3>2 DEF IsMemory
  <2>2. Sound(mem, {}, b, b)
    BY <1>3, <2>1, TilesEmpty DEF Sound
  <2>3. heap.begin = b /\ heap.current = b
    BY <1>5
  <2> QED
    BY <2>2, <2>3, SoundObjects DEF AllObjects
<1>9. stack \in [Slots -> Word] /\ \A j \in Slots : UNBOXED(stack[j]) /\ stack[j] \in Word
  BY <1>2, <1>6 DEF UNBOXED
<1>10. \A j \in 0 .. RESERVED - 1 : j \in Slots
  BY <1>3 DEF Slots
<1>11. TypeInv
  <2>1. sp \in 0 .. STACK_MAX_SIZE
    BY <1>2, <1>3
  <2>2. mem \in [heap.begin .. heap.begin + heap.size - 1 -> Word] /\ 8 * (heap.begin + heap.size) < WORD
    BY <1>4, <1>5, <1>7
  <2>3. IsChunk(old)
    BY <1>2 DEF IsChunk, Chunk
  <2>4. extra_roots \in Seq(Word) /\ mapped \subseteq Pages
    BY <1>1, <1>2
  <2> QED
    BY <1>2, <1>5, <1>9, <2>1, <2>2, <2>3, <2>4 DEF TypeInv, TypeOK
<1>12. ProgramInv
  <2>1. Executable(todo, RESERVED)
    BY <1>2 DEF WellBehaved
  <2>2. sp + Len(extra_roots) = RESERVED
    BY <1>2, <1>3
  <2> QED
    BY <1>2, <1>3, <2>1, <2>2 DEF ProgramInv
<1>13. HeapInv
  <2>1. Rooted({})
    <3>1. UNBOXED(stack[0])
      BY <1>3, <1>9, <1>10
    <3>2. \A j \in 1 .. sp - 1 : Is(stack[j], {})
      <4>1. \A j \in 1 .. sp - 1 : j \in 0 .. RESERVED - 1
        BY <1>2, <1>3
      <4> QED
        BY <1>9, <1>10, <4>1 DEF Is
    <3>3. Len(extra_roots) = 0
      BY <1>2
    <3> QED
      BY <3>1, <3>2, <3>3 DEF Rooted
  <2>2. Holding(mem, {}, {}) /\ Dark(mem, {}) = {}
    BY DEF Holding, Dark, Black, Grey
  <2>3. DOMAIN ids = {}
    BY <1>2
  <2>4. heap.begin = b /\ heap.current = b
    BY <1>5
  <2> QED
    BY <1>8, <2>1, <2>2, <2>3, <2>4 DEF HeapInv
<1> QED
  BY <1>2, <1>11, <1>12, <1>13
     DEF GCInv, MarkInv, MapInv, RoomInv, CopyInv, MoveInv, RoomMade

(* Only the end of a collection could find no room.                          *)
LEMMA StepKeeps ==
  ASSUME Addressable, WellBehaved, GCInv, RoomMade, StoresSpareFlags, [Next]_vars
  PROVE  GCInv' /\ RoomMade'
<1>1. CASE UNCHANGED vars
  <2>1. /\ UNCHANGED <<prog, stack, sp, extra_roots, todo, heap, mem, mapped, phase, ids>>
        /\ UNCHANGED <<next, head, tail, live, old>>
    BY <1>1 DEF vars, program, collector
  <2>2. AllObjects' = AllObjects /\ Rest' = Rest /\ Roots' = Roots /\ I' = I
    BY <2>1 DEF AllObjects, Rest, Roots, I
  <2>3. TypeInv' /\ ProgramInv' /\ HeapInv'
    BY <2>1, <2>2 DEF GCInv, TypeInv, TypeOK, ProgramInv, PoppedBefore, HeapInv, Rooted
  <2>4. MarkInv' /\ MapInv'
    BY <2>1, <2>2 DEF GCInv, MarkInv, MapInv
  <2>5. RoomInv' /\ CopyInv'
    BY <2>1, <2>2 DEF GCInv, RoomInv, CopyInv, Rooted, Olds, Dest, Rebased, Requested
  <2>6. MoveInv'
    BY <2>1, <2>2 DEF GCInv, MoveInv, Frontier, Done, Dest, Rebased, Rooted
  <2> QED
    BY <2>1, <2>3, <2>4, <2>5, <2>6 DEF GCInv, RoomMade
<1>2. CASE (Mutator \/ Collect \/ __shutdown) /\ UNCHANGED prog
  <2>1. CASE EndCollection
    BY <1>2, <2>1, EndCollectionKeeps DEF RoomMade
  <2>2. CASE (Mutator \/ Collect \/ __shutdown) /\ ~ EndCollection
    <3>1. GCInv'
      BY <1>2, <2>2, ConstKeeps, LoadKeeps, StoreKeeps, DropKeeps, ElemKeeps, StoreElementKeeps,
         FailKeeps, AllocKeeps, StartCollectionKeeps, MarkRootKeeps, DequeueStep, LocationsKeep,
         NewHeapKeeps, FieldsFixed, SlotFixed, RootsFixed, ObjectMoved, ShutdownKeeps
         DEF Mutator, Collect
    <3>2. phase' # "null"
      <4>1. CASE Mutator
        BY <4>1 DEF Mutator, Const, Load, Store, Drop, Elem, StoreElement, Fail, Alloc, Quiet,
                    RoomMade
      <4>2. CASE Collect
        BY <2>2, <4>2 DEF Collect, StartCollection, MarkRoot, Dequeue, compute_locations, NewHeap,
                    update_references, FixSlot, scan_and_fix_region_roots, physically_relocate,
                    RoomMade
      <4>3. CASE __shutdown
        BY <4>3 DEF __shutdown
      <4> QED
        BY <1>2, <4>1, <4>2, <4>3
    <3> QED
      BY <3>1, <3>2 DEF RoomMade
  <2> QED
    BY <1>2, <2>1, <2>2
<1> QED
  BY <1>1, <1>2 DEF Next, Ended

LEMMA GCHolds ==
  ASSUME Addressable, WellBehaved
  PROVE  Spec /\ []StoresSpareFlags => [](GCInv /\ RoomMade)
<1>1. Init => GCInv /\ RoomMade
  BY InitHolds
<1>2. GCInv /\ RoomMade /\ StoresSpareFlags /\ [Next]_vars => GCInv' /\ RoomMade'
  BY StepKeeps
<1> QED
  BY <1>1, <1>2, PTL DEF Spec

-----------------------------------------------------------------------------
(***************************************************************************)
(* What follows from the invariant.                                        *)
(***************************************************************************)
LEMMA QueueFollows ==
  ASSUME GCInv
  PROVE  QueueSound
<1> SUFFICES ASSUME phase = "queue" PROVE QueueSound
  BY DEF QueueSound
<1> DEFINE O == AllObjects
<1>1. Queue(mem, O, heap.current, head, tail) /\ Sound(mem, O, heap.begin, heap.current)
  BY DEF GCInv, MarkInv, HeapInv
<1>2. /\ tail \in O \cup {heap.current}
      /\ \A x \in Between(O, head, tail) : \E y \in Grey(mem, O) : Holds(mem, x) = Content(y)
      /\ \A y \in Grey(mem, O) : \E x \in Between(O, head, tail) : Holds(mem, x) = Content(y)
      /\ \A x, z \in Between(O, head, tail) : Holds(mem, x) = Holds(mem, z) => x = z
      /\ Grey(mem, O) \cap Black(mem, O) = {}
  BY <1>1 DEF Queue
<1>3. Carriers = Between(O, head, tail)
  BY DEF Carriers, Between
<1>4. \A x : Victim(x) = HeaderOf(Holds(mem, x))
  BY DEF Victim, Holds
<1>5. \A y \in O : y \in Nat /\ HeaderOf(Content(y)) = y
  BY <1>1, SoundFacts, ContentFacts
<1>6. Grey(mem, O) \subseteq O /\ Grey(mem, O) = {h \in O : is_enqueued(mem, h)}
      /\ \A y \in Grey(mem, O) : ~ is_marked(mem, y)
  BY <1>2 DEF Grey, Black
<1>7. ASSUME NEW x \in Carriers
      PROVE  Victim(x) \in Grey(mem, O) /\ Holds(mem, x) = Content(Victim(x))
  <2>1. PICK y \in Grey(mem, O) : Holds(mem, x) = Content(y)
    BY <1>2, <1>3
  <2>2. Victim(x) = y
    BY <1>4, <1>5, <1>6, <2>1
  <2> QED
    BY <2>1, <2>2
<1>8. ASSUME NEW y \in Grey(mem, O) PROVE \E x \in Carriers : Victim(x) = y
  <2>1. PICK x \in Between(O, head, tail) : Holds(mem, x) = Content(y)
    BY <1>2
  <2> QED
    BY <1>3, <1>4, <1>5, <1>6, <2>1
<1>9. tail <= heap.current
  <2>1. heap.current \in Nat /\ \A h \in O : h \in Nat /\ h + 1 < heap.current
    BY <1>1, SoundFacts
  <2> QED
    BY <1>2, <2>1
<1>10. \A g, h \in Carriers : Victim(g) = Victim(h) => g = h
  BY <1>2, <1>3, <1>7
<1>11. {Victim(h) : h \in Carriers} = {h \in O : is_enqueued(mem, h)}
  <2>1. {Victim(h) : h \in Carriers} = Grey(mem, O)
    BY <1>7, <1>8
  <2> QED
    BY <1>6, <2>1
<1> QED
  BY <1>6, <1>7, <1>9, <1>10, <1>11 DEF QueueSound

(* What the fields of a set of objects add to it.                            *)
Flow(m, names) ==
  [S \in SUBSET DOMAIN m |->
     S \cup {HeaderOf(m[f]) : f \in {g \in UNION {ToSet(Fields(m, h)) : h \in S} : IsRef(m[g], names)}}]

LEMMA ReachableIsLeast ==
  ASSUME NEW m, IsFiniteSet(DOMAIN m), NEW names, DOMAIN names \subseteq DOMAIN m,
         NEW E \in SUBSET DOMAIN m
  PROVE  Reachable(m, E, LAMBDA w : IsRef(w, names)) = LeastClosed(DOMAIN m, Flow(m, names), E)
<1> DEFINE D == DOMAIN m
           flow == Flow(m, names)
           more(S) == S \cup {HeaderOf(m[f]) : f \in
                        {g \in UNION {ToSet(Fields(m, h)) : h \in S} : IsRef(m[g], names)}}
           g == CHOOSE g : g = [S \in SUBSET D |-> IF more(S) = S THEN S ELSE g[more(S)]]
<1>1. Reachable(m, E, LAMBDA w : IsRef(w, names)) = g[E]
  BY DEF Reachable
<1>2. \A S \in SUBSET D : flow[S] = more(S)
  BY DEF Flow
<1>3. Enlarges(D, flow)
  <2>1. \A w : IsRef(w, names) => HeaderOf(w) \in D
    BY DEF IsRef
  <2>2. \A S \in SUBSET D : more(S) \in SUBSET D /\ S \subseteq more(S)
    BY <2>1
  <2>3. \A S, T \in SUBSET D : S \subseteq T => more(S) \subseteq more(T)
    OBVIOUS
  <2>4. flow = [S \in SUBSET D |-> more(S)]
    BY DEF Flow
  <2> HIDE DEF more, D
  <2>5. flow \in [SUBSET D -> SUBSET D]
    BY <2>2, <2>4
  <2> QED
    BY <1>2, <2>2, <2>3, <2>5 DEF Enlarges
<1> HIDE DEF more, flow
<1>4. \A h : Growing(D, flow, h) <=> h = [S \in SUBSET D |-> IF more(S) = S THEN S ELSE h[more(S)]]
  BY <1>2 DEF Growing
<1>5. Growing(D, flow, g)
  <2>1. \E h : Growing(D, flow, h)
    BY <1>3, GrowingExists
  <2> HIDE DEF D
  <2> QED
    BY <1>4, <2>1
<1> HIDE DEF g
<1>6. g[E] = LeastClosed(D, flow, E)
  BY <1>3, <1>5, GrowingIsLeast
<1> QED
  BY <1>1, <1>6 DEF flow

LEMMA HeldIs ==
  ASSUME NEW m, NEW O, NEW b, NEW c, Sound(m, O, b, c), Holding(m, O, O), IsFiniteSet(DOMAIN m),
         NEW names, DOMAIN names = O, NEW W, \A w \in W : Is(w, O)
  PROVE  Held(W, m, names) = Reached(m, O, W)
<1> DEFINE D == DOMAIN m
           E == {HeaderOf(w) : w \in {v \in W : IsRef(v, names)}}
           R == Reached(m, O, W)
           flow == Flow(m, names)
<1>1. /\ O \subseteq Nat /\ O \subseteq D
      /\ \A h \in O : ToSet(Fields(m, h)) = FieldsAt(m, h)
  BY SoundFacts
<1>2. E \in SUBSET D /\ E \subseteq O
  BY <1>1 DEF IsRef
<1>3. Held(W, m, names) = LeastClosed(D, flow, E)
  BY <1>1, <1>2, ReachableIsLeast DEF Held
<1>4. \A S \in SUBSET D : flow[S] = S \cup {HeaderOf(m[f]) : f \in
        {g \in UNION {ToSet(Fields(m, h)) : h \in S} : IsRef(m[g], names)}}
  BY DEF Flow
<1> HIDE DEF flow
<1>5. \A w, S : IsRef(w, names) /\ Leads(w, S) => HeaderOf(w) \in S
  BY DEF IsRef, Leads
<1>6. ASSUME NEW w, Is(w, O), NEW S, IsRef(w, names) => HeaderOf(w) \in S
      PROVE  Leads(w, S \cap O)
  <2>1. CASE UNBOXED(w)
    BY <2>1 DEF Leads
  <2>2. CASE ~ UNBOXED(w)
    <3>1. PICK h \in O : w = Content(h)
      BY <1>6, <2>2 DEF Is
    <3>2. HeaderOf(w) = h
      BY <1>1, <3>1, ContentFacts
    <3> QED
      BY <1>6, <2>2, <3>2 DEF IsRef, Leads
  <2> QED
    BY <2>1, <2>2
<1>7. R \subseteq O
  BY DEF Reached
<1>8. LeastClosed(D, flow, E) \subseteq R
  <2>1. E \subseteq R
    <3>1. \A w \in W : Leads(w, R)
      BY <1>1, ReachedHolds
    <3> HIDE DEF R
    <3> QED
      BY <1>5, <3>1
  <2>2. flow[R] = R
    <3>1. ASSUME NEW x \in R, NEW f \in ToSet(Fields(m, x)), IsRef(m[f], names)
          PROVE  HeaderOf(m[f]) \in R
      <4>1. x \in O /\ f \in FieldsAt(m, x)
        BY <1>1, <1>7
      <4>2. Is(m[f], O)
        BY <4>1 DEF Holding
      <4>3. Leads(m[f], R)
        BY <1>1, <4>1, <4>2, ReachedHolds
      <4> QED
        BY <1>5, <3>1, <4>3
    <3>2. R \in SUBSET D
      BY <1>1, <1>7
    <3> HIDE DEF R
    <3> DEFINE more == {HeaderOf(m[f]) : f \in
                          {g \in UNION {ToSet(Fields(m, h)) : h \in R} : IsRef(m[g], names)}}
    <3>3. more \subseteq R
      BY <3>1
    <3>4. flow[R] = R \cup more
      BY <1>4, <3>2
    <3> HIDE DEF more
    <3> QED
      BY <3>3, <3>4
  <2>3. R \in SUBSET D
    BY <1>1, <1>7
  <2> HIDE DEF R
  <2> QED
    BY <2>1, <2>2, <2>3 DEF LeastClosed
<1>9. R \subseteq LeastClosed(D, flow, E)
  <2>1. ASSUME NEW h \in R, NEW T \in SUBSET D, E \subseteq T, flow[T] = T PROVE h \in T
    <3>1. \A w \in W : Leads(w, T \cap O)
      BY <1>6, <2>1
    <3>2. ASSUME NEW x \in T \cap O, NEW f \in FieldsAt(m, x) PROVE Leads(m[f], T \cap O)
      <4>1. f \in ToSet(Fields(m, x)) /\ Is(m[f], O)
        BY <1>1, <3>2 DEF Holding
      <4>2. IsRef(m[f], names) => HeaderOf(m[f]) \in T
        BY <1>4, <2>1, <4>1
      <4> QED
        BY <1>6, <4>1, <4>2
    <3>3. T \cap O \in SUBSET O
      OBVIOUS
    <3> QED
      BY <3>1, <3>2, <3>3 DEF Reached
  <2>2. R \subseteq D
    BY <1>1, <1>7
  <2> HIDE DEF R, E, D
  <2> QED
    BY <2>1, <2>2 DEF LeastClosed
<1> QED
  BY <1>3, <1>8, <1>9

LEMMA ReachedIgnores ==
  ASSUME NEW m, NEW O, NEW V, NEW W, V \subseteq W, \A w \in W : w \in V \/ UNBOXED(w)
  PROVE  Reached(m, O, W) = Reached(m, O, V)
<1>1. \A S : (\A w \in W : Leads(w, S)) <=> (\A w \in V : Leads(w, S))
  BY DEF Leads
<1> QED
  BY <1>1 DEF Reached

(* What the program has in use.                                              *)
LEMMA SlotsInUse ==
  ASSUME sp \in Nat, sp >= 1, extra_roots \in Seq(Word)
  PROVE  ToSet(InUseSlots \o extra_roots) =
           {stack[k] : k \in 0 .. sp - 1} \cup {extra_roots[k] : k \in 1 .. Len(extra_roots)}
<1> DEFINE s == [j \in 1 .. sp |-> stack[j - 1]]
           U == {stack[j - 1] : j \in 1 .. sp} \cup Word
           e == Len(extra_roots)
           t == s \o extra_roots
<1>1. s \in Seq(U) /\ extra_roots \in Seq(U) /\ Len(s) = sp /\ e \in Nat
      /\ \A j \in 1 .. sp : s[j] = stack[j - 1]
  <2>1. \A j \in 1 .. sp : stack[j - 1] \in U
    OBVIOUS
  <2>2. extra_roots \in Seq(U) /\ e \in Nat
    OBVIOUS
  <2> HIDE DEF U
  <2> QED
    BY <2>1, <2>2
<1> HIDE DEF U, s
<1>2. InUseSlots = s
  <2>1. <<>> \o s = s
    BY <1>1
  <2> QED
    BY <2>1 DEF InUseSlots, s
<1>3. /\ t \in Seq(U) /\ Len(t) = sp + e /\ DOMAIN t = 1 .. sp + e
      /\ \A k \in 1 .. sp + e : t[k] = IF k <= sp THEN s[k] ELSE extra_roots[k - sp]
  BY <1>1
<1> HIDE DEF t, e
<1>4. ASSUME NEW k \in 1 .. sp + e
      PROVE  t[k] \in {stack[j] : j \in 0 .. sp - 1} \cup {extra_roots[j] : j \in 1 .. e}
  <2>1. CASE k <= sp
    <3>1. k - 1 \in 0 .. sp - 1 /\ t[k] = stack[k - 1]
      BY <1>1, <1>3, <2>1
    <3> QED
      BY <3>1
  <2>2. CASE ~ (k <= sp)
    <3>1. k - sp \in 1 .. e /\ t[k] = extra_roots[k - sp]
      BY <1>1, <1>3, <2>2
    <3> QED
      BY <3>1
  <2> QED
    BY <2>1, <2>2
<1>5. ASSUME NEW j \in 0 .. sp - 1 PROVE stack[j] \in {t[k] : k \in 1 .. sp + e}
  <2>1. j + 1 \in 1 .. sp + e /\ j + 1 <= sp /\ j + 1 \in 1 .. sp /\ (j + 1) - 1 = j
    BY <1>1
  <2>2. t[j + 1] = stack[(j + 1) - 1]
    BY <1>1, <1>3, <2>1
  <2> QED
    BY <2>1, <2>2
<1>6. ASSUME NEW j \in 1 .. e PROVE extra_roots[j] \in {t[k] : k \in 1 .. sp + e}
  <2>1. sp + j \in 1 .. sp + e /\ ~ (sp + j <= sp) /\ (sp + j) - sp = j
    BY <1>1
  <2>2. t[sp + j] = extra_roots[(sp + j) - sp]
    BY <1>3, <2>1
  <2> QED
    BY <2>1, <2>2
<1>7. ToSet(t) = {t[k] : k \in 1 .. sp + e}
  BY <1>3 DEF ToSet
<1>8. ToSet(t) = {stack[k] : k \in 0 .. sp - 1} \cup {extra_roots[k] : k \in 1 .. e}
  BY <1>4, <1>5, <1>6, <1>7
<1> QED
  BY <1>2, <1>8 DEF t, e

LEMMA MarkedFollows ==
  ASSUME GCInv
  PROVE  MarkedIsReachable
<1> SUFFICES ASSUME MarkingDone PROVE Marked = InUse
  BY DEF MarkedIsReachable
<1> DEFINE O == AllObjects
           B == Black(mem, O)
           V == ToSet(Roots)
           W == ToSet(InUseSlots \o extra_roots)
<1>1. /\ TypeInv /\ ProgramInv /\ phase = "roots" /\ next > Len(Roots)
      /\ Sound(mem, O, heap.begin, heap.current) /\ Holding(mem, O, O) /\ Rooted(O)
      /\ DOMAIN ids = O
  BY DEF GCInv, HeapInv, MarkingDone
<1>2. /\ next \in 1 .. Len(Roots) + 1
      /\ \A h \in B : \A f \in FieldsAt(mem, h) : Leads(mem[f], Dark(mem, O))
      /\ \A k \in 1 .. Len(Roots) : k < next => Leads(Roots[k], Dark(mem, O))
      /\ Dark(mem, O) \subseteq Reached(mem, O, V)
      /\ Grey(mem, O) = {}
  BY <1>1 DEF GCInv, MarkInv
<1>3. Dark(mem, O) = B
  BY <1>2 DEF Dark
<1>4. /\ Len(Roots) \in Nat
      /\ V = {stack[k] : k \in 1 .. sp - 1} \cup {extra_roots[k] : k \in 1 .. Len(extra_roots)}
      /\ V = {Roots[k] : k \in 1 .. Len(Roots)}
      /\ \A k \in 1 .. Len(Roots) : Is(Roots[k], O)
  BY <1>1, RootsFacts DEF Ends
<1>5. /\ sp \in Nat /\ sp >= 1 /\ extra_roots \in Seq(Word) /\ stack[0] \in Word
      /\ IsFiniteSet(DOMAIN mem)
  <2>1. sp \in Nat /\ sp >= 1 /\ sp <= STACK_MAX_SIZE /\ STACK_MAX_SIZE \in Nat
    BY <1>1, SizesAssumption DEF ProgramInv, Ends
  <2>2. 0 \in Slots
    BY <2>1 DEF Slots
  <2>3. stack \in [Slots -> Word] /\ extra_roots \in Seq(Word)
        /\ mem \in [heap.begin .. heap.begin + heap.size - 1 -> Word]
        /\ heap.begin \in Nat /\ heap.size \in Nat
    BY <1>1 DEF TypeInv, TypeOK, IsChunk
  <2>4. IsFiniteSet(heap.begin .. heap.begin + heap.size - 1)
    <3>1. heap.begin \in Int /\ heap.begin + heap.size - 1 \in Int
      BY <2>3
    <3> QED
      BY <3>1, FS_Interval
  <2>5. DOMAIN mem = heap.begin .. heap.begin + heap.size - 1
    BY <2>3
  <2>6. stack[0] \in Word
    BY <2>2, <2>3
  <2> QED
    BY <2>1, <2>3, <2>4, <2>5, <2>6
<1>6. W = {stack[k] : k \in 0 .. sp - 1} \cup {extra_roots[k] : k \in 1 .. Len(extra_roots)}
  BY <1>5, SlotsInUse
<1>7. UNBOXED(stack[0])
  BY <1>1 DEF Rooted
<1> HIDE DEF V, W, B
<1>8. V \subseteq W /\ \A w \in W : w \in V \/ w = stack[0]
  <2>1. \A k \in 0 .. sp - 1 : k = 0 \/ k \in 1 .. sp - 1
    BY <1>5
  <2>2. \A k \in 1 .. sp - 1 : k \in 0 .. sp - 1
    BY <1>5
  <2> QED
    BY <1>4, <1>6, <2>1, <2>2
<1>9. \A w \in W : Is(w, O)
  <2>1. Is(stack[0], O)
    BY <1>5, <1>7 DEF Is
  <2> QED
    BY <1>4, <1>8, <2>1
<1>10. InUse = Reached(mem, O, V)
  <2>1. Held(W, mem, ids) = Reached(mem, O, W)
    BY <1>1, <1>5, <1>9, HeldIs
  <2>2. Reached(mem, O, W) = Reached(mem, O, V)
    BY <1>7, <1>8, ReachedIgnores
  <2> QED
    BY <2>1, <2>2 DEF InUse, W
<1>11. Reached(mem, O, V) \subseteq B
  <2>1. \A w \in V : Leads(w, B)
    <3>1. \A k \in 1 .. Len(Roots) : k < next
      BY <1>1, <1>2, <1>4
    <3> QED
      BY <1>2, <1>3, <1>4, <3>1
  <2>2. B \in SUBSET O
    BY DEF B, Black
  <2>3. \A h \in B : \A f \in FieldsAt(mem, h) : Leads(mem[f], B)
    BY <1>2, <1>3
  <2> QED
    BY <2>1, <2>2, <2>3 DEF Reached
<1>12. Marked = B
  BY DEF Marked, B, Black
<1> QED
  BY <1>2, <1>3, <1>10, <1>11, <1>12

LEMMA ClearFollows ==
  ASSUME GCInv
  PROVE  MarksClear
BY DEF GCInv, HeapInv, MarksClear, Dark, Black, Grey

LEMMA DenoteFollows ==
  ASSUME GCInv
  PROVE  RootsDenoteObjects
<1> SUFFICES ASSUME phase = "mutator", NEW j \in 0 .. sp - 1
             PROVE  UNBOXED(stack[j]) \/ IsRef(stack[j], ids)
  BY DEF RootsDenoteObjects
<1> DEFINE O == AllObjects
<1>1. /\ Sound(mem, O, heap.begin, heap.current) /\ Rooted(O) /\ DOMAIN ids = O /\ sp \in Int
  BY SizesAssumption DEF GCInv, HeapInv, TypeInv, TypeOK
<1>2. CASE j = 0
  BY <1>1, <1>2 DEF Rooted
<1>3. CASE j # 0
  <2>1. j \in 1 .. sp - 1
    BY <1>1, <1>3
  <2>2. Is(stack[j], O)
    BY <1>1, <2>1 DEF Rooted
  <2>3. CASE UNBOXED(stack[j])
    BY <2>3
  <2>4. CASE ~ UNBOXED(stack[j])
    <3>1. PICK h \in O : stack[j] = Content(h)
      BY <2>2, <2>4 DEF Is
    <3>2. HeaderOf(stack[j]) = h
      BY <1>1, <3>1, SoundFacts, ContentFacts
    <3> QED
      BY <1>1, <2>4, <3>2 DEF IsRef
  <2> QED
    BY <2>3, <2>4
<1> QED
  BY <1>2, <1>3

-----------------------------------------------------------------------------
(***************************************************************************)
(* The theorems.                                                           *)
(***************************************************************************)
(* The stack, the memory of the heap and the list of extra roots hold words: *)
(* no count of live words, new location, header or flag that gc.c writes    *)
(* overflows one.  The end of allocation never leaves the heap.             *)
THEOREM CollectorTyped ==
  ASSUME Addressable, WellBehaved
  PROVE  Spec /\ []StoresSpareFlags => []TypeOK
<1>1. GCInv => TypeOK
  BY DEF GCInv, TypeInv
<1> QED
  BY <1>1, GCHolds, PTL

(* The queue that mark threads through the forward words of the heap itself  *)
(* never runs past the heap, holds each unmarked object at most once, and    *)
(* holds exactly the objects whose enqueued bit is set.                     *)
THEOREM QueueIsSound ==
  ASSUME Addressable, WellBehaved
  PROVE  Spec /\ []StoresSpareFlags => []QueueSound
<1>1. GCInv => QueueSound
  BY QueueFollows
<1> QED
  BY <1>1, GCHolds, PTL

(* When mark_phase is done, an object carries the mark exactly when a stack  *)
(* slot in use or an extra root leads to it, however the graph is shared or  *)
(* cyclic: compaction loses nothing and keeps nothing else.                 *)
THEOREM MarkingIsExact ==
  ASSUME Addressable, WellBehaved
  PROVE  Spec /\ []StoresSpareFlags => []MarkedIsReachable
<1>1. GCInv => MarkedIsReachable
  BY MarkedFollows
<1> QED
  BY <1>1, GCHolds, PTL

(* A collection leaves no mark bit and no enqueued bit behind, so that the   *)
(* next mark skips no object and does not leave its fields out.             *)
THEOREM MarksAreCleared ==
  ASSUME Addressable, WellBehaved
  PROVE  Spec /\ []StoresSpareFlags => []MarksClear
<1>1. GCInv => MarksClear
  BY ClearFollows
<1> QED
  BY <1>1, GCHolds, PTL

(* What compute_locations counts and the size gc_alloc asks for are such     *)
(* that gc_alloc_on_existing_heap finds room in the collected heap.         *)
THEOREM CollectionMakesRoom ==
  ASSUME Addressable, WellBehaved
  PROVE  Spec /\ []StoresSpareFlags => []RoomMade
BY GCHolds, PTL

(* Between collections every boxed word on the stack points to the content   *)
(* of an object of the heap: scan_and_fix_region has corrected each of them, *)
(* and the locations computed are those the objects were moved to.          *)
THEOREM RootsDenote ==
  ASSUME Addressable, WellBehaved
  PROVE  Spec /\ []StoresSpareFlags => []RootsDenoteObjects
<1>1. GCInv => RootsDenoteObjects
  BY DenoteFollows
<1> QED
  BY <1>1, GCHolds, PTL
=============================================================================
