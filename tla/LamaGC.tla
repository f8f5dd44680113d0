------------------------------- MODULE LamaGC -------------------------------
(***************************************************************************)
(* The memory of a running program: the interpreter as the mutator, the     *)
(* bump allocator, and the mark-compact collector of runtime/gc.c that       *)
(* runs when the heap is full, step by step: roots are marked through a     *)
(* queue threaded through the forward addresses of the heap's objects,      *)
(* new locations computed, the heap copied to a newly mapped region, every   *)
(* reference updated and the live objects moved down.                       *)
(*                                                                         *)
(* The mutator executes instructions of statements chosen at will; each     *)
(* touches the stack and the heap as the interpreter's cases do.  Popped    *)
(* slots keep their words.  What the C code would read outside the mapped    *)
(* heap, or take for a header that is none, ends in phase "crashed".        *)
(***************************************************************************)
EXTENDS HeapObjects

CONSTANTS
  STACK_MAX_SIZE,                \* slots of the stack: 2^20 in the program
  MINIMUM_HEAP_CAPACITY,         \* words: 64 in the program
  EXTRA_ROOM_HEAP_COEFFICIENT,   \* 2 in the program
  PAGE,                          \* words of a page: 512 in the program
  Pages,                         \* numbers of the pages mmap may hand out
  RESERVED,                      \* slots below the first local: globals and
                                 \* the two arguments of main
  Programs,                      \* what each program may do: a set of statements,
                                 \* as instructions
  IDS,                           \* identities of objects: as many as can be live
  INTS,                          \* integers: those in programs and in strings
  PAYLOAD                        \* what hashes, offsets and characters look like

ASSUME SizesAssumption ==
  /\ WORD \in Nat \ {0} /\ PAGE \in Nat \ {0} /\ PAYLOAD \in Nat
  /\ Pages \subseteq Nat \ {0}
  /\ MINIMUM_HEAP_CAPACITY \in Nat \ {0} /\ EXTRA_ROOM_HEAP_COEFFICIENT \in Nat \ {0}
  /\ RESERVED \in 1 .. STACK_MAX_SIZE /\ STACK_MAX_SIZE \in Nat

VARIABLES
  stack, sp,      \* the slots, and how many are in use
  heap, mem,      \* [begin, size, current] and the words of that region
  mapped,         \* the pages the program has mapped
  extra_roots,    \* what the runtime's extra roots hold
  prog,           \* the program
  todo,           \* the rest of the statement being executed
  phase,          \* "mutator", a phase of the collector, or how it ended
  next,           \* the root, slot or object the phase has come to
  head, tail,     \* the marking queue: iterators over the heap's objects
  live, old,      \* size of the marked objects; the chunk being left
  ids, view       \* auxiliary: the identity of each object; the graph of
                  \* objects as the program last saw it

program   == <<stack, sp, extra_roots, todo>>
collector == <<next, head, tail, live, old>>
vars      == <<prog, program, heap, mem, mapped, phase, collector, ids, view>>

Slots == 0 .. STACK_MAX_SIZE - 1
I     == Head(todo)
Top(k) == stack[sp - k]

(* The pages n words from begin on lie in; munmap is told the number of     *)
(* words as if it were bytes.                                              *)
PagesOf(begin, n) == begin \div PAGE .. (begin + n - 1) \div PAGE
UnmappedInBytes(begin, size) == PagesOf(begin, BYTES_TO_WORDS(size))

Chunk(begin, size, used) == [begin |-> begin, size |-> size, current |-> begin + used]

(* mmap places a chunk at the start of a page where nothing is mapped.      *)
Places(size) == {n \in Pages : PagesOf(n * PAGE, size) \subseteq Pages \ mapped}

Init ==
  /\ stack = [j \in Slots |-> BOX(0)]
  /\ sp = RESERVED
  /\ \E n \in Pages :
       /\ PagesOf(n * PAGE, MINIMUM_HEAP_CAPACITY) \subseteq Pages
       /\ heap = Chunk(n * PAGE, MINIMUM_HEAP_CAPACITY, 0)
       /\ mapped = PagesOf(n * PAGE, MINIMUM_HEAP_CAPACITY)
       /\ mem = [a \in n * PAGE .. n * PAGE + MINIMUM_HEAP_CAPACITY - 1 |-> 0]
  /\ extra_roots = <<>>
  /\ prog \in DOMAIN Programs
  /\ todo \in Programs[prog]
  /\ phase = "mutator"
  /\ next = 0 /\ head = 0 /\ tail = 0 /\ live = 0
  /\ old = Chunk(0, 0, 0)
  /\ ids = <<>>
  /\ view = [roots |-> [j \in 1 .. RESERVED |-> [kind |-> "int", val |-> 0]], objects |-> <<>>]

-----------------------------------------------------------------------------
(***************************************************************************)
(* The graph of objects as the program sees it.                            *)
(***************************************************************************)
AllObjects == Objects(mem, heap.begin, heap.current)

IsRef(w, names) == ~ UNBOXED(w) /\ HeaderOf(w) \in DOMAIN names

ValueOf(w, names) ==
  IF UNBOXED(w) THEN [kind |-> "int", val |-> UNBOX(w)]
  ELSE IF IsRef(w, names) THEN [kind |-> "ref", val |-> names[HeaderOf(w)]]
  ELSE [kind |-> "dangling", val |-> 0]

(* What memory m holds for roots ws, objects being known by names.          *)
Held(ws, m, names) ==
  Reachable(m, {HeaderOf(w) : w \in {v \in ws : IsRef(v, names)}}, LAMBDA w : IsRef(w, names))

Graph(slots, m, names) ==
  LET held == Held(ToSet(slots), m, names)
      object(h) == LET fs == Fields(m, h)
                   IN  [tag   |-> TAG(m[h]),
                        elems |-> [k \in 1 .. Len(fs) |-> ValueOf(m[fs[k]], names)]]
  IN  [roots   |-> [j \in DOMAIN slots |-> ValueOf(slots[j], names)],
       objects |-> [i \in {names[h] : h \in held} |->
                      object(CHOOSE h \in held : names[h] = i)]]

InUseSlots == <<>> \o [j \in 1 .. sp |-> stack[j - 1]]

(* The least identity that is not taken.                                    *)
FreshId(taken) == CHOOSE i \in 0 .. Cardinality(taken) :
                    i \notin taken /\ \A j \in 0 .. i - 1 : j \in taken

-----------------------------------------------------------------------------
(***************************************************************************)
(* The mutator: the interpreter's instructions that move values.            *)
(***************************************************************************)
At(ops) == phase = "mutator" /\ I.op \in ops

Advance == todo' \in IF Len(todo) > 1 THEN {Tail(todo)} ELSE Programs[prog]

Push(k, w) == /\ stack' = [stack EXCEPT ![sp - k] = w]
              /\ sp' = sp - k + 1

Quiet == UNCHANGED <<heap, mapped, extra_roots, phase, collector, ids>>

Const == /\ At({"CONST"})
         /\ Push(0, BOX(I.a))
         /\ Advance /\ Quiet /\ UNCHANGED mem

Load == /\ At({"LD"})
        /\ Push(0, stack[I.a])
        /\ Advance /\ Quiet /\ UNCHANGED mem

Store == /\ At({"ST"})
         /\ stack' = [stack EXCEPT ![I.a] = Top(1)]
         /\ Advance /\ Quiet /\ UNCHANGED <<sp, mem>>

Drop == /\ At({"DROP"})
        /\ sp' = sp - 1
        /\ Advance /\ Quiet /\ UNCHANGED <<stack, mem>>

HasElement(p, k) == /\ ~ UNBOXED(p) /\ UNBOXED(k)
                    /\ HeaderOf(p) \in DOMAIN mem
                    /\ TAG(mem[HeaderOf(p)]) \in {ARRAY_TAG, SEXP_TAG, STRING_TAG}
                    /\ UNBOX(k) < LEN(mem[HeaderOf(p)])

IsString(p) == TAG(mem[HeaderOf(p)]) = STRING_TAG

(* A string accepts as a character a boxed integer whose word is at most    *)
(* 0xff.                                                                   *)
Storable(p, v) == IsString(p) => UNBOXED(v) /\ v <= 255

(* What is asked for the type of its object, and has no header to tell it.  *)
Wild(p) == ~ UNBOXED(p) /\ ~ (HeaderOf(p) \in DOMAIN mem /\ IsHeader(mem[HeaderOf(p)]))

Fail == /\ \/ At({"ELEM"}) /\ ~ HasElement(Top(2), Top(1))
           \/ At({"STA"}) /\ ~ (HasElement(Top(3), Top(2)) /\ Storable(Top(3), Top(1)))
        /\ phase' = IF Wild(Top(IF I.op = "ELEM" THEN 2 ELSE 3)) THEN "crashed" ELSE "failed"
        /\ UNCHANGED <<program, heap, mem, mapped, collector, ids>>

(* Byte k of what starts at word a, and the memory with that byte replaced. *)
WEIGHT[j \in 0 .. 7] == IF j = 0 THEN 1 ELSE 256 * WEIGHT[j - 1]

Byte(m, a, k) == (m[a + k \div 8] \div WEIGHT[k % 8]) % 256
WithByte(m, a, k, byte) ==
  [m EXCEPT ![a + k \div 8] = @ + WEIGHT[k % 8] * (byte - Byte(m, a, k))]

Element(h, k) == IF TAG(mem[h]) = STRING_TAG THEN BOX(Byte(mem, h + DATA_HEADER_SZ, k))
                 ELSE mem[Fields(mem, h)[k + 1]]

Elem == /\ At({"ELEM"})
        /\ HasElement(Top(2), Top(1))
        /\ Push(2, Element(HeaderOf(Top(2)), UNBOX(Top(1))))
        /\ Advance /\ Quiet /\ UNCHANGED mem

(* The element of an array is the word itself, that of a string a byte of   *)
(* its characters.  For an s-expression the byte at the index is computed   *)
(* from an address one header too low: it is a byte of the object's forward *)
(* address (of the hash from index 8 on, of a field from index 16 on).      *)
StoreElement ==
  /\ At({"STA"})
  /\ HasElement(Top(3), Top(2)) /\ Storable(Top(3), Top(1))
  /\ LET h == HeaderOf(Top(3))
         k == UNBOX(Top(2))
         v == Top(1)
     IN  mem' = CASE TAG(mem[h]) = ARRAY_TAG  -> [mem EXCEPT ![Fields(mem, h)[k + 1]] = v]
                  [] TAG(mem[h]) = STRING_TAG -> WithByte(mem, h + DATA_HEADER_SZ, k, UNBOX(v))
                  [] OTHER                    -> WithByte(mem, h + 1, k, v % 256)
  /\ Push(3, Top(1))
  /\ Advance /\ Quiet

-----------------------------------------------------------------------------
(***************************************************************************)
(* Allocation.  A string takes the value under CALL_Lstring off the stack   *)
(* before it allocates and keeps it as an extra root; an array and an       *)
(* s-expression take their operands off after, a closure copies what it      *)
(* captures.                                                               *)
(***************************************************************************)
Allocators == {"CALL_Barray", "SEXP", "CLOSURE", "STRING", "CALL_Lstring"}

Requested(c) == CASE c.op = "CALL_Barray" -> Header(ARRAY_TAG, c.a)
                  [] c.op = "SEXP"        -> Header(SEXP_TAG, c.a)
                  [] c.op = "CLOSURE"     -> Header(CLOSURE_TAG, Len(c.caps) + 1)
                  [] OTHER                -> Header(STRING_TAG, c.a)

PoppedAfter(c) == IF c.op \in {"CALL_Barray", "SEXP"} THEN c.a ELSE 0
PoppedBefore(c) == IF c.op = "CALL_Lstring" THEN 1 ELSE 0

FieldValues(c) ==
  IF c.op = "CLOSURE" THEN [k \in 1 .. Len(c.caps) |-> stack[c.caps[k]]]
  ELSE [k \in 1 .. PoppedAfter(c) |-> Top(PoppedAfter(c) - k + 1)]

(* gc_alloc_on_existing_heap in chunk c, then what the handler does with    *)
(* the object.  popped values are off the stack already.                    *)
FitsIn(chunk, n) == chunk.current + n <= chunk.begin + chunk.size

Allocate(chunk, m, names, i, popped) ==
  LET h == chunk.current
      header == Requested(I)
  IN  /\ heap' = [chunk EXCEPT !.current = @ + Size(header)]
      /\ mem' = Written(m, h, header, PAYLOAD, FieldValues(I))
      /\ ids' = [g \in DOMAIN names \cup {h} |-> IF g = h THEN i ELSE names[g]]
      /\ Push(popped + PoppedAfter(I), Content(h))
      /\ extra_roots' = <<>>
      /\ Advance

Alloc == /\ At(Allocators)
         /\ FitsIn(heap, Size(Requested(I)))
         /\ Allocate(heap, mem, ids, FreshId({ids[h] : h \in Held(ToSet(InUseSlots), mem, ids)}), PoppedBefore(I))
         /\ UNCHANGED <<mapped, phase, collector>>

StartCollection ==
  /\ At(Allocators)
  /\ ~ FitsIn(heap, Size(Requested(I)))
  /\ sp' = sp - PoppedBefore(I)
  /\ extra_roots' = [k \in 1 .. PoppedBefore(I) |-> Top(k)]
  /\ phase' = "roots"
  /\ next' = 1
  /\ UNCHANGED <<stack, todo, heap, mem, mapped, head, tail, live, old, ids>>

-----------------------------------------------------------------------------
(***************************************************************************)
(* Marking.                                                                *)
(***************************************************************************)
is_valid_heap_pointer(w) ==
  ~ UNBOXED(w) /\ 8 * heap.begin <= w /\ w <= 8 * heap.current

SECOND_ROOT == 2                                      \* mutant
FIRST_ROOT == 1                     \* the scan starts a slot above the bottom
Roots == [j \in 1 .. sp - FIRST_ROOT |-> stack[FIRST_ROOT + j - 1]] \o extra_roots

(* The pointer p enters the queue: the object at the tail holds its address. *)
queue_enqueue(m, t, p) ==
  make_enqueued([m EXCEPT ![t + 1] = SET_FORWARD_ADDRESS(@, p)], HeaderOf(p))

MarkRoot ==
  /\ phase = "roots"
  /\ next <= Len(Roots)
  /\ LET p == Roots[next]
     IN  IF ~ is_valid_heap_pointer(p) \/ is_marked(mem, HeaderOf(p))
           THEN /\ next' = next + 1
                /\ UNCHANGED <<mem, phase, head, tail>>
           ELSE /\ mem' = queue_enqueue(mem, heap.begin, p)
                /\ head' = heap.begin
                /\ tail' = heap.begin + Size(mem[heap.begin])
                /\ phase' = "queue"
                /\ UNCHANGED next
  /\ UNCHANGED <<program, heap, mapped, live, old, ids>>

ToEnqueue(m, p) == /\ is_valid_heap_pointer(p)
                   /\ ~ is_marked(m, HeaderOf(p))
                   /\ ~ is_enqueued(m, HeaderOf(p))

(* What field f holds enters the queue unless it is marked or in it.        *)
Enter(q, f) == IF ToEnqueue(q.mem, q.mem[f])
                 THEN [mem  |-> queue_enqueue(q.mem, q.tail, q.mem[f]),
                       tail |-> q.tail + Size(q.mem[q.tail])]
                 ELSE q

EnterAll(q, fields) == FoldLeft(Enter, q, fields)

(* One object leaves the queue, is marked, and its unmarked fields enter.   *)
Dequeue ==
  /\ phase = "queue"
  /\ LET h == HeaderOf(GET_FORWARD_ADDRESS(mem[head + 1]))
         queue == EnterAll([mem |-> mark_object(make_dequeued(mem, h), h), tail |-> tail],
                           Fields(mem, h))
         empty == head + Size(mem[head]) = queue.tail
     IN  /\ mem' = queue.mem
         /\ tail' = queue.tail
         /\ head' = head + Size(mem[head])
         /\ phase' = IF empty THEN "roots" ELSE "queue"
         /\ next' = IF empty THEN next + 1 ELSE next
  /\ UNCHANGED <<program, heap, mapped, live, old, ids>>

Marked == {h \in AllObjects : is_marked(mem, h)}
SizeOf(S) == Cardinality(Words(mem, S))

compute_locations ==
  /\ phase = "roots"
  /\ next > Len(Roots)
  /\ LET marked == Marked
         free(h) == heap.begin + SizeOf({g \in marked : g < h})
     IN  /\ mem' = [a \in DOMAIN mem |->
                      IF a - 1 \in marked
                        THEN SET_FORWARD_ADDRESS(mem[a], 8 * free(a - 1))
                        ELSE mem[a]]
         /\ live' = SizeOf(marked)
  /\ phase' = "map"
  /\ UNCHANGED <<program, heap, mapped, next, head, tail, old, ids>>

-----------------------------------------------------------------------------
(***************************************************************************)
(* Compaction.                                                             *)
(***************************************************************************)
Larger(x, y) == IF x > y THEN x ELSE y

NextHeapSizeOfLive ==                                 \* mutant
  Larger(Larger(live * EXTRA_ROOM_HEAP_COEFFICIENT, MINIMUM_HEAP_CAPACITY), heap.size)
NextHeapSizeShrinking ==                              \* mutant
  Larger(live * EXTRA_ROOM_HEAP_COEFFICIENT + Size(Requested(I)), MINIMUM_HEAP_CAPACITY)
NextHeapSize ==
  Larger(Larger(live * EXTRA_ROOM_HEAP_COEFFICIENT + Size(Requested(I)), MINIMUM_HEAP_CAPACITY),
         heap.size)

(* Where the old chunk's address a is in the new one.                       *)
Rebased(a) == heap.begin + (a - old.begin)

(* The heap is copied as it is to a new region; when there is none, memcpy   *)
(* writes through MAP_FAILED before it is tested.                           *)
NewHeap ==
  /\ phase = "map"
  /\ IF Places(NextHeapSize) = {}
       THEN /\ phase' = "exhausted"
            /\ UNCHANGED <<heap, mem, mapped, old, ids>>
       ELSE \E n \in Places(NextHeapSize) :
         LET begin == n * PAGE
         IN  /\ heap' = Chunk(begin, NextHeapSize, heap.current - heap.begin)
             /\ old' = heap
             /\ mem' = [a \in begin .. begin + NextHeapSize - 1 |->
                          IF a - begin < heap.size THEN mem[a - begin + heap.begin] ELSE 0]
             /\ mapped' = mapped \cup PagesOf(begin, NextHeapSize)
             /\ ids' = LET to(h) == GET_FORWARD_ADDRESS(mem[h + 1]) \div 8 - heap.begin + begin
                       IN  [g \in {to(h) : h \in Marked} |->
                              ids[CHOOSE h \in Marked : to(h) = g]]
             /\ phase' = "fields"
  /\ UNCHANGED <<program, next, head, tail, live>>

PointsToOld(w) == ~ UNBOXED(w) /\ 8 * old.begin <= w /\ w <= 8 * old.current

NewHeader(w) ==                                                     \* mutant
  (8 * heap.begin + GET_FORWARD_ADDRESS(mem[Rebased(w \div 8) - 1]) - 8 * old.begin) % WORD

(* Where the object that w pointed to in the old chunk will be.             *)
NewAddress(w) ==
  (8 * heap.begin + GET_FORWARD_ADDRESS(mem[Rebased(w \div 8) - 1]) - 8 * old.begin
     + (8 * DATA_HEADER_SZ)) % WORD

update_references ==
  /\ phase = "fields"
  /\ LET updated == UNION {ToSet(Fields(mem, h)) : h \in Marked}
     IN  mem' = [a \in DOMAIN mem |-> IF a \in updated /\ PointsToOld(mem[a])
                                        THEN NewAddress(mem[a]) ELSE mem[a]]
  /\ phase' = "stack"
  /\ next' = FIRST_ROOT
  /\ UNCHANGED <<program, heap, mapped, head, tail, live, old, ids>>

(* The region to fix ends one word beyond the stack: the slot a pop left    *)
(* behind.  (On a full stack that word is not the stack's at all, and the   *)
(* model leaves it alone.)                                                 *)
LastFixedBelowTop == sp - 2                           \* mutant
LastFixed == IF sp < STACK_MAX_SIZE THEN sp ELSE sp - 1

(* What lies before w must be read as a header.                            *)
LooksLikeObject(w) == LET h == Rebased(w \div 8) - DATA_HEADER_SZ
                      IN  h \in DOMAIN mem /\ IsHeader(mem[h])

FixSlot ==
  /\ phase = "stack"
  /\ next <= LastFixed
  /\ LET w == stack[next]
     IN  IF ~ PointsToOld(w)
           THEN next' = next + 1 /\ UNCHANGED <<stack, phase>>
         ELSE IF ~ LooksLikeObject(w)
           THEN phase' = "crashed" /\ UNCHANGED <<stack, next>>
         ELSE /\ stack' = [stack EXCEPT ![next] = NewAddress(w)]
              /\ next' = next + 1
              /\ UNCHANGED phase
  /\ UNCHANGED <<sp, extra_roots, todo, heap, mem, mapped, head, tail, live, old, ids>>

scan_and_fix_region_roots ==
  /\ phase = "stack"
  /\ next > LastFixed
  /\ extra_roots' = [k \in DOMAIN extra_roots |->
       IF PointsToOld(extra_roots[k]) THEN NewAddress(extra_roots[k]) ELSE extra_roots[k]]
  /\ phase' = "move"
  /\ next' = heap.begin
  /\ UNCHANGED <<stack, sp, todo, heap, mem, mapped, head, tail, live, old, ids>>

(* memmove: the object at h as it was, from address to on, unmarked.        *)
MovedMarked(m, h, to) ==                              \* mutant
  [a \in DOMAIN m |-> IF a \notin to .. to + Size(m[h]) - 1 THEN m[a]
                      ELSE m[h + a - to]]
MovedTo(m, h, to) ==
  [a \in DOMAIN m |-> IF a \notin to .. to + Size(m[h]) - 1 THEN m[a]
                      ELSE IF a = to + 1 THEN ResetBit(m[h + 1], 1)
                      ELSE m[h + a - to]]

(* The next object is found before this one is moved, perhaps over it.      *)
physically_relocate ==
  /\ phase = "move"
  /\ next < heap.current
  /\ mem' = IF is_marked(mem, next)
              THEN MovedTo(mem, next, Rebased(GET_FORWARD_ADDRESS(mem[next + 1]) \div 8))
              ELSE mem
  /\ next' = next + Size(mem[next])
  /\ UNCHANGED <<program, heap, mapped, phase, head, tail, live, old, ids>>

(* The old chunk is unmapped and the allocation tried again.                *)
EndCollection ==
  /\ phase = "move"
  /\ next >= heap.current
  /\ LET chunk == [heap EXCEPT !.current = heap.begin + live]
     IN  IF FitsIn(chunk, Size(Requested(I)))
           THEN /\ Allocate(chunk, mem, ids, FreshId({ids[h] : h \in DOMAIN ids}), 0)
                /\ phase' = "mutator"
           ELSE /\ phase' = "null"
                /\ UNCHANGED <<program, heap, mem, ids>>
  /\ mapped' = mapped \ UnmappedInBytes(old.begin, old.size)
  /\ next' = 0 /\ head' = 0 /\ tail' = 0 /\ live' = 0
  /\ old' = Chunk(0, 0, 0)

(* The interpreter's destructor.                                           *)
__shutdown ==
  /\ At({"END"})
  /\ mapped' = mapped \ UnmappedInBytes(heap.begin, heap.size)
  /\ heap' = Chunk(0, 0, 0)
  /\ mem' = <<>>
  /\ sp' = 0
  /\ phase' = "exited"
  /\ UNCHANGED <<stack, extra_roots, todo, collector, ids>>

Mutator == Const \/ Load \/ Store \/ Drop \/ Elem \/ StoreElement \/ Fail \/ Alloc

Collect == \/ StartCollection \/ MarkRoot \/ Dequeue \/ compute_locations
           \/ NewHeap \/ update_references \/ FixSlot
           \/ scan_and_fix_region_roots \/ physically_relocate \/ EndCollection

Collecting == {"roots", "queue", "map", "fields", "stack", "move"}
Ends       == {"exited", "failed", "crashed", "exhausted", "null"}

Ended == phase \in Ends /\ UNCHANGED vars

(* What the program sees changes only while it runs.                        *)
Observe == view' = IF phase' = "mutator" THEN Graph(InUseSlots', mem', ids') ELSE view

Next == \/ (Mutator \/ Collect \/ __shutdown) /\ Observe /\ UNCHANGED prog
        \/ Ended

Spec == Init /\ [][Next]_vars

-----------------------------------------------------------------------------
(***************************************************************************)
(* Properties.                                                             *)
(***************************************************************************)
Word == 0 .. WORD - 1
IsChunk(c) == /\ c \in [begin : Nat, size : Nat, current : Nat]
              /\ c.current \in c.begin .. c.begin + c.size

(* Every word is a machine word, memory holds the words of the current heap, *)
(* whose end of allocation lies in it, and the phase is one of those named. *)
TypeOK ==
  /\ stack \in [Slots -> Word] /\ sp \in 0 .. STACK_MAX_SIZE
  /\ IsChunk(heap) /\ IsChunk(old)
  /\ mem \in [heap.begin .. heap.begin + heap.size - 1 -> Word]
  /\ mapped \subseteq Pages
  /\ extra_roots \in Seq(Word)
  /\ phase \in {"mutator"} \cup Collecting \cup Ends
  /\ next \in Nat /\ head \in Nat /\ tail \in Nat /\ live \in Nat

(* The comment in mark: the queue contains only valid heap pointers, each    *)
(* to the content of an unmarked object, and each once.  The objects in it   *)
(* are the ones that carry the enqueued bit, and the queue, threaded         *)
(* through the objects from head to tail, never runs past the heap.         *)
Carriers == {h \in AllObjects : head <= h /\ h < tail}
Victim(h) == HeaderOf(GET_FORWARD_ADDRESS(mem[h + 1]))

QueueSound ==
  phase = "queue" =>
    /\ tail <= heap.current
    /\ \A h \in Carriers : Victim(h) \in AllObjects /\ ~ is_marked(mem, Victim(h))
    /\ \A g, h \in Carriers : Victim(g) = Victim(h) => g = h
    /\ {Victim(h) : h \in Carriers} = {h \in AllObjects : is_enqueued(mem, h)}

(* When the marking is over, an object is marked exactly when a stack slot  *)
(* or the value the runtime holds leads to it: nothing in use is lost, and   *)
(* nothing else is kept.                                                   *)
MarkingDone == phase = "roots" /\ next > Len(Roots)
InUse == Held(ToSet(InUseSlots \o extra_roots), mem, ids)

MarkedIsReachable == MarkingDone => Marked = InUse

(* The half of it the mark phase cannot do without.                         *)
InUseIsMarked == MarkingDone => InUse \subseteq Marked

(* Between collections no object carries a mark or an enqueued bit: one     *)
(* that did would be skipped by the next marking, fields and all.           *)
MarksClear ==
  phase = "mutator" => \A h \in AllObjects : ~ is_marked(mem, h) /\ ~ is_enqueued(mem, h)

(* A collection always makes room for the object it was started for.        *)
RoomMade == phase # "null"

(* Every pointer the program can load from its stack is to an object.       *)
RootsDenoteObjects ==
  phase = "mutator" => \A j \in 0 .. sp - 1 : UNBOXED(stack[j]) \/ IsRef(stack[j], ids)

(* No word the collector comes across makes it read what is not there.      *)
NeverCrashes == phase # "crashed"

(* The program sees a graph of objects that last while they can be reached, *)
(* whose values no collection changes.                                     *)
Abstract == INSTANCE ObjectGraph WITH
  roots   <- view.roots,
  objects <- view.objects,
  Ints    <- INTS,
  Ids     <- IDS

ImplementsObjects == Abstract!Spec
-----------------------------------------------------------------------------
(***************************************************************************)
(* What the theorems about the collector assume of machine and programs.    *)
(***************************************************************************)

(* Eight bytes make a word, the pages mmap hands out have addresses that are *)
(* words, and so has what lies behind them.                                 *)
Addressable == /\ WORD % 8 = 0 /\ WORD > 511
               /\ PAYLOAD \in Word
               /\ \A n \in Pages : 8 * ((n + 1) * PAGE) < WORD

(* Operands an instruction takes from above the locals, and by how much it   *)
(* makes the stack higher.                                                  *)
Needs(c) == CASE c.op \in {"ST", "DROP", "CALL_Lstring"} -> 1
              [] c.op = "ELEM" -> 2
              [] c.op = "STA"  -> 3
              [] c.op \in {"CALL_Barray", "SEXP"} -> c.a
              [] OTHER -> 0
Rise(c)  == CASE c.op \in {"CONST", "LD", "CLOSURE", "STRING"} -> 1
              [] c.op \in {"DROP", "ELEM"} -> -1
              [] c.op = "STA" -> -2
              [] c.op \in {"CALL_Barray", "SEXP"} -> 1 - c.a
              [] OTHER -> 0

(* An instruction that can be executed at height n.  The first global is not *)
(* assigned: it is no root.                                                 *)
Legal(c, n) ==
  /\ c.op \in {"CONST", "LD", "ST", "DROP", "ELEM", "STA", "END"} \cup Allocators
  /\ c.op = "CONST" => c.a \in Nat /\ BOX(c.a) \in Word
  /\ c.op = "LD" => c.a \in 0 .. n - 1
  /\ c.op = "ST" => c.a \in 1 .. n - 1
  /\ c.op = "CLOSURE" => c.caps \in Seq(0 .. n - 1)
  /\ c.op \in Allocators \ {"CLOSURE"} => c.a \in Nat
  /\ c.op \in Allocators => Requested(c) \in Word
  /\ RESERVED + Needs(c) <= n

(* There are heights at which s can be executed from height n on, and it      *)
(* ends where the next statement begins.                                    *)
Executable(s, n) ==
  /\ s \in Seq(Range(s)) /\ s # <<>>
  /\ \E d \in [1 .. Len(s) + 1 -> RESERVED .. STACK_MAX_SIZE] :
       /\ d[1] = n /\ d[Len(s) + 1] = RESERVED
       /\ \A k \in 1 .. Len(s) : Legal(s[k], d[k]) /\ d[k + 1] = d[k] + Rise(s[k])

WellBehaved == \A p \in DOMAIN Programs : \A s \in Programs[p] : Executable(s, RESERVED)

(* There are numbers for the integers of programs and strings, and as many   *)
(* identities as the heap has words.                                        *)
Ample == /\ 0 .. 255 \subseteq INTS
         /\ \A p \in DOMAIN Programs : \A s \in Programs[p] : \A k \in DOMAIN s :
              s[k].op = "CONST" => s[k].a \in INTS
         /\ \A n \in Pages : 0 .. (n + 1) * PAGE \subseteq IDS

(* A byte is stored within a word, and a store to an s-expression, which     *)
(* reaches its forward word instead, leaves the flags in its first byte.    *)
StoresSpareFlags ==
  At({"STA"}) /\ HasElement(Top(3), Top(2)) =>
    LET k == UNBOX(Top(2))
        tag == TAG(mem[HeaderOf(Top(3))])
    IN  /\ tag # ARRAY_TAG => WORD % (256 * WEIGHT[k % 8]) = 0
        /\ tag = SEXP_TAG => k \in 1 .. 7
=============================================================================
