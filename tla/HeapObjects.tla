----------------------------- MODULE HeapObjects -----------------------------
(***************************************************************************)
(* How runtime/gc.c lays objects out in words.  A word is a natural below   *)
(* WORD: a boxed integer is odd, a pointer is the byte address of an        *)
(* object's content, a multiple of the word's 8 bytes.  A memory is a       *)
(* function from word addresses to words; an object is named by the        *)
(* address h of its header, whose three low bits are its type and the rest  *)
(* its length.  The word after the header is forward_address: the address  *)
(* the object moves to, with the mark bit and the enqueued bit below it.    *)
(***************************************************************************)
EXTENDS Integers, Sequences, FiniteSetsExt, SequencesExt

CONSTANT WORD                       \* words there are: 2^64 in the program

STRING_TAG  == 1
ARRAY_TAG   == 3
SEXP_TAG    == 5
CLOSURE_TAG == 7

LEN(w) == w \div 8
TAG(w) == w % 8
IsHeader(w) == TAG(w) \in {STRING_TAG, ARRAY_TAG, SEXP_TAG, CLOSURE_TAG}
Header(tag, len) == tag + 8 * len

UNBOXED(w) == w % 2 = 1
BOX(n)   == 2 * n + 1
UNBOX(w) == w \div 2

DATA_HEADER_SZ == 2                                          \* in words
Content(h)  == 8 * (h + DATA_HEADER_SZ)
HeaderOf(p) == p \div 8 - DATA_HEADER_SZ

BYTES_TO_WORDS(bytes) == (bytes - 1) \div 8 + 1

(* Words an object takes, and how many of them come before its fields: a    *)
(* constructor's hash or a code offset are not values, nor are characters.  *)
Size(w) == DATA_HEADER_SZ + (CASE TAG(w) = STRING_TAG -> BYTES_TO_WORDS(LEN(w) + 1)
                               [] TAG(w) = SEXP_TAG   -> LEN(w) + 1
                               [] OTHER               -> LEN(w))
FirstField(w) == CASE TAG(w) = STRING_TAG -> Size(w)
                   [] TAG(w) = ARRAY_TAG  -> DATA_HEADER_SZ
                   [] OTHER               -> DATA_HEADER_SZ + 1

(* The addresses of an object's fields, in order.                           *)
Fields(m, h) == [k \in 1 .. Size(m[h]) - FirstField(m[h]) |->
                   h + FirstField(m[h]) + k - 1]

-----------------------------------------------------------------------------
(* The bits of forward_address.                                            *)
Bit(w, b) == (w \div b) % 2 = 1
SetBit(w, b)   == IF Bit(w, b) THEN w ELSE w + b
ResetBit(w, b) == IF Bit(w, b) THEN w - b ELSE w

is_marked(m, h)   == Bit(m[h + 1], 1)
is_enqueued(m, h) == Bit(m[h + 1], 2)

mark_object(m, h)   == [m EXCEPT ![h + 1] = SetBit(@, 1)]
make_enqueued(m, h) == [m EXCEPT ![h + 1] = SetBit(@, 2)]
make_dequeued_never(m, h) == m                        \* mutant
make_dequeued(m, h) == [m EXCEPT ![h + 1] = ResetBit(@, 2)]

GET_FORWARD_ADDRESS(w)       == w - (w % 4)
SET_FORWARD_ADDRESS(w, addr) == (w % 4) + addr

-----------------------------------------------------------------------------
(* The objects of a heap that fills begin .. current-1, as the iterator     *)
(* meets them.                                                             *)
Objects(m, begin, current) ==
  LET from[h \in begin .. current] ==
        IF h = current THEN {}
        ELSE LET behind == h + Size(m[h])
             IN  {h} \cup from[IF behind < current THEN behind ELSE current]
  IN  from[begin]

(* The words that a set of objects takes.                                   *)
Words(m, S) == UNION {h .. h + Size(m[h]) - 1 : h \in S}

(* All objects that fields lead to from a set of objects; legal(w) says     *)
(* that w is a pointer to follow.                                          *)
Reachable(m, starts, legal(_)) ==
  LET fields(S) == UNION {ToSet(Fields(m, h)) : h \in S}
      grow[S \in SUBSET DOMAIN m] ==
        LET more == S \cup {HeaderOf(m[f]) : f \in {g \in fields(S) : legal(m[g])}}
        IN  IF more = S THEN S ELSE grow[more]
  IN  grow[starts]

(* The object written at h: its header, an empty forward address, a payload *)
(* word for whatever is not a value, and its fields.                       *)
Written(m, h, header, payload, values) ==
  [a \in DOMAIN m |->
     IF a \notin h .. h + Size(header) - 1 THEN m[a]
     ELSE IF a = h THEN header
     ELSE IF a = h + 1 THEN 0
     ELSE IF a < h + FirstField(header) THEN payload
     ELSE values[a - h - FirstField(header) + 1]]
=============================================================================
