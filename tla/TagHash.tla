------------------------------ MODULE TagHash ------------------------------
(***************************************************************************)
(* LtagHash and de_hash of runtime.c: the name of a constructor is packed    *)
(* into an integer, six bits a character, unpacked again into a static      *)
(* buffer and compared with the name.  A character is a model value; the    *)
(* names are C strings, here sequences without their NUL.                   *)
(***************************************************************************)
EXTENDS Integers, Sequences

CONSTANTS chars,             \* the characters LtagHash knows, in the order of their codes
          Others,            \* characters it does not know
          MAX_SEXP_TAGLEN,   \* characters of a name that are kept
          WORD,              \* how many words there are: 2^64 in the program
          NUL,
          Names              \* the names hashed

Known == {chars[k] : k \in 1 .. Len(chars)}
BASE  == Len(chars)          \* 2^6 in the program

VARIABLES pc,                \* "hash", "unpack", "compare", "accepted", "refused"
          s, p, limit, h,    \* LtagHash
          n, buf, q          \* de_hash: q is the index the next digit is written to

hashing   == <<s, p, limit, h>>
unpacking == <<n, buf, q>>
vars      == <<pc, hashing, unpacking>>

(* The static buffer holds what the last call left in it.                   *)
Init == /\ pc = "hash" /\ s \in Names /\ p = 1 /\ limit = 0 /\ h = 0
        /\ n = 0 /\ q = MAX_SEXP_TAGLEN
        /\ \E c \in Known \cup {NUL} : buf = [k \in 0 .. MAX_SEXP_TAGLEN |-> c]

(* The low bits of a word, as a signed number.                              *)
Word(x) == ((x + WORD \div 2) % WORD) - WORD \div 2
BOX(x)   == Word(2 * x + 1)
UNBOX(x) == x \div 2

KeepsOneMore == p <= Len(s) /\ limit <= MAX_SEXP_TAGLEN           \* mutant
Keeps == p <= Len(s) /\ limit < MAX_SEXP_TAGLEN

(* h << 6 | pos, for a character that is found.                             *)
Found(c) == c \in Known
Pack(pos) == Word(h * BASE + pos)

Scan == /\ pc = "hash" /\ Keeps /\ Found(s[p])
        /\ \E k \in 1 .. Len(chars) : chars[k] = s[p] /\ h' = Pack(k - 1)
        /\ limit' = limit + 1 /\ p' = p + 1
        /\ UNCHANGED <<pc, s, unpacking>>

Unknown == /\ pc = "hash" /\ Keeps /\ ~ Found(s[p])
           /\ pc' = "refused"
           /\ limit' = limit + 1
           /\ UNCHANGED <<s, p, h, unpacking>>

StartUnpack == /\ pc = "hash" /\ ~ Keeps
               /\ pc' = "unpack"
               /\ n' = h
               /\ buf' = [buf EXCEPT ![MAX_SEXP_TAGLEN] = NUL]
               /\ q' = MAX_SEXP_TAGLEN - 1
               /\ UNCHANGED hashing

-----------------------------------------------------------------------------
(* The last digit goes to the end of the buffer.  n >> 6 rounds down.        *)
Digit(x) == x % BASE

Unpack == /\ pc = "unpack" /\ n # 0
          /\ buf' = [buf EXCEPT ![q] = chars[Digit(n) + 1]]
          /\ n' = n \div BASE
          /\ q' = q - 1
          /\ UNCHANGED <<pc, hashing>>

Unpacked == /\ pc = "unpack" /\ n = 0
            /\ pc' = "compare" /\ q' = q + 1
            /\ UNCHANGED <<hashing, n, buf>>

-----------------------------------------------------------------------------
(* strncmp: both strings up to their NUL, MAX_SEXP_TAGLEN characters at most.*)
NameAt(k) == IF k < Len(s) THEN s[k + 1] ELSE NUL
HashAt(k) == buf[q + k]

NotCompared == TRUE                                     \* mutant
SamePrefix ==
  \A k \in 0 .. MAX_SEXP_TAGLEN - 1 :
    (\A j \in 0 .. k - 1 : NameAt(j) = HashAt(j) /\ NameAt(j) # NUL) => NameAt(k) = HashAt(k)

Compare == /\ pc = "compare"
           /\ pc' = IF SamePrefix THEN "accepted" ELSE "refused"
           /\ UNCHANGED <<hashing, unpacking>>

Ended == pc \in {"accepted", "refused"} /\ UNCHANGED vars

Next == Scan \/ Unknown \/ StartUnpack \/ Unpack \/ Unpacked \/ Compare \/ Ended

Spec == Init /\ [][Next]_vars

-----------------------------------------------------------------------------
(***************************************************************************)
(* Properties.                                                             *)
(***************************************************************************)
(* de_hash writes inside its static buffer, and strncmp reads inside it,    *)
(* however many digits the hash of a name has.                             *)
InBuffer == /\ pc \in {"hash", "unpack", "compare", "accepted", "refused"}
            /\ p \in 1 .. Len(s) + 1 /\ limit \in 0 .. MAX_SEXP_TAGLEN
            /\ buf \in [0 .. MAX_SEXP_TAGLEN -> Known \cup {NUL}]
            /\ q \in -1 .. MAX_SEXP_TAGLEN
            /\ pc = "unpack" /\ n # 0 => q >= 0
            /\ pc = "compare" => q >= 0

Kept == SubSeq(s, 1, IF Len(s) < MAX_SEXP_TAGLEN THEN Len(s) ELSE MAX_SEXP_TAGLEN)

(* The numbers that d digits can write, and the one a name's digits do.     *)
Power(d) ==
  LET power[k \in 0 .. d] == IF k = 0 THEN 1 ELSE power[k - 1] * BASE
  IN  power[d]

Code(c) == CHOOSE d \in 0 .. BASE - 1 : chars[d + 1] = c

Number(t) ==
  LET value[k \in 0 .. Len(t)] == IF k = 0 THEN 0 ELSE value[k - 1] * BASE + Code(t[k])
  IN  value[Len(t)]

(* What the program's constants have in common with every other choice of    *)
(* them: no character has two codes, a word holds the tag of any name and   *)
(* the bit of its box, and a name is a C string.                           *)
Coded ==
  /\ chars \in Seq(Known) /\ BASE >= 2
  /\ \A j, k \in 1 .. BASE : chars[j] = chars[k] => j = k
  /\ MAX_SEXP_TAGLEN \in Nat \ {0}
  /\ WORD \in Nat /\ WORD % 2 = 0 /\ 2 * Power(MAX_SEXP_TAGLEN) <= WORD \div 2
  /\ NUL \notin Known \cup Others
  /\ Names \subseteq Seq(Known \cup Others)

(* An accepted name's tag is the number its kept characters denote, the      *)
(* interpreter's box and unbox give it back, and no other kept characters    *)
(* have it: constructors are told apart exactly by their first              *)
(* MAX_SEXP_TAGLEN characters.                                             *)
TagsTellApart ==
  pc = "accepted" =>
    /\ h = Number(Kept) /\ UNBOX(BOX(h)) = h
    /\ Kept # <<>> => /\ Power(Len(Kept) - 1) <= h
                      /\ h < Power(Len(Kept))
=============================================================================
