---------------------------- MODULE MCCommandLine ----------------------------
(***************************************************************************)
(* Command lines and files for CommandLine.  An int32_t goes up to 127: the *)
(* size of a code section can be more than it holds, be cut to a negative   *)
(* number, or wrap to a positive one.                                      *)
(***************************************************************************)
EXTENDS CommandLine, MCCodeFiles

Lines == {<<>>, <<"file">>, <<"absent">>, <<"file", "-v">>}
           \cup {<<flag, "file">> : flag \in {"-c", "-d", "-a", "-v", "-x"}}

(* Headers that say anything, before bytes that are no instructions: zeros,  *)
(* or the name main where there is room for it.  A name can begin past the   *)
(* end of the file and code past the end of the code.                       *)
Tables == {<<p, q, p, p>> : p, q \in {<<0, 0>>, <<-1, 0>>, <<0, -1>>}}
            \cup {<<p, p, p, p>> : p \in {<<0, 127>>, <<127, 0>>}}
Unknown == Explicit([i \in 0 .. 127 |-> 0])
Headers ==
  [size : {0, 11, 12, 13, 21, 28, 29, 44, 45, 76, 147, 148, 149, 275, 276, 300, 320},
   st_length : {-1, 0, 1, 31}, globals_length : {-1, 0, 126, 127},
   pubs_length : {-1, 0, 1, 2, 4}, pubs : Tables, code : {Unknown}]

AnyHeaders ==
  {[names |-> [a \in IF h.size > HeaderSize + PubSize * h.pubs_length THEN {0} ELSE {} |->
                 IF h.st_length = 31 THEN "main" ELSE ""]] @@ h : h \in Headers}

(* Closures whose negative number of captures takes the dump back, before    *)
(* the start, onto themselves and onto what precedes them.                 *)
BackFiles == {
  File(<<0>>, <<Ins2("BEGIN", 2, 0), Ins2("CLOSURE", 0, -1), Ins("END")>>),
  File(<<0>>, <<Ins2("BEGIN", 2, 0), Ins2("CLOSURE", 0, -3), Ins("END")>>),
  File(<<0>>, <<Ins2("CLOSURE", 0, -2), Ins("END")>>)}

(* A file of lamac's with one name, its header as it should be.  Its symbols *)
(* are called main.                                                        *)
Written(f) ==
  LET n == Len(f.pubs)
  IN  [size |-> HeaderSize + n * PubSize + 5 + Cardinality(DOMAIN f.code),
       st_length |-> 5, globals_length |-> 0, pubs_length |-> n,
       names |-> [a \in {0} |-> "main"],
       pubs |-> [k \in 1 .. n |-> <<0, f.pubs[k]>>], code |-> f.code]

CodeFiles == Range(AnyFiles) \cup Range(BrokenFiles) \cup BackFiles

AllContents == AnyHeaders \cup {Written(f) : f \in CodeFiles}

(* One file for the verifier: a function that drops what nobody pushed.      *)
Underflow == File(<<0>>, <<Ins2("BEGIN", 2, 0), Ins("DROP"), Ins1("CONST", 1), Ins("END")>>)

VerifiedLines    == {<<"-v", "file">>}
VerifiedContents == {Written(Underflow)}

MCVerifiedLines    == VerifiedLines
MCVerifiedContents == VerifiedContents
MCLines    == Lines
MCContents == AllContents
=============================================================================
