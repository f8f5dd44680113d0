SPECIFICATION RuntimeSpec
CONSTANTS
  Chars <- MCChars
  NUL = NUL
  Jobs <- MCJobs
  STRINGBUF_INIT = 2
  chars <- HashChars
  Others <- MCOthers
  MAX_SEXP_TAGLEN = 3
  WORD = 256
  Names <- MCNames
INVARIANTS TypeOK Terminated TextOfValue InBuffer TagsTellApart AcceptedAsModelled
PROPERTIES ImplementsAppender StringMade
