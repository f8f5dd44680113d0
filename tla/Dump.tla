-------------------------------- MODULE Dump --------------------------------
(***************************************************************************)
(* The disassembler of -d: dump_bytecode in main.cpp.  It goes over the code *)
(* section from its first byte, one instruction after the other, and stops  *)
(* at the end or before an instruction that the end cuts off.  ip is an     *)
(* int32_t and a size a size_t: what they give is compared unsigned.        *)
(***************************************************************************)
EXTENDS CodeBytes, FiniteSets

VARIABLES code,         \* the code section it is given
          phase, ip,
          shown         \* the instructions printed
vars == <<code, phase, ip, shown>>

Size == Cardinality(Offsets(code))

Init == phase = "dump" /\ ip = 0 /\ shown = {}

FitsStrictly(n) == 0 <= n /\ n < Size                   \* mutant
Fits(n) == 0 <= n /\ n <= Size

(* size() reads the number of captures before any length is compared.       *)
SizeIsRead == Op(code, ip) = "CLOSURE" => Complete(code, ip)

Stop(how) == phase' = how /\ UNCHANGED <<code, ip, shown>>

Loop(guard) == phase = "dump" /\ ip < Size /\ guard

Show == /\ Loop(SizeIsRead /\ Fits(ip + SizeAt(code, ip)))
        /\ shown' = shown \cup {ip}
        /\ ip' = ip + SizeAt(code, ip)
        /\ UNCHANGED <<code, phase>>

TrailingBytes == Loop(SizeIsRead /\ ~ Fits(ip + SizeAt(code, ip))) /\ Stop("done")
ReadBeyond    == Loop(~ SizeIsRead) /\ Stop("wild")
AtEnd         == phase = "dump" /\ ip = Size /\ Stop("done")

Ends == {"done", "wild"}

Next == Show \/ TrailingBytes \/ ReadBeyond \/ AtEnd

GoesBack == /\ phase = "dump" /\ ip < Size /\ SizeIsRead
            /\ Op(code, ip) = "CLOSURE" /\ Arg(code, ip, 1) < 0
=============================================================================
