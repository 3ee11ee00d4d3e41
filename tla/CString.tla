------------------------------ MODULE CString ------------------------------
(***************************************************************************)
(* ffi/src/cstring.rs: the buffer behind LAST_ERROR.  write! calls append  *)
(* once for each piece of its format string, and C reads the buffer up to  *)
(* the first zero byte.                                                    *)
(***************************************************************************)
EXTENDS Integers, Sequences

CONSTANTS
  Fragments,       \* the byte sequences that are appended
  MaxBytes,     \* bound on the bytes written since the last clear
  Substitute    \* SUBSTITUTE_BYTE, 26 in the code

Byte == 0..255

ASSUME CStringAssumption ==
  /\ Fragments \subseteq Seq(Byte) /\ MaxBytes \in Nat
  /\ Substitute \in Byte \ {0}

VARIABLES
  buffer,       \* the Vec<u8>
  written       \* history: the pieces appended since the last clear

cstringVars == <<buffer, written>>

CStringInit == buffer = <<>> /\ written = <<>>

\* Mutant of WithoutEnd: the terminator stays.
WithEnd(bytes) == bytes

\* pop, which does nothing to an empty buffer.
WithoutEnd(bytes) == IF bytes = <<>> THEN <<>> ELSE SubSeq(bytes, 1, Len(bytes) - 1)

Printable(bytes) == [i \in DOMAIN bytes |-> IF bytes[i] = 0 THEN Substitute ELSE bytes[i]]

\* CString::append.
AppendPiece(piece) ==
  /\ Len(written) + Len(piece) <= MaxBytes
  /\ buffer' = WithoutEnd(buffer) \o Printable(piece) \o <<0>>
  /\ written' = written \o piece

\* CString::clear.
ClearBuffer == buffer' = <<>> /\ written' = <<>>

CStringNext == (\E piece \in Fragments : AppendPiece(piece)) \/ ClearBuffer
CStringSpec == CStringInit /\ [][CStringNext]_cstringVars

\* The string that C reads is all that was written, with no zero byte of it lost
\* or taken for the end, in however many pieces; and the pointer is NULL exactly
\* when nothing was written, not when the message is empty (cstring.rs append,
\* as_c_str).
CReadsAllWritten ==
  LET end == Len(buffer) IN
  IF buffer = <<>> THEN written = <<>>
  ELSE /\ buffer[end] = 0 /\ \A i \in 1..end - 1 : buffer[i] # 0
       /\ Len(written) = end - 1
       /\ \A i \in DOMAIN written :
            buffer[i] = IF written[i] = 0 THEN Substitute ELSE written[i]
=============================================================================
