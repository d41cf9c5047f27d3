--------------------------- MODULE MC_FramedWriter ---------------------------
(* Model-checking instance of the framing writer.                         *)
EXTENDS FramedWriter

\* Body lengths around the byte boundaries of the length field and the
\* 24-bit maximum, for both field widths: 0, a one-byte and a two-byte
\* value, the largest body that fits before 1.0 (the field counts itself),
\* the largest that fits from 1.0 on, and one past it.
MCLengths == {0, 256, 65535, 16777211, 16777215, 16777216}
=============================================================================
