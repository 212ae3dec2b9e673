------------------------------ MODULE Encoding ------------------------------
(***************************************************************************)
(* The byte-level primitives of the relay's `encoding` library, which the  *)
(* update codec in backend.cpp calls (the library itself is not under      *)
(* src/; it is modelled from the spec: "All multi-byte integers are        *)
(* little-endian. Lengths are explicit").  A buffer is a sequence of byte  *)
(* values; `index` is the number of bytes already consumed or written.     *)
(***************************************************************************)
EXTENDS Naturals, Sequences

Byte == 0..255

\* n divided by 256^0, 256^1, ..., 256^8, one division at a time so that no
\* power of 256 beyond the model checker's integers is formed.
Shifts(n) ==
    LET q1 == n \div 256
        q2 == q1 \div 256
        q3 == q2 \div 256
        q4 == q3 \div 256
        q5 == q4 \div 256
        q6 == q5 \div 256
        q7 == q6 \div 256
        q8 == q7 \div 256
    IN  <<n, q1, q2, q3, q4, q5, q6, q7, q8>>

\* write_uint8/16/32/64 and write_double: the w bytes of n (w <= 8), least
\* significant first.
LE(n, w) == [k \in 1..w |-> Shifts(n)[k] % 256]

\* n is below 256^w: a field of w bytes holds it.
Fits(n, w) == Shifts(n)[w + 1] = 0

\* The values of an unsigned field of w bytes.
Word(w) == {n \in Nat : Fits(n, w)}

\* read_uint8/16/32/64 and read_double: the number whose little-endian bytes
\* are s, for the at most eight bytes a read assembles.
FromLE(s) ==
    LET b(k) == IF k <= Len(s) THEN s[k] ELSE 0
    IN  b(1) + 256 * (b(2) + 256 * (b(3) + 256 * (b(4) + 256 *
          (b(5) + 256 * (b(6) + 256 * (b(7) + 256 * b(8)))))))

\* write_string: a 32-bit length, then the bytes of the string.
WriteString(s) == LE(Len(s), 4) \o s

\* Every read_* fails, and leaves its output alone, when fewer than w bytes
\* remain after index.
CanRead(buf, index, w) == index + w <= Len(buf)

\* The w bytes after index.
Bytes(buf, index, w) == SubSeq(buf, index + 1, index + w)

\* read_string: the length prefix and the string must both fit.
CanReadString(buf, index) ==
    /\ CanRead(buf, index, 4)
    /\ CanRead(buf, index + 4, FromLE(Bytes(buf, index, 4)))

StringAt(buf, index) == Bytes(buf, index + 4, FromLE(Bytes(buf, index, 4)))

\* A buffer of n zero bytes, as std::vector::resize leaves it.
Zeros(n) == [k \in 1..n |-> 0]

=============================================================================
