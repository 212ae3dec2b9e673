--------------------------- MODULE EncodingProofs ---------------------------
(***************************************************************************)
(* Facts about the encoding library's byte helpers, for every value: what  *)
(* write_uint* produces is a sequence of w bytes, and read_uint* of it     *)
(* gives back the value when the value fits the field.                     *)
(***************************************************************************)
EXTENDS Encoding, TLAPS

\* The bytes of any natural number, for any width up to eight.
LEMMA LEType ==
    ASSUME NEW n \in Nat, NEW w \in 0..8
    PROVE  /\ LE(n, w) \in Seq(Byte)
           /\ Len(LE(n, w)) = w
<1>1. \A k \in 1..w : Shifts(n)[k] \in Nat
    BY DEF Shifts
<1>2. \A k \in 1..w : Shifts(n)[k] % 256 \in Byte
    BY <1>1 DEF Byte
<1>3. QED
    BY <1>2 DEF LE

\* The same two facts, one lemma each, for citing.
LEMMA LESeq ==
    ASSUME NEW n \in Nat, NEW w \in 0..8
    PROVE  LE(n, w) \in Seq(Byte)
BY LEType

LEMMA LELen ==
    ASSUME NEW n \in Nat, NEW w \in 0..8
    PROVE  Len(LE(n, w)) = w
BY LEType

\* Both, for the three widths the codecs use.
LEMMA LEIn ==
    ASSUME NEW n \in Nat, NEW w \in {1, 4, 8}
    PROVE  LE(n, w) \in Seq(Byte) /\ Len(LE(n, w)) = w
<1>1. w \in 0..8
    OBVIOUS
<1>2. QED
    BY <1>1, LESeq, LELen

\* Byte k of the encoding is digit k of n in base 256.
LEMMA LEByte ==
    ASSUME NEW n \in Nat, NEW w \in 0..8, NEW k \in 1..w
    PROVE  /\ LE(n, w)[k] = Shifts(n)[k] % 256
           /\ LE(n, w)[k] \in Byte
           /\ LE(n, w)[k] \in Nat
<1>1. Shifts(n)[k] \in Nat
    BY DEF Shifts
<1>2. QED
    BY <1>1 DEF LE, Byte

\* The first of those facts alone, for citing.
LEMMA LEByteVal ==
    ASSUME NEW n \in Nat, NEW w \in 0..8, NEW k \in 1..w
    PROVE  LE(n, w)[k] = Shifts(n)[k] % 256
BY LEByte

\* read_uint32 of four bytes and read_uint64 of eight, as sums.
LEMMA FromLE4 ==
    ASSUME NEW s, Len(s) = 4, \A k \in 1..4 : s[k] \in Nat
    PROVE  FromLE(s) = s[1] + 256 * (s[2] + 256 * (s[3] + 256 * s[4]))
<1>1. /\ \A k \in 5..8 : (IF k <= Len(s) THEN s[k] ELSE 0) = 0
      /\ \A k \in 1..4 : (IF k <= Len(s) THEN s[k] ELSE 0) = s[k]
    OBVIOUS
<1>2. QED
    BY <1>1 DEF FromLE

LEMMA FromLE8 ==
    ASSUME NEW s, Len(s) = 8, \A k \in 1..8 : s[k] \in Nat
    PROVE  FromLE(s) = s[1] + 256 * (s[2] + 256 * (s[3] + 256 * (s[4] + 256 *
                         (s[5] + 256 * (s[6] + 256 * (s[7] + 256 * s[8]))))))
<1>1. \A k \in 1..8 : (IF k <= Len(s) THEN s[k] ELSE 0) = s[k]
    OBVIOUS
<1>2. QED
    BY <1>1 DEF FromLE

\* A number is its lowest base-256 digit plus 256 times the rest.
LEMMA DigitSplit ==
    ASSUME NEW a \in Nat
    PROVE  a = (a % 256) + 256 * (a \div 256)
OBVIOUS

\* The digits of n in base 256: d[1] is n and each next entry is the
\* previous one divided by 256.
Digits(d, n) ==
    /\ d \in [1..9 -> Nat]
    /\ d[1] = n
    /\ \A k \in 1..8 : d[k + 1] = d[k] \div 256

\* Shifts(n) lists the digits of n.
LEMMA ShiftsDigits ==
    ASSUME NEW n \in Nat
    PROVE  Digits(Shifts(n), n)
BY DEF Shifts, Digits

\* Summing four digits back, when the rest is zero, gives the number.
LEMMA Horner4 ==
    ASSUME NEW n \in Nat, NEW d, Digits(d, n), d[5] = 0
    PROVE  n = (d[1] % 256) + 256 * ((d[2] % 256) + 256 * ((d[3] % 256) + 256 * (d[4] % 256)))
<1>0. \A k \in 1..9 : d[k] \in Nat
    BY DEF Digits
<1>1. ASSUME NEW k \in 1..8 PROVE d[k] = (d[k] % 256) + 256 * d[k + 1]
    <2>1. d[k] \in Nat /\ d[k + 1] = d[k] \div 256
        BY DEF Digits
    <2>2. QED
        BY <2>1, DigitSplit
<1>1a. d[4] = (d[4] % 256) + 256 * d[5]
    BY <1>0, <1>1
<1>2. (d[4] % 256) = d[4]
    BY <1>0, <1>1a
<1>3. (d[3] % 256) + 256 * d[4] = d[3]
    BY <1>0, <1>1
<1>4. (d[2] % 256) + 256 * d[3] = d[2]
    BY <1>0, <1>1
<1>5. (d[1] % 256) + 256 * d[2] = d[1]
    BY <1>0, <1>1
<1>6. d[1] = n
    BY DEF Digits
<1>7. QED
    BY <1>0, <1>2, <1>3, <1>4, <1>5, <1>6

\* The same for eight digits.
LEMMA Horner8 ==
    ASSUME NEW n \in Nat, NEW d, Digits(d, n), d[9] = 0
    PROVE  n = (d[1] % 256) + 256 * ((d[2] % 256) + 256 * ((d[3] % 256) + 256 * ((d[4] % 256)
                 + 256 * ((d[5] % 256) + 256 * ((d[6] % 256) + 256 * ((d[7] % 256)
                 + 256 * (d[8] % 256)))))))
<1>0. \A k \in 1..9 : d[k] \in Nat
    BY DEF Digits
<1>1. ASSUME NEW k \in 1..8 PROVE d[k] = (d[k] % 256) + 256 * d[k + 1]
    <2>1. d[k] \in Nat /\ d[k + 1] = d[k] \div 256
        BY DEF Digits
    <2>2. QED
        BY <2>1, DigitSplit
<1>1a. d[8] = (d[8] % 256) + 256 * d[9]
    BY <1>0, <1>1
<1>2. (d[8] % 256) = d[8]
    BY <1>0, <1>1a
<1>3. (d[7] % 256) + 256 * d[8] = d[7]
    BY <1>0, <1>1
<1>4. (d[6] % 256) + 256 * d[7] = d[6]
    BY <1>0, <1>1
<1>5. (d[5] % 256) + 256 * d[6] = d[5]
    BY <1>0, <1>1
<1>6. (d[4] % 256) + 256 * d[5] = d[4]
    BY <1>0, <1>1
<1>7. (d[3] % 256) + 256 * d[4] = d[3]
    BY <1>0, <1>1
<1>8. (d[2] % 256) + 256 * d[3] = d[2]
    BY <1>0, <1>1
<1>9. (d[1] % 256) + 256 * d[2] = d[1]
    BY <1>0, <1>1
<1>10. d[1] = n
    BY DEF Digits
<1>11. QED
    BY <1>0, <1>2, <1>3, <1>4, <1>5, <1>6, <1>7, <1>8, <1>9, <1>10

\* Division by 256 is monotonic.
LEMMA DivMono ==
    ASSUME NEW a \in Nat, NEW b \in Nat, a <= b
    PROVE  a \div 256 <= b \div 256
OBVIOUS

\* A number no larger than one that fits a field of w bytes fits it too.
LEMMA FitsMono ==
    ASSUME NEW a \in Nat, NEW b \in Nat, a <= b, NEW w \in 1..8, Fits(b, w)
    PROVE  Fits(a, w)
<1> DEFINE d == Shifts(a)
           e == Shifts(b)
<1>1. Digits(d, a) /\ Digits(e, b)
    BY ShiftsDigits
<1>2. \A k \in 1..9 : d[k] \in Nat /\ e[k] \in Nat
    BY <1>1 DEF Digits
<1>3. ASSUME NEW k \in 1..8 PROVE d[k] <= e[k] => d[k + 1] <= e[k + 1]
    <2> HAVE d[k] <= e[k]
    <2>1. d[k + 1] = d[k] \div 256 /\ e[k + 1] = e[k] \div 256
        BY <1>1 DEF Digits
    <2>2. QED
        BY <1>2, <2>1, DivMono
<1>4. d[1] <= e[1]
    BY <1>1 DEF Digits
<1>5. d[2] <= e[2]
    BY <1>3, <1>4
<1>6. d[3] <= e[3]
    BY <1>3, <1>5
<1>7. d[4] <= e[4]
    BY <1>3, <1>6
<1>8. d[5] <= e[5]
    BY <1>3, <1>7
<1>9. d[6] <= e[6]
    BY <1>3, <1>8
<1>10. d[7] <= e[7]
    BY <1>3, <1>9
<1>11. d[8] <= e[8]
    BY <1>3, <1>10
<1>12. d[9] <= e[9]
    BY <1>3, <1>11
<1>13. e[w + 1] = 0
    BY DEF Fits
<1>14. d[w + 1] <= e[w + 1]
    BY <1>5, <1>6, <1>7, <1>8, <1>9, <1>10, <1>11, <1>12
<1>15. QED
    BY <1>2, <1>13, <1>14 DEF Fits

\* Reading back the bytes of a value that fits its field gives the value
\* (read_uint32(write_uint32(n)) = n, and likewise for 1 and 8 bytes).
THEOREM FromLEOfLE ==
    ASSUME NEW n \in Nat, NEW w \in {1, 4, 8}, Fits(n, w)
    PROVE  FromLE(LE(n, w)) = n
<1> DEFINE d == Shifts(n)
           s == LE(n, w)
<1>1. Digits(d, n)
    BY ShiftsDigits
<1>2. d[w + 1] = 0
    BY DEF Fits
<1>3. /\ w \in 0..8
      /\ Len(s) = w
      /\ \A k \in 1..w : s[k] = (d[k] % 256) /\ s[k] \in Nat
    <2>1. w \in 0..8
        OBVIOUS
    <2>2. Len(s) = w
        BY <2>1, LEType
    <2>3. ASSUME NEW k \in 1..w PROVE s[k] = (d[k] % 256)
        BY <2>1, LEByteVal
    <2>4. ASSUME NEW k \in 1..w PROVE s[k] \in Nat
        BY <2>1, LEByte
    <2>5. QED
        BY <2>1, <2>2, <2>3, <2>4
<1>4. CASE w = 1
    <2>1. FromLE(s) = s[1]
        BY <1>3, <1>4 DEF FromLE
    <2>2. (d[1] % 256) + 256 * d[2] = n
        BY <1>1, DigitSplit DEF Digits
    <2>3. QED
        BY <1>2, <1>3, <1>4, <2>1, <2>2
<1>5. CASE w = 4
    <2>1. FromLE(s) = s[1] + 256 * (s[2] + 256 * (s[3] + 256 * s[4]))
        BY <1>3, <1>5, FromLE4
    <2>2. QED
        BY <1>1, <1>2, <1>3, <1>5, <2>1, Horner4
<1>6. CASE w = 8
    <2>1. FromLE(s) = s[1] + 256 * (s[2] + 256 * (s[3] + 256 * (s[4] + 256 *
                        (s[5] + 256 * (s[6] + 256 * (s[7] + 256 * s[8]))))))
        BY <1>3, <1>6, FromLE8
    <2>2. QED
        BY <1>1, <1>2, <1>3, <1>6, <2>1, Horner8
<1>7. QED
    BY <1>4, <1>5, <1>6

=============================================================================
