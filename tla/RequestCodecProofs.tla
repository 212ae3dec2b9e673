------------------------- MODULE RequestCodecProofs -------------------------
(***************************************************************************)
(* Proofs, for every instance of the constants, that the request the relay *)
(* writes in Backend::update() is read back by UpdateRequest::from field   *)
(* for field, and that from() rejects a request cut short of the written   *)
(* bytes.  The argument follows the parse: at each phase, index is the     *)
(* offset of the next field in the written bytes and out holds every field *)
(* read so far.                                                            *)
(***************************************************************************)
EXTENDS RequestCodec, EncodingProofs, SequenceTheorems, TLAPS

\* The bytes update() writes for this report, and the number of ping stats.
W == Written(src)
NR == Len(src.stats)
Address == src.address
Token == src.token

\* Where each field starts in W: the version at 0, the address's length at
\* 4 and its bytes at 8, then the key, the relay count, the ping stats of
\* 20 bytes each, the u64 totals, the shutdown flag, cpu and memory.
OffKey == 8 + Len(Address)
OffCount == OffKey + KEY_SIZE
OffStat(j) == OffCount + 4 + 20 * j
OffTotal(j) == OffStat(NR) + 8 * j
OffShut == OffTotal(NUM_TOTALS)
OffCpu == OffShut + 1
OffMem == OffCpu + 8

\* Where the ping stats and the totals start.
OffStats == OffCount + 4
OffTotals == OffStats + 20 * NR

\* The fields of out that from() has filled when it reaches each phase.
HasVersion == out.version = UPDATE_REQUEST_VERSION
HasAddress == HasVersion /\ out.address = Address
HasKey == HasAddress /\ out.key = Token
HasCount == HasKey /\ out.num_relays = NR
HasStats(j) == HasCount /\ \A k \in 1..j : out.stats[k] = src.stats[k]
HasTotals(j) == HasStats(NR) /\ \A k \in 1..j : out.totals[k] = src.totals[k]
HasShutdown == HasTotals(NUM_TOTALS) /\ out.shutting_down = src.shutdown
HasCpu == HasShutdown /\ out.cpu = src.cpu
HasMem == HasCpu /\ out.mem = src.mem

-----------------------------------------------------------------------------
(***************************************************************************)
(* Where a field lies in a byte string, and how the layout of a           *)
(* concatenation gives the layout of its parts.                           *)
(***************************************************************************)

\* f occupies the bytes off+1 .. off+Len(f) of s.
FieldAt(s, off, f) ==
    /\ off + Len(f) <= Len(s)
    /\ \A m \in 1..Len(f) : s[off + m] = f[m]

\* A concatenation of sequences is a sequence, and its length is the sum
\* of theirs; one fact per lemma, so that each is cited by instantiation.
LEMMA ConcatSeq ==
    ASSUME NEW S, NEW a \in Seq(S), NEW b \in Seq(S)
    PROVE  a \o b \in Seq(S)
BY ConcatProperties

LEMMA ConcatLen ==
    ASSUME NEW S, NEW a \in Seq(S), NEW b \in Seq(S)
    PROVE  Len(a \o b) = Len(a) + Len(b)
BY ConcatProperties

\* The first part of a concatenation is its prefix.
LEMMA ConcatAt ==
    ASSUME NEW S, NEW a \in Seq(S), NEW b \in Seq(S), NEW p \in 1..Len(a)
    PROVE  (a \o b)[p] = a[p]
BY ConcatProperties

\* A sequence lies at offset 0 of itself.
LEMMA FieldWhole ==
    ASSUME NEW S, NEW s \in Seq(S)
    PROVE  FieldAt(s, 0, s)
BY DEF FieldAt

\* The first part of a field that is a concatenation lies where the field
\* starts ...
LEMMA FieldSplitL ==
    ASSUME NEW S, NEW s, NEW off \in Nat, NEW a \in Seq(S), NEW b \in Seq(S),
           FieldAt(s, off, a \o b)
    PROVE  FieldAt(s, off, a)
<1>1. /\ Len(a \o b) = Len(a) + Len(b)
      /\ \A m \in 1..Len(a) : (a \o b)[m] = a[m]
    BY ConcatProperties
<1>2. QED
    BY <1>1 DEF FieldAt

\* ... and the second part right after the first.
LEMMA FieldSplitR ==
    ASSUME NEW S, NEW s, NEW off \in Nat, NEW a \in Seq(S), NEW b \in Seq(S),
           FieldAt(s, off, a \o b), NEW o, o = off + Len(a)
    PROVE  FieldAt(s, o, b)
<1>1. /\ Len(a) \in Nat /\ Len(b) \in Nat
      /\ Len(a \o b) = Len(a) + Len(b)
      /\ \A m \in 1..Len(b) : (a \o b)[Len(a) + m] = b[m]
    BY ConcatProperties
<1>2. o + Len(b) <= Len(s)
    BY <1>1 DEF FieldAt
<1>3. ASSUME NEW m \in 1..Len(b) PROVE s[o + m] = b[m]
    <2>1. Len(a) + m \in 1..Len(a \o b)
        BY <1>1
    <2>2. s[off + (Len(a) + m)] = (a \o b)[Len(a) + m]
        BY <2>1 DEF FieldAt
    <2>3. QED
        BY <1>1, <2>2
<1>4. QED
    BY <1>2, <1>3 DEF FieldAt

\* Round k of a write loop writes the w bytes F[k]; their places in the
\* records, and the records as a byte string.
LEMMA RecordsBound ==
    ASSUME NEW n \in Nat, NEW w \in Nat \ {0}, NEW j \in 0..(n - 1)
    PROVE  w * j + w <= n * w
<1>1. w * (j + 1) <= w * n
    OBVIOUS
<1>2. QED
    BY <1>1

LEMMA RecordsDigit ==
    ASSUME NEW w \in Nat \ {0}, NEW j \in Nat, NEW m \in 1..w
    PROVE  (w * j + m - 1) \div w = j
OBVIOUS

LEMMA RecordsPlace ==
    ASSUME NEW w \in Nat \ {0}, NEW j \in Nat, NEW m \in 1..w
    PROVE  (w * j + m - 1) % w = m - 1
OBVIOUS

\* Each of rounds 1..n writes w elements of S.
Rounds(F, n, w, S) == \A k \in 1..n : F[k] \in Seq(S) /\ Len(F[k]) = w

LEMMA RecordsSeq ==
    ASSUME NEW S, NEW F, NEW n \in Nat, NEW w \in Nat \ {0},
           Rounds(F, n, w, S)
    PROVE  Records(F, n, w) \in Seq(S)
<1>1. ASSUME NEW p \in 1..n * w
      PROVE  /\ ((p - 1) \div w) + 1 \in 1..n
             /\ ((p - 1) % w) + 1 \in 1..w
    <2>1. (p - 1) \div w < n
        OBVIOUS
    <2>2. QED
        BY <2>1
<1>2. ASSUME NEW p \in 1..n * w
      PROVE  F[((p - 1) \div w) + 1][((p - 1) % w) + 1] \in S
    BY <1>1, ElementOfSeq DEF Rounds
<1>3. n * w \in Nat
    OBVIOUS
<1>4. QED
    BY <1>2, <1>3 DEF Records

LEMMA RecordsLen ==
    ASSUME NEW F, NEW n \in Nat, NEW w \in Nat \ {0}
    PROVE  Len(Records(F, n, w)) = n * w
<1>1. n * w \in Nat
    OBVIOUS
<1>2. QED
    BY <1>1 DEF Records

\* The records of rounds 1..n lying at off put round j + 1 at off + w * j.
LEMMA RecordsField ==
    ASSUME NEW S, NEW s \in Seq(S), NEW off \in Nat, NEW F, NEW n \in Nat,
           NEW w \in Nat \ {0},
           Rounds(F, n, w, S),
           FieldAt(s, off, Records(F, n, w)),
           NEW j \in 0..(n - 1)
    PROVE  FieldAt(s, off + w * j, F[j + 1])
<1> DEFINE R == Records(F, n, w)
<1>1. Len(R) = n * w
    BY RecordsLen
<1>2. off + Len(R) <= Len(s)
    BY DEF FieldAt
<1>3. \A p \in 1..Len(R) : s[off + p] = R[p]
    BY DEF FieldAt
<1>4. Len(F[j + 1]) = w
    BY DEF Rounds
<1>5. j \in Nat /\ w * j \in Nat
    OBVIOUS
<1>6. w * j + w <= n * w
    BY RecordsBound
<1>7. off + w * j + w <= Len(s)
    BY <1>1, <1>2, <1>5, <1>6
<1>8. ASSUME NEW m \in 1..w PROVE s[off + w * j + m] = F[j + 1][m]
    <2>1. w * j + m \in 1..Len(R)
        BY <1>1, <1>5, <1>6
    <2>2. (w * j + m - 1) \div w = j
        BY <1>5, RecordsDigit
    <2>3. (w * j + m - 1) % w = m - 1
        BY <1>5, RecordsPlace
    <2>4. R[w * j + m] = F[j + 1][m]
        BY <2>1, <2>2, <2>3, <1>1 DEF Records
    <2>5. QED
        BY <1>3, <2>1, <2>4
<1>9. QED
    BY <1>4, <1>7, <1>8 DEF FieldAt

-----------------------------------------------------------------------------
(***************************************************************************)
(* The layout of the bytes update() writes.  Each write_uint8/32/64 call   *)
(* gets a name of its own (U1, U4, U8), so that the provers treat the      *)
(* bytes of a field as one term.                                           *)
(***************************************************************************)

\* write_uint8, write_uint32 and write_uint64 (write_double, write_float).
U1(n) == LE(n, 1)
U4(n) == LE(n, 4)
U8(n) == LE(n, 8)

LEMMA U1Seq ==
    ASSUME NEW n \in Nat PROVE U1(n) \in Seq(Byte)
<1>1. 1 \in 0..8
    OBVIOUS
<1>2. QED
    BY <1>1, LESeq, Zenon DEF U1

LEMMA U1Len ==
    ASSUME NEW n \in Nat PROVE Len(U1(n)) = 1
<1>1. 1 \in 0..8
    OBVIOUS
<1>2. QED
    BY <1>1, LELen, Zenon DEF U1

LEMMA U4Seq ==
    ASSUME NEW n \in Nat PROVE U4(n) \in Seq(Byte)
<1>1. 4 \in 0..8
    OBVIOUS
<1>2. QED
    BY <1>1, LESeq, Zenon DEF U4

LEMMA U4Len ==
    ASSUME NEW n \in Nat PROVE Len(U4(n)) = 4
<1>1. 4 \in 0..8
    OBVIOUS
<1>2. QED
    BY <1>1, LELen, Zenon DEF U4

LEMMA U8Seq ==
    ASSUME NEW n \in Nat PROVE U8(n) \in Seq(Byte)
<1>1. 8 \in 0..8
    OBVIOUS
<1>2. QED
    BY <1>1, LESeq, Zenon DEF U8

LEMMA U8Len ==
    ASSUME NEW n \in Nat PROVE Len(U8(n)) = 8
<1>1. 8 \in 0..8
    OBVIOUS
<1>2. QED
    BY <1>1, LELen, Zenon DEF U8

\* The bytes of one ping stat: 8 + 4 + 4 + 4 of them.
LEMMA StatBytesSeq ==
    ASSUME NEW st \in Stat
    PROVE  StatBytes(st) \in Seq(Byte)
<1>1. st.id \in Nat /\ st.rtt \in Nat /\ st.jitter \in Nat /\ st.loss \in Nat
    BY RequestAssumption, Zenon DEF Stat, Word
<1>2. StatBytes(st) = U8(st.id) \o U4(st.rtt) \o U4(st.jitter) \o U4(st.loss)
    BY DEF StatBytes, U8, U4
<1>3. U8(st.id) \in Seq(Byte) /\ U4(st.rtt) \in Seq(Byte)
      /\ U4(st.jitter) \in Seq(Byte) /\ U4(st.loss) \in Seq(Byte)
    BY <1>1, U8Seq, U4Seq, Zenon
<1>4. U8(st.id) \o U4(st.rtt) \in Seq(Byte)
    BY <1>3, ConcatSeq, Zenon
<1>5. U8(st.id) \o U4(st.rtt) \o U4(st.jitter) \in Seq(Byte)
    BY <1>3, <1>4, ConcatSeq, Zenon
<1>6. QED
    BY <1>2, <1>3, <1>5, ConcatSeq, Zenon

LEMMA StatBytesLen ==
    ASSUME NEW st \in Stat
    PROVE  Len(StatBytes(st)) = 20
<1>1. st.id \in Nat /\ st.rtt \in Nat /\ st.jitter \in Nat /\ st.loss \in Nat
    BY RequestAssumption, Zenon DEF Stat, Word
<1>2. StatBytes(st) = U8(st.id) \o U4(st.rtt) \o U4(st.jitter) \o U4(st.loss)
    BY DEF StatBytes, U8, U4
<1>3. U8(st.id) \in Seq(Byte) /\ U4(st.rtt) \in Seq(Byte)
      /\ U4(st.jitter) \in Seq(Byte) /\ U4(st.loss) \in Seq(Byte)
    BY <1>1, U8Seq, U4Seq, Zenon
<1>4. Len(U8(st.id)) = 8 /\ Len(U4(st.rtt)) = 4
      /\ Len(U4(st.jitter)) = 4 /\ Len(U4(st.loss)) = 4
    BY <1>1, U8Len, U4Len, Zenon
<1>5. U8(st.id) \o U4(st.rtt) \in Seq(Byte)
    BY <1>3, ConcatSeq, Zenon
<1>6. U8(st.id) \o U4(st.rtt) \o U4(st.jitter) \in Seq(Byte)
    BY <1>3, <1>5, ConcatSeq, Zenon
<1>7. Len(U8(st.id) \o U4(st.rtt)) = Len(U8(st.id)) + Len(U4(st.rtt))
    BY <1>3, ConcatLen, Zenon
<1>8. Len(U8(st.id) \o U4(st.rtt) \o U4(st.jitter))
        = Len(U8(st.id) \o U4(st.rtt)) + Len(U4(st.jitter))
    BY <1>3, <1>5, ConcatLen, Zenon
<1>9. Len(U8(st.id) \o U4(st.rtt) \o U4(st.jitter) \o U4(st.loss))
        = Len(U8(st.id) \o U4(st.rtt) \o U4(st.jitter)) + Len(U4(st.loss))
    BY <1>3, <1>6, ConcatLen, Zenon
<1>10. QED
    BY <1>2, <1>3, <1>4, <1>5, <1>6, <1>7, <1>8, <1>9

\* The rounds of the ping-stat loop and of the totals writes, the records
\* they write, and the byte the shutdown flag is written as.
StatRounds == [k \in 1..NR |-> StatBytes(src.stats[k])]
TotalRounds == [k \in 1..NUM_TOTALS |-> U8(src.totals[k])]
StatRecs == Records(StatRounds, NR, 20)
TotalRecs == Records(TotalRounds, NUM_TOTALS, 8)
ShutByte == IF src.shutdown THEN 1 ELSE 0

\* The bytes written up to and including each field.
ThroughVersion == U4(UPDATE_REQUEST_VERSION)
ThroughAddress == ThroughVersion \o WriteString(Address)
ThroughKey == ThroughAddress \o Token
ThroughCount == ThroughKey \o U4(NR)
ThroughStats == ThroughCount \o StatRecs
ThroughTotals == ThroughStats \o TotalRecs
ThroughShutdown == ThroughTotals \o U1(ShutByte)
ThroughCpu == ThroughShutdown \o U8(src.cpu)

\* update()'s writes, one after the other.
LEMMA WrittenSplit ==
    /\ W = ThroughCpu \o U8(src.mem)
    /\ WriteString(Address) = U4(Len(Address)) \o Address
BY DEF W, Written, ThroughCpu, ThroughShutdown, ThroughTotals, ThroughStats,
       ThroughCount, ThroughKey, ThroughAddress, ThroughVersion, StatRecs,
       TotalRecs, StatRounds, TotalRounds, ShutByte, NR, Address, Token, U1, U4, U8, WriteString

\* The fields of a report have the types update() writes them with.
LEMMA ReportFields ==
    ASSUME src \in Reports
    PROVE  /\ Address \in Seq(Byte)
           /\ Len(Address) \in Nat
           /\ Fits(Len(Address), 4)
           /\ Token \in Seq(Byte)
           /\ Len(Token) = KEY_SIZE
           /\ NR \in 0..MAX_RELAYS
           /\ src.stats \in [1..NR -> Stat]
           /\ src.totals \in [1..NUM_TOTALS -> Vals]
           /\ src.shutdown \in BOOLEAN
           /\ src.cpu \in Word(8)
           /\ src.mem \in Word(8)
<1>1. PICK n \in 0..MAX_RELAYS : src.stats \in [1..n -> Stat]
    BY DEF Reports
<1>2. NR = n
    BY <1>1, RequestAssumption DEF NR
<1>3. Token \in [1..KEY_SIZE -> Byte]
    BY RequestAssumption DEF Reports, Token
<1>4. QED
    BY <1>1, <1>2, <1>3, RequestAssumption DEF Reports, NR, Address, Token

\* Every value of a report written as a number is a natural number.
LEMMA ReportNats ==
    ASSUME src \in Reports
    PROVE  /\ UPDATE_REQUEST_VERSION \in Nat
           /\ KEY_SIZE \in Nat
           /\ NUM_TOTALS \in Nat
           /\ NR \in Nat
           /\ Len(Address) \in Nat
           /\ \A k \in 1..NUM_TOTALS : src.totals[k] \in Nat
           /\ ShutByte \in Nat
           /\ src.cpu \in Nat
           /\ src.mem \in Nat
<1>1. /\ src.totals \in [1..NUM_TOTALS -> Vals]
      /\ src.cpu \in Word(8) /\ src.mem \in Word(8)
      /\ NR \in 0..MAX_RELAYS /\ Len(Address) \in Nat
    BY ReportFields
<1>2. Vals \subseteq Nat /\ UPDATE_REQUEST_VERSION \in Nat
      /\ KEY_SIZE \in Nat /\ NUM_TOTALS \in Nat
    BY RequestAssumption DEF Word
<1>3. \A k \in 1..NUM_TOTALS : src.totals[k] \in Nat
    BY <1>1, <1>2, Zenon
<1>4. src.cpu \in Nat /\ src.mem \in Nat
    BY <1>1 DEF Word
<1>5. ShutByte \in Nat
    BY DEF ShutByte
<1>6. QED
    BY <1>1, <1>2, <1>3, <1>4, <1>5

\* Every round of the two write loops writes a record of its width ...
LEMMA RoundsType ==
    ASSUME src \in Reports
    PROVE  Rounds(StatRounds, NR, 20, Byte) /\ Rounds(TotalRounds, NUM_TOTALS, 8, Byte)
<1>1. /\ NR \in Nat /\ NUM_TOTALS \in Nat
      /\ \A k \in 1..NUM_TOTALS : src.totals[k] \in Nat
    BY ReportNats
<1>2. src.stats \in [1..NR -> Stat]
    BY ReportFields
<1>3. Rounds(StatRounds, NR, 20, Byte)
    <2>1. ASSUME NEW k \in 1..NR
          PROVE  StatRounds[k] \in Seq(Byte) /\ Len(StatRounds[k]) = 20
        <3>1. src.stats[k] \in Stat
            BY <1>2
        <3>2. StatRounds[k] = StatBytes(src.stats[k])
            BY DEF StatRounds
        <3>3. QED
            BY <3>1, <3>2, StatBytesSeq, StatBytesLen, Zenon
    <2>2. QED
        BY <2>1 DEF Rounds
<1>4. Rounds(TotalRounds, NUM_TOTALS, 8, Byte)
    <2>1. ASSUME NEW k \in 1..NUM_TOTALS
          PROVE  TotalRounds[k] \in Seq(Byte) /\ Len(TotalRounds[k]) = 8
        <3>1. src.totals[k] \in Nat
            BY <1>1
        <3>2. TotalRounds[k] = U8(src.totals[k])
            BY DEF TotalRounds
        <3>3. QED
            BY <3>1, <3>2, U8Seq, U8Len
    <2>2. QED
        BY <2>1 DEF Rounds
<1>5. QED
    BY <1>3, <1>4

\* ... and the loops write byte strings of n records of w bytes.
LEMMA RecsType ==
    ASSUME src \in Reports
    PROVE  /\ StatRecs \in Seq(Byte) /\ Len(StatRecs) = NR * 20
           /\ TotalRecs \in Seq(Byte) /\ Len(TotalRecs) = NUM_TOTALS * 8
<1>1. NR \in Nat /\ NUM_TOTALS \in Nat
    BY ReportNats
<1>2. Rounds(StatRounds, NR, 20, Byte)
    BY RoundsType
<1>3. Rounds(TotalRounds, NUM_TOTALS, 8, Byte)
    BY RoundsType
<1>4. 20 \in Nat \ {0} /\ 8 \in Nat \ {0}
    OBVIOUS
<1>5. StatRecs \in Seq(Byte) /\ Len(StatRecs) = NR * 20
    <2>1. Records(StatRounds, NR, 20) \in Seq(Byte)
        BY <1>1, <1>2, <1>4, RecordsSeq, Zenon
    <2>2. Len(Records(StatRounds, NR, 20)) = NR * 20
        BY <1>1, <1>4, RecordsLen, Zenon
    <2>3. QED
        BY <2>1, <2>2, Zenon DEF StatRecs
<1>6. TotalRecs \in Seq(Byte) /\ Len(TotalRecs) = NUM_TOTALS * 8
    <2>1. Records(TotalRounds, NUM_TOTALS, 8) \in Seq(Byte)
        BY <1>1, <1>3, <1>4, RecordsSeq, Zenon
    <2>2. Len(Records(TotalRounds, NUM_TOTALS, 8)) = NUM_TOTALS * 8
        BY <1>1, <1>4, RecordsLen, Zenon
    <2>3. QED
        BY <2>1, <2>2, Zenon DEF StatRecs, TotalRecs
<1>7. QED
    BY <1>5, <1>6

\* Each prefix of the written bytes is a byte string that ends where the
\* next field starts.
LEMMA Prefixes ==
    ASSUME src \in Reports
    PROVE  /\ ThroughVersion \in Seq(Byte) /\ Len(ThroughVersion) = 4
           /\ ThroughAddress \in Seq(Byte) /\ Len(ThroughAddress) = OffKey
           /\ ThroughKey \in Seq(Byte) /\ Len(ThroughKey) = OffCount
           /\ ThroughCount \in Seq(Byte) /\ Len(ThroughCount) = OffStat(0)
           /\ ThroughStats \in Seq(Byte) /\ Len(ThroughStats) = OffTotal(0)
           /\ ThroughTotals \in Seq(Byte) /\ Len(ThroughTotals) = OffShut
           /\ ThroughShutdown \in Seq(Byte) /\ Len(ThroughShutdown) = OffCpu
           /\ ThroughCpu \in Seq(Byte) /\ Len(ThroughCpu) = OffMem
           /\ W \in Seq(Byte) /\ Len(W) = OffMem + 8
<1>1. /\ UPDATE_REQUEST_VERSION \in Nat /\ KEY_SIZE \in Nat /\ NUM_TOTALS \in Nat
      /\ NR \in Nat /\ Len(Address) \in Nat
      /\ \A k \in 1..NUM_TOTALS : src.totals[k] \in Nat
      /\ ShutByte \in Nat /\ src.cpu \in Nat /\ src.mem \in Nat
    BY ReportNats
<1>2. /\ Address \in Seq(Byte) /\ Token \in Seq(Byte)
      /\ Len(Token) = KEY_SIZE /\ src.stats \in [1..NR -> Stat]
    BY ReportFields
\* The fields.
<1>3. U4(UPDATE_REQUEST_VERSION) \in Seq(Byte) /\ Len(U4(UPDATE_REQUEST_VERSION)) = 4
    BY <1>1, U4Seq, U4Len, Zenon
<1>4. U4(Len(Address)) \in Seq(Byte) /\ Len(U4(Len(Address))) = 4
    BY <1>1, U4Seq, U4Len, Zenon
<1>5. U4(NR) \in Seq(Byte) /\ Len(U4(NR)) = 4
    BY <1>1, U4Seq, U4Len, Zenon
<1>6. U1(ShutByte) \in Seq(Byte) /\ Len(U1(ShutByte)) = 1
    BY <1>1, U1Seq, U1Len, Zenon
<1>7. /\ U8(src.cpu) \in Seq(Byte) /\ Len(U8(src.cpu)) = 8
      /\ U8(src.mem) \in Seq(Byte) /\ Len(U8(src.mem)) = 8
    BY <1>1, U8Seq, U8Len, Zenon
<1>11. StatRecs \in Seq(Byte) /\ Len(StatRecs) = NR * 20
    BY RecsType
<1>12. TotalRecs \in Seq(Byte) /\ Len(TotalRecs) = NUM_TOTALS * 8
    BY RecsType
\* The prefixes, one concatenation at a time.
<1>13. WriteString(Address) \in Seq(Byte)
       /\ Len(WriteString(Address)) = 4 + Len(Address)
    <2>1. WriteString(Address) = U4(Len(Address)) \o Address
        BY WrittenSplit
    <2>2. Len(U4(Len(Address)) \o Address) = Len(U4(Len(Address))) + Len(Address)
        BY <1>2, <1>4, ConcatLen, Zenon
    <2>3. U4(Len(Address)) \o Address \in Seq(Byte)
        BY <1>2, <1>4, ConcatSeq, Zenon
    <2>4. QED
        BY <1>4, <2>1, <2>2, <2>3
<1>14. ThroughVersion \in Seq(Byte) /\ Len(ThroughVersion) = 4
    BY <1>3 DEF ThroughVersion
<1>15. ThroughAddress \in Seq(Byte) /\ Len(ThroughAddress) = OffKey
    <2>1. ThroughAddress \in Seq(Byte)
        BY <1>13, <1>14, ConcatSeq, Zenon DEF ThroughAddress
    <2>2. Len(ThroughAddress) = Len(ThroughVersion) + Len(WriteString(Address))
        BY <1>13, <1>14, ConcatLen, Zenon DEF ThroughAddress
    <2>3. QED
        BY <1>1, <1>13, <1>14, <2>1, <2>2 DEF OffKey
<1>16. ThroughKey \in Seq(Byte) /\ Len(ThroughKey) = OffCount
    <2>1. ThroughKey \in Seq(Byte)
        BY <1>2, <1>15, ConcatSeq, Zenon DEF ThroughKey
    <2>2. Len(ThroughKey) = Len(ThroughAddress) + Len(Token)
        BY <1>2, <1>15, ConcatLen, Zenon DEF ThroughKey
    <2>3. QED
        BY <1>1, <1>2, <1>15, <2>1, <2>2 DEF OffCount
<1>17. ThroughCount \in Seq(Byte) /\ Len(ThroughCount) = OffStat(0)
    <2>1. ThroughCount \in Seq(Byte)
        BY <1>5, <1>16, ConcatSeq, Zenon DEF ThroughCount
    <2>2. Len(ThroughCount) = Len(ThroughKey) + Len(U4(NR))
        BY <1>5, <1>16, ConcatLen, Zenon DEF ThroughCount
    <2>3. QED
        BY <1>1, <1>5, <1>16, <2>1, <2>2 DEF OffStat, OffCount
<1>18. ThroughStats \in Seq(Byte) /\ Len(ThroughStats) = OffTotal(0)
    <2>1. ThroughStats \in Seq(Byte)
        BY <1>11, <1>17, ConcatSeq, Zenon DEF ThroughStats
    <2>2. Len(ThroughStats) = Len(ThroughCount) + Len(StatRecs)
        BY <1>11, <1>17, ConcatLen, Zenon DEF ThroughStats
    <2>3. QED
        BY <1>1, <1>11, <1>17, <2>1, <2>2 DEF OffTotal, OffStat, OffCount, OffKey
<1>19. ThroughTotals \in Seq(Byte) /\ Len(ThroughTotals) = OffShut
    <2>1. ThroughTotals \in Seq(Byte)
        BY <1>12, <1>18, ConcatSeq, Zenon DEF ThroughTotals
    <2>2. Len(ThroughTotals) = Len(ThroughStats) + Len(TotalRecs)
        BY <1>12, <1>18, ConcatLen, Zenon DEF ThroughTotals
    <2>3. QED
        BY <1>1, <1>12, <1>18, <2>1, <2>2 DEF OffShut, OffTotal, OffStat, OffCount, OffKey
<1>20. ThroughShutdown \in Seq(Byte) /\ Len(ThroughShutdown) = OffCpu
    <2>1. ThroughShutdown \in Seq(Byte)
        BY <1>6, <1>19, ConcatSeq, Zenon DEF ThroughShutdown
    <2>2. Len(ThroughShutdown) = Len(ThroughTotals) + Len(U1(ShutByte))
        BY <1>6, <1>19, ConcatLen, Zenon DEF ThroughShutdown
    <2>3. QED
        BY <1>1, <1>6, <1>19, <2>1, <2>2 DEF OffCpu, OffShut, OffTotal, OffStat, OffCount, OffKey
<1>21. ThroughCpu \in Seq(Byte) /\ Len(ThroughCpu) = OffMem
    <2>1. ThroughCpu \in Seq(Byte)
        BY <1>7, <1>20, ConcatSeq, Zenon DEF ThroughCpu
    <2>2. Len(ThroughCpu) = Len(ThroughShutdown) + Len(U8(src.cpu))
        BY <1>7, <1>20, ConcatLen, Zenon DEF ThroughCpu
    <2>3. QED
        BY <1>1, <1>7, <1>20, <2>1, <2>2 DEF OffMem, OffCpu, OffShut, OffTotal, OffStat, OffCount, OffKey
<1>22. W \in Seq(Byte) /\ Len(W) = OffMem + 8
    <2>1. W = ThroughCpu \o U8(src.mem)
        BY WrittenSplit
    <2>2. ThroughCpu \o U8(src.mem) \in Seq(Byte)
        BY <1>7, <1>21, ConcatSeq, Zenon
    <2>3. Len(ThroughCpu \o U8(src.mem)) = Len(ThroughCpu) + Len(U8(src.mem))
        BY <1>7, <1>21, ConcatLen, Zenon
    <2>4. QED
        BY <1>7, <1>21, <2>1, <2>2, <2>3
<1>23. QED
    BY <1>14, <1>15, <1>16, <1>17, <1>18, <1>19, <1>20, <1>21, <1>22

\* Peeling the last field off a prefix that lies at offset 0: the prefix
\* stays at 0 and the field lies at the prefix's length.
LEMMA PeelL ==
    ASSUME NEW S, NEW s, NEW a \in Seq(S), NEW b \in Seq(S),
           FieldAt(s, 0, a \o b)
    PROVE  FieldAt(s, 0, a)
<1>1. 0 \in Nat
    OBVIOUS
<1>2. QED
    BY <1>1, FieldSplitL, Zenon

LEMMA PeelR ==
    ASSUME NEW S, NEW s, NEW a \in Seq(S), NEW b \in Seq(S),
           FieldAt(s, 0, a \o b), NEW o, Len(a) = o
    PROVE  FieldAt(s, o, b)
<1>1. 0 \in Nat /\ o = 0 + Len(a)
    OBVIOUS
<1>2. QED
    BY <1>1, FieldSplitR, Zenon

\* Where update() has put each field.
Layout ==
    /\ W \in Seq(Byte)
    /\ Len(W) = OffMem + 8
    /\ FieldAt(W, 0, U4(UPDATE_REQUEST_VERSION))
    /\ FieldAt(W, 4, U4(Len(Address)))
    /\ FieldAt(W, 8, Address)
    /\ FieldAt(W, OffKey, Token)
    /\ FieldAt(W, OffCount, U4(NR))
    /\ FieldAt(W, OffStat(0), StatRecs)
    /\ FieldAt(W, OffTotal(0), TotalRecs)
    /\ FieldAt(W, OffShut, U1(ShutByte))
    /\ FieldAt(W, OffCpu, U8(src.cpu))
    /\ FieldAt(W, OffMem, U8(src.mem))

LEMMA WrittenLayout ==
    ASSUME src \in Reports
    PROVE  Layout
<1>1. /\ ThroughVersion \in Seq(Byte) /\ Len(ThroughVersion) = 4
      /\ ThroughAddress \in Seq(Byte) /\ Len(ThroughAddress) = OffKey
      /\ ThroughKey \in Seq(Byte) /\ Len(ThroughKey) = OffCount
      /\ ThroughCount \in Seq(Byte) /\ Len(ThroughCount) = OffStat(0)
      /\ ThroughStats \in Seq(Byte) /\ Len(ThroughStats) = OffTotal(0)
      /\ ThroughTotals \in Seq(Byte) /\ Len(ThroughTotals) = OffShut
      /\ ThroughShutdown \in Seq(Byte) /\ Len(ThroughShutdown) = OffCpu
      /\ ThroughCpu \in Seq(Byte) /\ Len(ThroughCpu) = OffMem
      /\ W \in Seq(Byte) /\ Len(W) = OffMem + 8
    BY Prefixes
<1>2. /\ UPDATE_REQUEST_VERSION \in Nat /\ NR \in Nat /\ ShutByte \in Nat
      /\ src.cpu \in Nat /\ src.mem \in Nat /\ Len(Address) \in Nat
    BY ReportNats
<1>3. /\ Address \in Seq(Byte) /\ Token \in Seq(Byte)
    BY ReportFields
<1>4. /\ U4(UPDATE_REQUEST_VERSION) \in Seq(Byte) /\ U4(Len(Address)) \in Seq(Byte)
      /\ U4(NR) \in Seq(Byte) /\ U1(ShutByte) \in Seq(Byte)
      /\ U8(src.cpu) \in Seq(Byte) /\ U8(src.mem) \in Seq(Byte)
    BY <1>2, U1Seq, U4Seq, U8Seq, Zenon
<1>5. Len(U4(Len(Address))) = 4
    BY <1>2, U4Len
<1>6. StatRecs \in Seq(Byte) /\ TotalRecs \in Seq(Byte)
    BY RecsType
<1>7. WriteString(Address) \in Seq(Byte)
    BY <1>3, <1>4, ConcatSeq, WrittenSplit, Zenon
\* Peel the fields off from the last one.
<1>8. FieldAt(W, 0, ThroughCpu \o U8(src.mem))
    BY <1>1, FieldWhole, WrittenSplit, Zenon
<1>9a. FieldAt(W, 0, ThroughCpu)
    BY <1>1, <1>4, <1>8, PeelL, Zenon
<1>9b. FieldAt(W, OffMem, U8(src.mem))
    BY <1>1, <1>4, <1>8, PeelR, Zenon
<1>10a. FieldAt(W, 0, ThroughShutdown)
    BY <1>1, <1>4, <1>9a, PeelL, Zenon DEF ThroughCpu
<1>10b. FieldAt(W, OffCpu, U8(src.cpu))
    BY <1>1, <1>4, <1>9a, PeelR, Zenon DEF ThroughCpu
<1>11a. FieldAt(W, 0, ThroughTotals)
    BY <1>1, <1>4, <1>10a, PeelL, Zenon DEF ThroughShutdown
<1>11b. FieldAt(W, OffShut, U1(ShutByte))
    BY <1>1, <1>4, <1>10a, PeelR, Zenon DEF ThroughShutdown
<1>12a. FieldAt(W, 0, ThroughStats)
    BY <1>1, <1>6, <1>11a, PeelL, Zenon DEF ThroughTotals
<1>12b. FieldAt(W, OffTotal(0), TotalRecs)
    BY <1>1, <1>6, <1>11a, PeelR, Zenon DEF ThroughTotals
<1>13a. FieldAt(W, 0, ThroughCount)
    BY <1>1, <1>6, <1>12a, PeelL, Zenon DEF ThroughStats
<1>13b. FieldAt(W, OffStat(0), StatRecs)
    BY <1>1, <1>6, <1>12a, PeelR, Zenon DEF ThroughStats
<1>14a. FieldAt(W, 0, ThroughKey)
    BY <1>1, <1>4, <1>13a, PeelL, Zenon DEF ThroughCount
<1>14b. FieldAt(W, OffCount, U4(NR))
    BY <1>1, <1>4, <1>13a, PeelR, Zenon DEF ThroughCount
<1>15a. FieldAt(W, 0, ThroughAddress)
    BY <1>1, <1>3, <1>14a, PeelL, Zenon DEF ThroughKey
<1>15b. FieldAt(W, OffKey, Token)
    BY <1>1, <1>3, <1>14a, PeelR, Zenon DEF ThroughKey
<1>16a. FieldAt(W, 0, ThroughVersion)
    BY <1>1, <1>7, <1>15a, PeelL, Zenon DEF ThroughAddress
<1>16b. FieldAt(W, 4, WriteString(Address))
    BY <1>1, <1>7, <1>15a, PeelR, Zenon DEF ThroughAddress
<1>17. FieldAt(W, 4, U4(Len(Address))) /\ FieldAt(W, 8, Address)
    <2>1. FieldAt(W, 4, U4(Len(Address)) \o Address)
        BY <1>16b, WrittenSplit, Zenon
    <2>2. 4 \in Nat /\ 8 = 4 + Len(U4(Len(Address)))
        BY <1>5
    <2>3. FieldAt(W, 4, U4(Len(Address)))
        BY <1>3, <1>4, <2>1, <2>2, FieldSplitL, Zenon
    <2>4. FieldAt(W, 8, Address)
        BY <1>3, <1>4, <2>1, <2>2, FieldSplitR, Zenon
    <2>5. QED
        BY <2>3, <2>4
<1>18. QED
    BY <1>1, <1>9b, <1>10b, <1>11b, <1>12b, <1>13b, <1>14b, <1>15b, <1>16a,
       <1>17 DEF Layout, ThroughVersion

\* The four values of a ping stat lie at 0, 8, 12 and 16 bytes into its
\* record.
LEMMA StatWindows ==
    ASSUME NEW s, NEW off \in Nat, NEW st \in Stat, FieldAt(s, off, StatBytes(st))
    PROVE  /\ FieldAt(s, off, U8(st.id))
           /\ FieldAt(s, off + 8, U4(st.rtt))
           /\ FieldAt(s, off + 12, U4(st.jitter))
           /\ FieldAt(s, off + 16, U4(st.loss))
<1> DEFINE A == U8(st.id)
           B == U4(st.rtt)
           C == U4(st.jitter)
           D == U4(st.loss)
<1>1. st.id \in Nat /\ st.rtt \in Nat /\ st.jitter \in Nat /\ st.loss \in Nat
    BY RequestAssumption, Zenon DEF Stat, Word
<1>2. A \in Seq(Byte) /\ B \in Seq(Byte) /\ C \in Seq(Byte) /\ D \in Seq(Byte)
    BY <1>1, U8Seq, U4Seq, Zenon
<1>3. Len(A) = 8 /\ Len(B) = 4 /\ Len(C) = 4
    BY <1>1, U8Len, U4Len, Zenon
<1>4. A \o B \in Seq(Byte) /\ A \o B \o C \in Seq(Byte)
    <2>1. A \o B \in Seq(Byte)
        BY <1>2, ConcatSeq, Zenon
    <2>2. QED
        BY <1>2, <2>1, ConcatSeq, Zenon
<1>5. Len(A \o B) = 12 /\ Len(A \o B \o C) = 16
    <2>1. Len(A \o B) = Len(A) + Len(B)
        BY <1>2, ConcatLen, Zenon
    <2>2. Len(A \o B \o C) = Len(A \o B) + Len(C)
        BY <1>2, <1>4, ConcatLen, Zenon
    <2>3. QED
        BY <1>3, <2>1, <2>2
<1>6. FieldAt(s, off, A \o B \o C \o D)
    BY DEF StatBytes, U8, U4
<1>7. FieldAt(s, off, A \o B \o C) /\ FieldAt(s, off + 16, D)
    <2>1. off + 16 = off + Len(A \o B \o C)
        BY <1>5
    <2>2. FieldAt(s, off, A \o B \o C)
        BY <1>2, <1>4, <1>6, FieldSplitL, Zenon
    <2>3. FieldAt(s, off + 16, D)
        BY <1>2, <1>4, <1>6, <2>1, FieldSplitR, Zenon
    <2>4. QED
        BY <2>2, <2>3
<1>8. FieldAt(s, off, A \o B) /\ FieldAt(s, off + 12, C)
    <2>1. off + 12 = off + Len(A \o B)
        BY <1>5
    <2>2. FieldAt(s, off, A \o B)
        BY <1>2, <1>4, <1>7, FieldSplitL, Zenon
    <2>3. FieldAt(s, off + 12, C)
        BY <1>2, <1>4, <1>7, <2>1, FieldSplitR, Zenon
    <2>4. QED
        BY <2>2, <2>3
<1>9. FieldAt(s, off, A) /\ FieldAt(s, off + 8, B)
    <2>1. off + 8 = off + Len(A)
        BY <1>3
    <2>2. FieldAt(s, off, A)
        BY <1>2, <1>8, FieldSplitL, Zenon
    <2>3. FieldAt(s, off + 8, B)
        BY <1>2, <1>8, <2>1, FieldSplitR, Zenon
    <2>4. QED
        BY <2>2, <2>3
<1>10. QED
    BY <1>7, <1>8, <1>9

\* Ping stat j + 1 and total j + 1 lie at their offsets.
LEMMA StatAt ==
    ASSUME src \in Reports, NEW j \in 0..(NR - 1)
    PROVE  FieldAt(W, OffStat(j), StatBytes(src.stats[j + 1]))
<1>1. NR \in Nat /\ OffCount \in Nat /\ OffStat(0) \in Nat
    BY ReportNats DEF OffStat, OffCount, OffKey
<1>2. W \in Seq(Byte)
    BY Prefixes
<1>3. Rounds(StatRounds, NR, 20, Byte)
    BY RoundsType
<1>4. FieldAt(W, OffStat(0), Records(StatRounds, NR, 20))
    BY WrittenLayout, Zenon DEF Layout, StatRecs
<1>5. 20 \in Nat \ {0}
    OBVIOUS
<1>6. FieldAt(W, OffStat(0) + 20 * j, StatRounds[j + 1])
    BY <1>1, <1>2, <1>3, <1>4, <1>5, RecordsField, Zenon
<1>7. OffStat(0) + 20 * j = OffStat(j)
    BY <1>1 DEF OffStat
<1>8. StatRounds[j + 1] = StatBytes(src.stats[j + 1])
    BY <1>1 DEF StatRounds
<1>9. QED
    BY <1>6, <1>7, <1>8, Zenon

LEMMA TotalAt ==
    ASSUME src \in Reports, NEW j \in 0..(NUM_TOTALS - 1)
    PROVE  FieldAt(W, OffTotal(j), U8(src.totals[j + 1]))
<1>0. KEY_SIZE \in Nat /\ NUM_TOTALS \in Nat /\ NR \in Nat /\ Len(Address) \in Nat
    BY ReportNats
<1>1. NUM_TOTALS \in Nat /\ OffStat(NR) \in Nat /\ OffTotal(0) \in Nat
    BY <1>0 DEF OffTotal, OffStat, OffCount, OffKey
<1>2. W \in Seq(Byte)
    BY Prefixes
<1>3. Rounds(TotalRounds, NUM_TOTALS, 8, Byte)
    BY RoundsType
<1>4. FieldAt(W, OffTotal(0), Records(TotalRounds, NUM_TOTALS, 8))
    BY WrittenLayout, Zenon DEF Layout, TotalRecs
<1>5. 8 \in Nat \ {0}
    OBVIOUS
<1>6. FieldAt(W, OffTotal(0) + 8 * j, TotalRounds[j + 1])
    BY <1>1, <1>2, <1>3, <1>4, <1>5, RecordsField, Zenon
<1>7. OffTotal(0) + 8 * j = OffTotal(j)
    BY <1>1 DEF OffTotal
<1>8. TotalRounds[j + 1] = U8(src.totals[j + 1])
    BY <1>1 DEF TotalRounds
<1>9. QED
    BY <1>6, <1>7, <1>8, Zenon

-----------------------------------------------------------------------------
(***************************************************************************)
(* What the parser is given: the first cut bytes of the request, which     *)
(* agree with the written bytes wherever both are defined.                 *)
(***************************************************************************)

\* The first n elements of a sequence.
LEMMA PrefixSeq ==
    ASSUME NEW S, NEW s \in Seq(S), NEW n \in 0..Len(s)
    PROVE  SubSeq(s, 1, n) \in Seq(S)
<1>1. \A p \in 1..n : s[p] \in S
    OBVIOUS
<1>2. QED
    BY <1>1, SubSeqProperties

LEMMA PrefixLen ==
    ASSUME NEW S, NEW s \in Seq(S), NEW n \in 0..Len(s)
    PROVE  Len(SubSeq(s, 1, n)) = n
<1>1. \A p \in 1..n : s[p] \in S
    OBVIOUS
<1>2. QED
    BY <1>1, SubSeqProperties

LEMMA PrefixAt ==
    ASSUME NEW S, NEW s \in Seq(S), NEW n \in 0..Len(s), NEW p \in 1..n
    PROVE  SubSeq(s, 1, n)[p] = s[p]
<1>1. \A q \in 1..n : s[q] \in S
    OBVIOUS
<1>2. QED
    BY <1>1, SubSeqProperties

\* request_size counts four bytes more than update() writes.
RS == RequestSize(src)

LEMMA SizeOfRequest ==
    ASSUME src \in Reports
    PROVE  RS = Len(W) + 4
<1>1. RS = 4 + 4 + Len(Address) + KEY_SIZE + 4 + NR * 20 + 8 * NUM_TOTALS + 1 + 8 + 8 + 4
    BY DEF RS, RequestSize, Address, NR
<1>2. Len(W) = OffMem + 8
    BY Prefixes
<1>3. KEY_SIZE \in Nat /\ NUM_TOTALS \in Nat /\ NR \in Nat /\ Len(Address) \in Nat
    BY ReportNats
<1>4. QED
    BY <1>1, <1>2, <1>3 DEF OffMem, OffCpu, OffShut, OffTotal, OffStat, OffCount, OffKey

\* The request buffer after the writes: W, then zeros up to request_size.
PadZeros == Zeros(RS)
Padded == W \o PadZeros
SentBytes == Sent(src)

LEMMA SentFacts ==
    ASSUME src \in Reports
    PROVE  /\ SentBytes \in Seq(Byte)
           /\ Len(SentBytes) = RS
           /\ \A p \in 1..Len(W) : SentBytes[p] = W[p]
<1>1. W \in Seq(Byte) /\ Len(W) \in Nat
    BY Prefixes
<1>2. RS = Len(W) + 4
    BY SizeOfRequest
<1>3. PadZeros \in Seq(Byte) /\ Len(PadZeros) = RS
    BY <1>1, <1>2 DEF PadZeros, Zeros, Byte
<1>4. /\ Padded \in Seq(Byte)
      /\ Len(Padded) = Len(W) + RS
      /\ \A p \in 1..Len(W) : Padded[p] = W[p]
    <2>1. Padded \in Seq(Byte)
        BY <1>1, <1>3, ConcatSeq, Zenon DEF Padded
    <2>2. Len(Padded) = Len(W) + RS
        BY <1>1, <1>3, ConcatLen, Zenon DEF Padded
    <2>3. ASSUME NEW p \in 1..Len(W) PROVE Padded[p] = W[p]
        BY <1>1, <1>3, ConcatAt, Zenon DEF Padded
    <2>4. QED
        BY <2>1, <2>2, <2>3
<1>5. SentBytes = SubSeq(Padded, 1, RS)
    BY DEF SentBytes, Sent, Padded, PadZeros, RS, W
<1>6. RS \in 0..Len(Padded)
    BY <1>1, <1>2, <1>4
<1>7. SentBytes \in Seq(Byte)
    BY <1>4, <1>5, <1>6, PrefixSeq
<1>8. Len(SentBytes) = RS
    BY <1>4, <1>5, <1>6, PrefixLen
<1>9. ASSUME NEW p \in 1..Len(W) PROVE SentBytes[p] = W[p]
    <2>1. p \in 1..RS
        BY <1>1, <1>2
    <2>2. QED
        BY <1>4, <1>5, <1>6, <2>1, PrefixAt
<1>10. QED
    BY <1>7, <1>8, <1>9

\* The bytes from() is given.
LEMMA BufFacts ==
    ASSUME src \in Reports, cut \in 0..RS
    PROVE  /\ buf \in Seq(Byte)
           /\ Len(buf) = cut
           /\ \A p \in 1..cut : p <= Len(W) => buf[p] = W[p]
<1>1. SentBytes \in Seq(Byte) /\ Len(SentBytes) = RS
      /\ \A p \in 1..Len(W) : SentBytes[p] = W[p]
    BY SentFacts
<1>0. W \in Seq(Byte)
    BY Prefixes
<1>2. buf = SubSeq(SentBytes, 1, cut)
    BY DEF buf, SentBytes
<1>3. cut \in 0..Len(SentBytes)
    BY <1>1
<1>4. buf \in Seq(Byte)
    BY <1>1, <1>2, <1>3, PrefixSeq
<1>5. Len(buf) = cut
    BY <1>1, <1>2, <1>3, PrefixLen
<1>6. ASSUME NEW p \in 1..cut PROVE p <= Len(W) => buf[p] = W[p]
    <2> HAVE p <= Len(W)
    <2>1. buf[p] = SentBytes[p]
        BY <1>1, <1>2, <1>3, PrefixAt
    <2>2. p \in 1..Len(W)
        BY <1>0
    <2>3. QED
        BY <1>1, <2>1, <2>2
<1>7. QED
    BY <1>4, <1>5, <1>6

\* A read of the bytes where update() wrote a field, when the parser was
\* given all of them, returns the field.
LEMMA ReadField ==
    ASSUME src \in Reports, cut \in 0..RS,
           NEW off \in Nat, NEW f \in Seq(Byte), FieldAt(W, off, f),
           off + Len(f) <= cut
    PROVE  Bytes(buf, off, Len(f)) = f
<1>1. buf \in Seq(Byte) /\ Len(buf) = cut
      /\ \A p \in 1..cut : p <= Len(W) => buf[p] = W[p]
    BY BufFacts
<1>2. off + Len(f) <= Len(W) /\ \A m \in 1..Len(f) : W[off + m] = f[m]
    BY DEF FieldAt
<1>3. \A p \in (off + 1)..(off + Len(f)) : buf[p] \in Byte
    BY <1>1
<1>4. /\ SubSeq(buf, off + 1, off + Len(f)) \in Seq(Byte)
      /\ Len(SubSeq(buf, off + 1, off + Len(f))) = Len(f)
      /\ \A m \in 1..Len(f) : SubSeq(buf, off + 1, off + Len(f))[m] = buf[off + m]
    <2>1. /\ SubSeq(buf, off + 1, off + Len(f)) \in Seq(Byte)
          /\ Len(SubSeq(buf, off + 1, off + Len(f)))
               = IF off + 1 <= off + Len(f) THEN (off + Len(f)) - (off + 1) + 1 ELSE 0
          /\ \A m \in 1..(off + Len(f)) - (off + 1) + 1 :
               SubSeq(buf, off + 1, off + Len(f))[m] = buf[(off + 1) + m - 1]
        BY <1>3, SubSeqProperties
    <2>2. QED
        BY <2>1
<1>5. \A m \in 1..Len(f) : SubSeq(buf, off + 1, off + Len(f))[m] = f[m]
    <2>1. SUFFICES ASSUME NEW m \in 1..Len(f)
                   PROVE  SubSeq(buf, off + 1, off + Len(f))[m] = f[m]
        OBVIOUS
    <2>2. off + m \in 1..cut /\ off + m <= Len(W)
        BY <1>2
    <2>3. buf[off + m] = W[off + m]
        BY <1>1, <2>2
    <2>4. W[off + m] = f[m]
        BY <1>2
    <2>5. SubSeq(buf, off + 1, off + Len(f))[m] = buf[off + m]
        BY <1>4, Zenon
    <2>6. QED
        BY <2>3, <2>4, <2>5, Zenon
<1>6. \A m \in 1..Len(SubSeq(buf, off + 1, off + Len(f))) :
        SubSeq(buf, off + 1, off + Len(f))[m] = f[m]
    BY <1>4, <1>5, Zenon
<1>7. SubSeq(buf, off + 1, off + Len(f)) = f
    BY <1>4, <1>6, SeqEqual, Zenon
<1>8. QED
    BY <1>7 DEF Bytes

\* Reading a u32 or a u64 field back gives the value written, and a u8
\* field's one byte is the value.
LEMMA ReadU4 ==
    ASSUME src \in Reports, cut \in 0..RS,
           NEW off \in Nat, NEW n \in Nat, Fits(n, 4), FieldAt(W, off, U4(n)),
           off + 4 <= cut
    PROVE  FromLE(Bytes(buf, off, 4)) = n
<1>1. U4(n) \in Seq(Byte) /\ Len(U4(n)) = 4
    BY U4Seq, U4Len
<1>2. Bytes(buf, off, Len(U4(n))) = U4(n)
    BY <1>1, ReadField, Zenon
<1>3. Bytes(buf, off, 4) = LE(n, 4)
    BY <1>1, <1>2, Zenon DEF U4
<1>4. FromLE(LE(n, 4)) = n
    BY FromLEOfLE
<1>5. QED
    BY <1>3, <1>4

LEMMA ReadU8 ==
    ASSUME src \in Reports, cut \in 0..RS,
           NEW off \in Nat, NEW n \in Nat, Fits(n, 8), FieldAt(W, off, U8(n)),
           off + 8 <= cut
    PROVE  FromLE(Bytes(buf, off, 8)) = n
<1>1. U8(n) \in Seq(Byte) /\ Len(U8(n)) = 8
    BY U8Seq, U8Len
<1>2. Bytes(buf, off, Len(U8(n))) = U8(n)
    BY <1>1, ReadField, Zenon
<1>3. Bytes(buf, off, 8) = LE(n, 8)
    BY <1>1, <1>2, Zenon DEF U8
<1>4. FromLE(LE(n, 8)) = n
    BY FromLEOfLE
<1>5. QED
    BY <1>3, <1>4

LEMMA ReadU1 ==
    ASSUME src \in Reports, cut \in 0..RS,
           NEW off \in Nat, NEW n \in Byte, FieldAt(W, off, U1(n)),
           off + 1 <= cut
    PROVE  buf[off + 1] = n
<1>1. n \in Nat /\ U1(n) \in Seq(Byte) /\ Len(U1(n)) = 1
    BY U1Seq, U1Len DEF Byte
<1>2. /\ \A p \in 1..cut : p <= Len(W) => buf[p] = W[p]
      /\ off + 1 <= Len(W)
      /\ W[off + 1] = U1(n)[1]
    BY <1>1, BufFacts DEF FieldAt
<1>3. U1(n)[1] = Shifts(n)[1] % 256
    BY <1>1, LEByte DEF U1
<1>4. Shifts(n)[1] = n
    BY DEF Shifts
<1>5. QED
    BY <1>1, <1>2, <1>3, <1>4 DEF Byte

-----------------------------------------------------------------------------
(***************************************************************************)
(* The inductive invariant, and its proof.                                 *)
(***************************************************************************)

\* Where from() reads next, and what it has read, at each phase.
AtVersion == index = 0 /\ i = 0
AtAddress == index = 4 /\ i = 0 /\ HasVersion
AtKey == index = OffKey /\ i = 0 /\ HasAddress
AtCount == index = OffCount /\ i = 0 /\ HasKey
AtPing == i < NR /\ index = OffStats + 20 * i /\ HasStats(i)
AtTotals == i <= NUM_TOTALS /\ index = OffTotals + 8 * i /\ HasTotals(i)
AtCpu == index = OffCpu /\ HasShutdown
AtMem == index = OffMem /\ HasCpu
AtOk == index = OffMem + 8 /\ HasMem

\* The inductive invariant: the type invariant, each phase's reading
\* position and fields read, and a failed parse was given fewer bytes than
\* update() wrote.
IInv ==
    /\ TypeOK
    /\ phase = "version" => AtVersion
    /\ phase = "address" => AtAddress
    /\ phase = "key" => AtKey
    /\ phase = "count" => AtCount
    /\ phase = "ping" => AtPing
    /\ phase = "totals" => AtTotals
    /\ phase = "cpu" => AtCpu
    /\ phase = "mem" => AtMem
    /\ phase = "ok" => AtOk
    /\ phase = "fail" => cut < OffMem + 8

\* from() starts at offset 0 with an empty request.
LEMMA InitIInv ==
    ASSUME Init
    PROVE  IInv
<1>1. MAX_RELAYS \in Nat /\ NUM_TOTALS \in Nat
    BY RequestAssumption DEF Word
<1>2. EmptyRequest \in Request
    BY <1>1 DEF EmptyRequest, Request, PingSlot, Byte
<1>3. TypeOK
    <2>1. src \in Reports /\ cut \in 0..RequestSize(src)
        BY DEF Init
    <2>2. index \in 0..cut
        BY <2>1 DEF Init
    <2>3. i \in 0..NUM_TOTALS \cup 0..MAX_RELAYS
        BY <1>1 DEF Init
    <2>4. phase \in {"version", "address", "key", "count", "ping", "totals",
                     "cpu", "mem", "ok", "fail"}
        BY DEF Init
    <2>5. out \in Request
        BY <1>2 DEF Init
    <2>6. QED
        BY <2>1, <2>2, <2>3, <2>4, <2>5 DEF TypeOK
<1>4. QED
    BY <1>3 DEF Init, IInv, AtVersion

\* No step of from() changes the report or what the parser was given, so
\* the layout stays where it was.
LEMMA Frame ==
    ASSUME src' = src, cut' = cut
    PROVE  /\ W' = W /\ NR' = NR /\ Address' = Address /\ Token' = Token
           /\ OffKey' = OffKey /\ OffCount' = OffCount /\ OffShut' = OffShut
           /\ OffCpu' = OffCpu /\ OffMem' = OffMem /\ RS' = RS /\ buf' = buf
           /\ OffStats' = OffStats /\ OffTotals' = OffTotals
           /\ \A j : OffStat(j)' = OffStat(j) /\ OffTotal(j)' = OffTotal(j)
BY DEF W, NR, Address, Token, OffKey, OffCount, OffShut, OffCpu, OffMem, RS,
       buf, OffStat, OffTotal, OffStats, OffTotals

\* A read that finds the body short leaves from() failed, with fewer
\* bytes than update() wrote.
LEMMA FailStep ==
    ASSUME IInv, phase' = "fail", UNCHANGED <<src, cut, index, i, out>>,
           cut < OffMem + 8
    PROVE  IInv'
<1>1. OffMem' = OffMem /\ RequestSize(src)' = RequestSize(src)
    BY Frame DEF RS
<1>2. TypeOK'
    BY <1>1 DEF IInv, TypeOK
<1>3. QED
    BY <1>1, <1>2 DEF IInv

\* The offsets of the fields are natural numbers, in the order update()
\* writes the fields.
OffsetFacts ==
    /\ KEY_SIZE \in Nat /\ NUM_TOTALS \in Nat /\ NR \in Nat
    /\ Len(Address) \in Nat
    /\ OffKey \in Nat /\ OffKey = 8 + Len(Address)
    /\ OffCount \in Nat /\ OffCount = OffKey + KEY_SIZE
    /\ OffStats \in Nat /\ OffStats = OffCount + 4
    /\ OffTotals \in Nat /\ OffTotals = OffStats + 20 * NR
    /\ \A j \in Nat : OffStat(j) = OffStats + 20 * j /\ OffTotal(j) = OffTotals + 8 * j
    /\ OffShut \in Nat /\ OffShut = OffTotals + 8 * NUM_TOTALS
    /\ OffCpu \in Nat /\ OffCpu = OffShut + 1
    /\ OffMem \in Nat /\ OffMem = OffCpu + 8
    /\ 8 <= OffKey /\ OffKey <= OffCount /\ OffCount + 4 <= OffShut
    /\ OffShut + 9 = OffMem

LEMMA Offsets ==
    ASSUME src \in Reports
    PROVE  OffsetFacts
<1>1. KEY_SIZE \in Nat /\ NUM_TOTALS \in Nat /\ NR \in Nat /\ Len(Address) \in Nat
    BY ReportNats
<1>2. QED
    BY <1>1 DEF OffsetFacts, OffKey, OffCount, OffStat, OffTotal, OffShut, OffCpu, OffMem,
                OffStats, OffTotals

\* A step that keeps the report and the input, and keeps the parse state
\* in its types, keeps the type invariant.
LEMMA TypeStep ==
    ASSUME TypeOK, src' = src, cut' = cut, index' \in 0..cut,
           i' \in 0..NUM_TOTALS \cup 0..MAX_RELAYS,
           phase' \in {"version", "address", "key", "count", "ping", "totals",
                      "cpu", "mem", "ok", "fail"},
           out' \in Request
    PROVE  TypeOK'
BY DEF TypeOK

\* ReadVersion: the u32 version, read at offset 0.
LEMMA VersionStep ==
    ASSUME IInv, ReadVersion
    PROVE  IInv'
<1>1. /\ src \in Reports /\ cut \in 0..RS /\ out \in Request
      /\ phase = "version" /\ index = 0 /\ i = 0
    BY DEF IInv, TypeOK, RS, ReadVersion, AtVersion
<1>2. Len(buf) = cut
    BY <1>1, BufFacts
<1>3. OffMem \in Nat /\ 4 <= OffMem + 8
    <2>1. OffsetFacts
        BY <1>1, Offsets
    <2>2. QED
        BY <2>1 DEF OffsetFacts
<1>4. CASE ~CanRead(buf, index, 4) /\ Fail
    <2>1. cut < OffMem + 8
        BY <1>1, <1>2, <1>3, <1>4 DEF CanRead
    <2>2. QED
        BY <1>4, <2>1, FailStep DEF Fail
<1>5. CASE /\ CanRead(buf, index, 4)
           /\ out' = [out EXCEPT !["version"] = FromLE(Bytes(buf, index, 4))]
           /\ index' = index + 4
           /\ phase' = "address"
           /\ UNCHANGED <<src, cut, i>>
    <2>1. 0 + 4 <= cut
        BY <1>1, <1>2, <1>5 DEF CanRead
    <2>2. UPDATE_REQUEST_VERSION \in Nat /\ Fits(UPDATE_REQUEST_VERSION, 4)
        BY RequestAssumption DEF Word
    <2>3. FieldAt(W, 0, U4(UPDATE_REQUEST_VERSION))
        BY <1>1, WrittenLayout DEF Layout
    <2>4. FromLE(Bytes(buf, 0, 4)) = UPDATE_REQUEST_VERSION
        BY <1>1, <2>1, <2>2, <2>3, ReadU4
    <2>5. out'.version = UPDATE_REQUEST_VERSION /\ out' \in Request
        BY <1>1, <1>5, <2>2, <2>4, Zenon DEF Request
    <2>6. RequestSize(src)' = RequestSize(src) /\ index' = 4
        BY <1>1, <1>5 DEF RS
    <2>7. TypeOK'
        <3>1. TypeOK
            BY DEF IInv
        <3>2. /\ src' = src /\ cut' = cut /\ index' \in 0..cut
              /\ i' \in 0..NUM_TOTALS \cup 0..MAX_RELAYS
              /\ phase' \in {"version", "address", "key", "count", "ping", "totals",
                             "cpu", "mem", "ok", "fail"}
            BY <1>1, <1>5, <2>1, RequestAssumption
        <3>3. QED
            BY <3>1, <3>2, <2>5, TypeStep, Zenon
    <2>8. QED
        BY <1>1, <1>5, <2>5, <2>6, <2>7 DEF IInv, AtAddress, HasVersion
<1>6. QED
    BY <1>1, <1>4, <1>5 DEF ReadVersion, ReadInto

\* ReadAddress: the u32 length at offset 4, then that many bytes.
LEMMA AddressStep ==
    ASSUME IInv, ReadAddress
    PROVE  IInv'
<1>1. /\ src \in Reports /\ cut \in 0..RS /\ out \in Request
      /\ phase = "address" /\ index = 4 /\ i = 0 /\ HasVersion
    BY DEF IInv, TypeOK, RS, ReadAddress, AtAddress
<1>2. Len(buf) = cut
    BY <1>1, BufFacts
<1>3. OffsetFacts
    BY <1>1, Offsets
<1>4. OffKey <= OffMem /\ OffMem \in Nat /\ OffKey \in Nat
    BY <1>3 DEF OffsetFacts
<1>5. Len(Address) \in Nat /\ Fits(Len(Address), 4) /\ Address \in Seq(Byte)
    BY <1>1, ReportFields
<1>6. FieldAt(W, 4, U4(Len(Address))) /\ FieldAt(W, 8, Address)
    BY <1>1, WrittenLayout DEF Layout
<1>7. 4 + 4 <= cut => FromLE(Bytes(buf, 4, 4)) = Len(Address)
    <2> HAVE 4 + 4 <= cut
    <2>1. QED
        BY <1>1, <1>5, <1>6, ReadU4
<1>8. CASE ~CanReadString(buf, index) /\ Fail
    <2>1. cut < OffKey
        BY <1>1, <1>2, <1>4, <1>5, <1>7, <1>8 DEF CanReadString, CanRead, OffKey
    <2>2. cut < OffMem + 8
        BY <1>1, <1>4, <2>1
    <2>3. QED
        BY <1>8, <2>2, FailStep DEF Fail
<1>9. CASE /\ CanReadString(buf, index)
           /\ out' = [out EXCEPT !.address = StringAt(buf, index)]
           /\ index' = index + 4 + Len(StringAt(buf, index))
           /\ phase' = "key"
           /\ UNCHANGED <<src, cut, i>>
    <2>1. 8 <= cut /\ 8 + Len(Address) <= cut
        BY <1>1, <1>2, <1>5, <1>7, <1>9 DEF CanReadString, CanRead
    <2>2. StringAt(buf, index) = Address
        <3>1. Bytes(buf, 8, Len(Address)) = Address
            BY <1>1, <1>5, <1>6, <2>1, ReadField
        <3>2. FromLE(Bytes(buf, 4, 4)) = Len(Address)
            BY <1>7, <2>1
        <3>3. QED
            BY <1>1, <3>1, <3>2 DEF StringAt
    <2>3. index' = OffKey /\ OffKey \in 0..cut
        BY <1>1, <1>9, <2>1, <2>2 DEF OffKey
    <2>4. Address' = Address /\ OffKey' = OffKey
        BY <1>9, Frame
    <2>5. out'.version = UPDATE_REQUEST_VERSION /\ out'.address = Address'
        BY <1>1, <1>9, <2>2, <2>4 DEF HasVersion
    <2>6. out' \in Request
        BY <1>1, <1>5, <1>9, <2>2, Zenon DEF Request
    <2>7. TypeOK'
        <3>1. TypeOK
            BY DEF IInv
        <3>2. /\ src' = src /\ cut' = cut /\ index' \in 0..cut
              /\ i' \in 0..NUM_TOTALS \cup 0..MAX_RELAYS
              /\ phase' \in {"version", "address", "key", "count", "ping", "totals",
                             "cpu", "mem", "ok", "fail"}
            BY <1>1, <1>9, <2>3, RequestAssumption
        <3>3. QED
            BY <3>1, <3>2, <2>6, TypeStep, Zenon
    <2>8. QED
        BY <1>1, <1>9, <2>3, <2>4, <2>5, <2>7 DEF IInv, AtKey, HasAddress, HasVersion
<1>10. QED
    BY <1>1, <1>8, <1>9 DEF ReadAddress

\* ReadKey: the KEY_SIZE bytes of the relay's token.
LEMMA KeyStep ==
    ASSUME IInv, ReadKey
    PROVE  IInv'
<1>1. /\ src \in Reports /\ cut \in 0..RS /\ out \in Request
      /\ phase = "key" /\ index = OffKey /\ i = 0 /\ HasAddress
    BY DEF IInv, TypeOK, RS, ReadKey, AtKey
<1>2. Len(buf) = cut
    BY <1>1, BufFacts
<1>3. OffsetFacts
    BY <1>1, Offsets
<1>4. /\ OffCount <= OffMem /\ OffMem \in Nat /\ OffKey \in Nat
      /\ OffCount = OffKey + KEY_SIZE /\ KEY_SIZE \in Nat
    BY <1>3 DEF OffsetFacts
<1>5. Token \in Seq(Byte) /\ Len(Token) = KEY_SIZE
    BY <1>1, ReportFields
<1>6. FieldAt(W, OffKey, Token)
    BY <1>1, WrittenLayout DEF Layout
<1>7. CASE ~CanRead(buf, index, KEY_SIZE) /\ Fail
    <2>1. cut < OffMem + 8
        BY <1>1, <1>2, <1>4, <1>7 DEF CanRead
    <2>2. QED
        BY <1>7, <2>1, FailStep DEF Fail
<1>8. CASE /\ CanRead(buf, index, KEY_SIZE)
           /\ out' = [out EXCEPT !.key = Bytes(buf, index, KEY_SIZE)]
           /\ index' = index + KEY_SIZE
           /\ phase' = "count"
           /\ UNCHANGED <<src, cut, i>>
    <2>1. OffKey + Len(Token) <= cut
        BY <1>1, <1>2, <1>4, <1>5, <1>8 DEF CanRead
    <2>2. Bytes(buf, index, KEY_SIZE) = Token
        <3>1. Bytes(buf, OffKey, Len(Token)) = Token
            BY <1>1, <1>4, <1>5, <1>6, <2>1, ReadField
        <3>2. QED
            BY <1>1, <1>5, <3>1
    <2>3. index' = OffCount /\ OffCount \in 0..cut
        BY <1>1, <1>4, <1>8, <2>1, <1>5
    <2>4. Address' = Address /\ Token' = Token /\ OffCount' = OffCount
        BY <1>8, Frame
    <2>5. /\ out'.version = UPDATE_REQUEST_VERSION /\ out'.address = Address'
          /\ out'.key = Token'
        BY <1>1, <1>8, <2>2, <2>4 DEF HasAddress, HasVersion
    <2>6. out' \in Request
        BY <1>1, <1>5, <1>8, <2>2, Zenon DEF Request
    <2>7. TypeOK'
        <3>1. TypeOK
            BY DEF IInv
        <3>2. /\ src' = src /\ cut' = cut /\ index' \in 0..cut
              /\ i' \in 0..NUM_TOTALS \cup 0..MAX_RELAYS
              /\ phase' \in {"version", "address", "key", "count", "ping", "totals",
                             "cpu", "mem", "ok", "fail"}
            BY <1>1, <1>8, <2>3, RequestAssumption
        <3>3. QED
            BY <3>1, <3>2, <2>6, TypeStep, Zenon
    <2>8. QED
        BY <1>1, <1>8, <2>3, <2>4, <2>5, <2>7
        DEF IInv, AtCount, HasKey, HasAddress, HasVersion
<1>9. QED
    BY <1>1, <1>7, <1>8 DEF ReadKey

\* ReadNumRelays: the u32 count of ping stats, then on to the first stat or,
\* with none, to the totals.
LEMMA CountStep ==
    ASSUME IInv, ReadNumRelays
    PROVE  IInv'
<1>1. /\ src \in Reports /\ cut \in 0..RS /\ out \in Request
      /\ phase = "count" /\ index = OffCount /\ i = 0 /\ HasKey
    BY DEF IInv, TypeOK, RS, ReadNumRelays, AtCount
<1>2. Len(buf) = cut
    BY <1>1, BufFacts
<1>3. OffsetFacts
    BY <1>1, Offsets
<1>4. /\ OffCount + 4 <= OffMem /\ OffMem \in Nat /\ OffCount \in Nat
      /\ NR \in Nat /\ NUM_TOTALS \in Nat
      /\ OffStats = OffCount + 4 /\ OffTotals = OffStats + 20 * NR
    BY <1>3 DEF OffsetFacts
<1>5. NR \in 0..MAX_RELAYS /\ Fits(NR, 4)
    <2>1. NR \in 0..MAX_RELAYS
        BY <1>1, ReportFields
    <2>2. MAX_RELAYS \in Nat /\ Fits(MAX_RELAYS, 4)
        BY RequestAssumption DEF Word
    <2>3. QED
        BY <1>4, <2>1, <2>2, FitsMono
<1>6. FieldAt(W, OffCount, U4(NR))
    BY <1>1, WrittenLayout DEF Layout
<1>7. CASE ~CanRead(buf, index, 4) /\ Fail
    <2>1. cut < OffMem + 8
        BY <1>1, <1>2, <1>4, <1>7 DEF CanRead
    <2>2. QED
        BY <1>7, <2>1, FailStep DEF Fail
<1>8. CASE /\ CanRead(buf, index, 4)
           /\ out' = [out EXCEPT !.num_relays = FromLE(Bytes(buf, index, 4))]
           /\ index' = index + 4
           /\ phase' = IF out'.num_relays > 0 THEN "ping" ELSE "totals"
           /\ UNCHANGED <<src, cut, i>>
    <2>1. OffCount + 4 <= cut
        BY <1>1, <1>2, <1>8 DEF CanRead
    <2>2. FromLE(Bytes(buf, OffCount, 4)) = NR
        BY <1>1, <1>4, <1>5, <1>6, <2>1, ReadU4
    <2>3. /\ out'.num_relays = NR /\ out' \in Request
          /\ out'.version = out.version /\ out'.address = out.address
          /\ out'.key = out.key /\ out'.stats = out.stats
        BY <1>1, <1>4, <1>8, <2>2, Zenon DEF Request
    <2>4. /\ Address' = Address /\ Token' = Token /\ NR' = NR
          /\ OffStats' = OffStats /\ OffTotals' = OffTotals
        BY <1>8, Frame
    <2>5. HasCount'
        BY <1>1, <2>3, <2>4 DEF HasCount, HasKey, HasAddress, HasVersion
    <2>6. index' = OffStats /\ index' \in 0..cut /\ i' = 0
        BY <1>1, <1>4, <1>8, <2>1
    <2>7. TypeOK'
        <3>1. TypeOK
            BY DEF IInv
        <3>2. /\ src' = src /\ cut' = cut /\ index' \in 0..cut
              /\ i' \in 0..NUM_TOTALS \cup 0..MAX_RELAYS
              /\ phase' \in {"version", "address", "key", "count", "ping", "totals",
                             "cpu", "mem", "ok", "fail"}
            BY <1>1, <1>4, <1>8, <2>6, RequestAssumption
        <3>3. QED
            BY <3>1, <3>2, <2>3, TypeStep, Zenon
    <2>8. CASE NR > 0
        <3>1. phase' = "ping"
            BY <1>8, <2>3, <2>8
        <3>2. HasStats(i)'
            BY <2>5, <2>6 DEF HasStats
        <3>3. AtPing'
            BY <1>4, <2>4, <2>6, <2>8, <3>2 DEF AtPing
        <3>4. QED
            BY <2>7, <3>1, <3>3 DEF IInv
    <2>9. CASE ~(NR > 0)
        <3>1. phase' = "totals" /\ NR = 0
            BY <1>4, <1>8, <2>3, <2>9
        <3>2. HasTotals(i)'
            BY <2>4, <2>5, <2>6, <3>1 DEF HasTotals, HasStats
        <3>3. AtTotals'
            BY <1>4, <2>4, <2>6, <3>1, <3>2 DEF AtTotals
        <3>4. QED
            BY <2>7, <3>1, <3>3 DEF IInv
    <2>10. QED
        BY <2>8, <2>9
<1>9. QED
    BY <1>1, <1>7, <1>8 DEF ReadNumRelays

\* The four reads of one ping stat, when the parser was given its 20 bytes,
\* give back the stat update() wrote there.
LEMMA StatRead ==
    ASSUME src \in Reports, cut \in 0..RS, NEW j \in 0..(NR - 1),
           NEW off \in Nat, off = OffStats + 20 * j, off + 20 <= cut
    PROVE  [id |-> FromLE(Bytes(buf, off, 8)),
            rtt |-> FromLE(Bytes(buf, off + 8, 4)),
            jitter |-> FromLE(Bytes(buf, off + 12, 4)),
            loss |-> FromLE(Bytes(buf, off + 16, 4))] = src.stats[j + 1]
<1> DEFINE st == src.stats[j + 1]
<1>1. OffsetFacts
    BY Offsets
<1>2. j \in Nat /\ OffStat(j) = off
    BY <1>1 DEF OffsetFacts
<1>3. st \in Stat
    <2>1. src.stats \in [1..NR -> Stat] /\ NR \in Nat
        BY ReportFields
    <2>2. QED
        BY <2>1
<1>4. FieldAt(W, off, StatBytes(st))
    BY <1>2, StatAt
<1>5. /\ FieldAt(W, off, U8(st.id))
      /\ FieldAt(W, off + 8, U4(st.rtt))
      /\ FieldAt(W, off + 12, U4(st.jitter))
      /\ FieldAt(W, off + 16, U4(st.loss))
    BY <1>3, <1>4, StatWindows
<1>6. /\ st.id \in Nat /\ Fits(st.id, 8)
      /\ st.rtt \in Nat /\ Fits(st.rtt, 4)
      /\ st.jitter \in Nat /\ Fits(st.jitter, 4)
      /\ st.loss \in Nat /\ Fits(st.loss, 4)
    BY <1>3, RequestAssumption, Zenon DEF Stat, Word
<1>7. FromLE(Bytes(buf, off, 8)) = st.id
    BY <1>5, <1>6, ReadU8
<1>8. FromLE(Bytes(buf, off + 8, 4)) = st.rtt
    BY <1>5, <1>6, ReadU4
<1>9. FromLE(Bytes(buf, off + 12, 4)) = st.jitter
    BY <1>5, <1>6, ReadU4
<1>10. FromLE(Bytes(buf, off + 16, 4)) = st.loss
    BY <1>5, <1>6, ReadU4
<1>11. st = [id |-> st.id, rtt |-> st.rtt, jitter |-> st.jitter, loss |-> st.loss]
    BY <1>3, Zenon DEF Stat
<1>12. QED
    BY <1>7, <1>8, <1>9, <1>10, <1>11

\* ReadPingStat: the 20 bytes of stat i, then on to the next stat or, after
\* the last one, to the totals.
PingRec ==
    [id |-> FromLE(Bytes(buf, index, 8)),
     rtt |-> FromLE(Bytes(buf, index + 8, 4)),
     jitter |-> FromLE(Bytes(buf, index + 12, 4)),
     loss |-> FromLE(Bytes(buf, index + 16, 4))]
PingOk == CanRead(buf, index, 8 + 4 + 4 + 4)
PingGo ==
    /\ out' = [out EXCEPT !.stats[i + 1] = PingRec]
    /\ index' = index + 20
    /\ i' = IF i + 1 < out.num_relays THEN i + 1 ELSE 0
    /\ phase' = IF i + 1 < out.num_relays THEN "ping" ELSE "totals"
    /\ UNCHANGED <<src, cut>>

LEMMA PingStep ==
    ASSUME IInv, ReadPingStat
    PROVE  IInv'
<1>1. /\ src \in Reports /\ cut \in 0..RS /\ out \in Request
      /\ phase = "ping" /\ i < NR /\ index = OffStats + 20 * i /\ HasStats(i)
      /\ i \in Nat
    BY DEF IInv, TypeOK, RS, ReadPingStat, AtPing
<1>2. Len(buf) = cut
    BY <1>1, BufFacts
<1>3. OffsetFacts
    BY <1>1, Offsets
<1>4. /\ OffMem \in Nat /\ OffStats \in Nat /\ NR \in Nat /\ NUM_TOTALS \in Nat
      /\ OffTotals = OffStats + 20 * NR /\ OffTotals + 8 * NUM_TOTALS = OffShut
      /\ OffShut + 9 = OffMem
    BY <1>3 DEF OffsetFacts
<1>5. /\ i \in Nat /\ i < NR /\ NR \in Nat /\ NR <= MAX_RELAYS /\ MAX_RELAYS \in Nat
      /\ out.num_relays = NR
      /\ out.stats \in [1..MAX_RELAYS -> PingSlot]
    <2>1. NR \in 0..MAX_RELAYS
        BY <1>1, ReportFields
    <2>2. MAX_RELAYS \in Nat
        BY RequestAssumption DEF Word
    <2>3. out.num_relays = NR
        BY <1>1 DEF HasStats, HasCount
    <2>4. out.stats \in [1..MAX_RELAYS -> PingSlot]
        BY <1>1, Zenon DEF Request
    <2>5. i \in Nat /\ i < NR /\ NR \in Nat
        BY <1>1, <1>4
    <2>6. QED
        BY <2>1, <2>2, <2>3, <2>4, <2>5
<1>6. CASE ~PingOk /\ Fail
    <2>1. cut < OffMem + 8
        BY <1>1, <1>2, <1>4, <1>6 DEF CanRead, PingOk
    <2>2. QED
        BY <1>6, <2>1, FailStep DEF Fail
<1>7. CASE PingOk /\ PingGo
    <2>0. /\ out' = [out EXCEPT !.stats[i + 1] = PingRec]
          /\ index' = index + 20
          /\ i' = IF i + 1 < out.num_relays THEN i + 1 ELSE 0
          /\ phase' = IF i + 1 < out.num_relays THEN "ping" ELSE "totals"
          /\ src' = src /\ cut' = cut
        BY <1>7 DEF PingGo
    <2>1. index + 20 <= cut /\ index \in Nat
        BY <1>1, <1>2, <1>4, <1>7 DEF CanRead, PingOk
    <2>2. PingRec = src.stats[i + 1]
        <3>1. i \in 0..(NR - 1)
            BY <1>1, <1>4
        <3>2. QED
            BY <1>1, <2>1, <3>1, StatRead DEF PingRec
    <2>3. src.stats[i + 1] \in PingSlot
        <3>1. src.stats \in [1..NR -> Stat]
            BY <1>1, ReportFields
        <3>2. src.stats[i + 1] \in Stat
            BY <1>5, <3>1
        <3>3. QED
            BY <3>2 DEF Stat, PingSlot
    <2>4. out' = [out EXCEPT !.stats[i + 1] = src.stats[i + 1]]
        BY <2>0, <2>2
    <2>5. /\ i + 1 \in 1..MAX_RELAYS
          /\ out'.stats = [out.stats EXCEPT ![i + 1] = src.stats[i + 1]]
          /\ out'.version = out.version /\ out'.address = out.address
          /\ out'.key = out.key /\ out'.num_relays = out.num_relays
          /\ out' \in Request
        <3>1. i + 1 \in 1..MAX_RELAYS
            BY <1>5
        <3>2. QED
            BY <1>1, <2>3, <2>4, <3>1, Zenon DEF Request
    <2>6. \A k \in 1..(i + 1) : out'.stats[k] = src.stats[k]
        <3>1. \A k \in 1..i : out.stats[k] = src.stats[k]
            BY <1>1 DEF HasStats
        <3>2. out'.stats = [out.stats EXCEPT ![i + 1] = src.stats[i + 1]]
            BY <2>5
        <3>3. SUFFICES ASSUME NEW k \in 1..(i + 1)
                       PROVE  out'.stats[k] = src.stats[k]
            OBVIOUS
        <3>4. k \in 1..MAX_RELAYS
            BY <1>5
        <3>5. CASE k = i + 1
            BY <1>5, <3>2, <3>4, <3>5
        <3>6. CASE k # i + 1
            <4>1. k \in 1..i
                BY <1>5, <3>6
            <4>2. QED
                BY <1>5, <3>1, <3>2, <3>4, <4>1
        <3>7. QED
            BY <3>5, <3>6
    <2>7. /\ Address' = Address /\ Token' = Token /\ NR' = NR
          /\ OffStats' = OffStats /\ OffTotals' = OffTotals
        BY <2>0, Frame
    <2>8. HasCount'
        BY <1>1, <1>5, <2>5, <2>7 DEF HasStats, HasCount, HasKey, HasAddress, HasVersion
    <2>9. index' = OffStats + 20 * (i + 1) /\ index' \in 0..cut
        BY <1>1, <1>4, <2>0, <2>1
    <2>10. TypeOK'
        <3>1. TypeOK
            BY DEF IInv
        <3>2. /\ src' = src /\ cut' = cut /\ index' \in 0..cut
              /\ i' \in 0..NUM_TOTALS \cup 0..MAX_RELAYS
              /\ phase' \in {"version", "address", "key", "count", "ping", "totals",
                             "cpu", "mem", "ok", "fail"}
            <4>1. i' \in 0..MAX_RELAYS
                BY <1>5, <2>0
            <4>2. QED
                BY <2>0, <2>9, <4>1
        <3>3. QED
            BY <3>1, <3>2, <2>5, TypeStep, Zenon
    <2>11. CASE i + 1 < NR
        <3>1. phase' = "ping" /\ i' = i + 1
            BY <1>5, <2>0, <2>11
        <3>2. HasStats(i)'
            BY <2>6, <2>7, <2>8, <2>0, <3>1 DEF HasStats
        <3>3. AtPing'
            BY <1>1, <2>7, <2>9, <2>11, <3>1, <3>2 DEF AtPing
        <3>4. QED
            BY <2>10, <3>1, <3>3 DEF IInv
    <2>12. CASE ~(i + 1 < NR)
        <3>1. phase' = "totals" /\ i' = 0 /\ i + 1 = NR
            BY <1>1, <1>4, <1>5, <2>0, <2>12
        <3>2. HasTotals(i)'
            BY <2>6, <2>7, <2>8, <2>0, <3>1 DEF HasTotals, HasStats
        <3>3. AtTotals'
            BY <1>4, <2>7, <2>9, <3>1, <3>2 DEF AtTotals
        <3>4. QED
            BY <2>10, <3>1, <3>3 DEF IInv
    <2>13. QED
        BY <2>11, <2>12
<1>8. QED
    BY <1>6, <1>7 DEF ReadPingStat, PingOk, PingGo, PingRec

\* ReadTotal: total i as a u64.
TotalVal == FromLE(Bytes(buf, index, 8))
TotalOk == CanRead(buf, index, 8)
TotalGo ==
    /\ out' = [out EXCEPT !.totals[i + 1] = TotalVal]
    /\ index' = index + 8
    /\ i' = i + 1
    /\ UNCHANGED <<src, cut, phase>>

LEMMA TotalStep ==
    ASSUME IInv, ReadTotal
    PROVE  IInv'
<1>1. /\ src \in Reports /\ cut \in 0..RS /\ out \in Request
      /\ phase = "totals" /\ i < NUM_TOTALS /\ index = OffTotals + 8 * i
      /\ HasTotals(i) /\ i \in Nat
    BY DEF IInv, TypeOK, RS, ReadTotal, AtTotals
<1>2. Len(buf) = cut
    BY <1>1, BufFacts
<1>3. OffsetFacts
    BY <1>1, Offsets
<1>4. /\ OffMem \in Nat /\ OffTotals \in Nat /\ NUM_TOTALS \in Nat
      /\ OffTotals + 8 * NUM_TOTALS = OffShut /\ OffShut + 9 = OffMem
      /\ OffTotal(i) = OffTotals + 8 * i
    BY <1>1, <1>3 DEF OffsetFacts
<1>5. out.totals \in [1..NUM_TOTALS -> Nat]
    BY <1>1, Zenon DEF Request
<1>6. CASE ~TotalOk /\ Fail
    <2>1. cut < OffMem + 8
        BY <1>1, <1>2, <1>4, <1>6 DEF CanRead, TotalOk
    <2>2. QED
        BY <1>6, <2>1, FailStep DEF Fail
<1>7. CASE TotalOk /\ TotalGo
    <2>0. /\ out' = [out EXCEPT !.totals[i + 1] = TotalVal]
          /\ index' = index + 8 /\ i' = i + 1
          /\ src' = src /\ cut' = cut /\ phase' = phase
        BY <1>7 DEF TotalGo
    <2>1. index + 8 <= cut /\ index \in Nat
        BY <1>1, <1>2, <1>4, <1>7 DEF CanRead, TotalOk
    <2>2. TotalVal = src.totals[i + 1] /\ src.totals[i + 1] \in Nat
        <3>1. i \in 0..(NUM_TOTALS - 1)
            BY <1>1, <1>4
        <3>2. FieldAt(W, index, U8(src.totals[i + 1]))
            BY <1>1, <1>4, <3>1, TotalAt
        <3>3. src.totals[i + 1] \in Nat /\ Fits(src.totals[i + 1], 8)
            <4>1. src.totals \in [1..NUM_TOTALS -> Vals]
                BY <1>1, ReportFields
            <4>2. src.totals[i + 1] \in Vals
                BY <1>4, <3>1, <4>1
            <4>3. QED
                BY <4>2, RequestAssumption, Zenon DEF Word
        <3>4. QED
            BY <1>1, <2>1, <3>2, <3>3, ReadU8 DEF TotalVal
    <2>3a. out'.totals = [out.totals EXCEPT ![i + 1] = src.totals[i + 1]]
        BY <2>0, <2>2
    <2>3. /\ i + 1 \in 1..NUM_TOTALS
          /\ out'.totals = [out.totals EXCEPT ![i + 1] = src.totals[i + 1]]
          /\ out'.version = out.version /\ out'.address = out.address
          /\ out'.key = out.key /\ out'.num_relays = out.num_relays
          /\ out'.stats = out.stats
          /\ out' \in Request
        <3>1. i + 1 \in 1..NUM_TOTALS
            BY <1>1, <1>4
        <3>2. QED
            BY <1>1, <2>0, <2>2, <3>1, Zenon DEF Request
    <2>4. \A k \in 1..(i + 1) : out'.totals[k] = src.totals[k]
        <3>1. \A k \in 1..i : out.totals[k] = src.totals[k]
            BY <1>1 DEF HasTotals
        <3>2. SUFFICES ASSUME NEW k \in 1..(i + 1)
                       PROVE  out'.totals[k] = src.totals[k]
            OBVIOUS
        <3>3. k \in 1..NUM_TOTALS
            BY <1>1, <1>4
        <3>4. CASE k = i + 1
            BY <1>1, <1>4, <1>5, <2>3a, <3>3, <3>4
        <3>5. CASE k # i + 1
            <4>1. k \in 1..i
                BY <1>1, <3>5
            <4>2. QED
                BY <1>5, <2>3a, <3>1, <3>3, <4>1
        <3>6. QED
            BY <3>4, <3>5
    <2>5. /\ Address' = Address /\ Token' = Token /\ NR' = NR
          /\ OffTotals' = OffTotals
        BY <2>0, Frame
    <2>6. HasStats(NR)'
        BY <1>1, <2>0, <2>3, <2>5 DEF HasTotals, HasStats, HasCount, HasKey, HasAddress,
                                HasVersion
    <2>7. HasTotals(i)'
        BY <2>0, <2>4, <2>6 DEF HasTotals
    <2>8. index' = OffTotals + 8 * i' /\ index' \in 0..cut /\ i' <= NUM_TOTALS
        BY <1>1, <1>4, <2>0, <2>1
    <2>9. TypeOK'
        <3>1. TypeOK
            BY DEF IInv
        <3>2. /\ src' = src /\ cut' = cut /\ index' \in 0..cut
              /\ i' \in 0..NUM_TOTALS \cup 0..MAX_RELAYS
              /\ phase' \in {"version", "address", "key", "count", "ping", "totals",
                             "cpu", "mem", "ok", "fail"}
            BY <1>1, <1>4, <2>0, <2>8
        <3>3. QED
            BY <3>1, <3>2, <2>3, TypeStep, Zenon
    <2>10. AtTotals'
        BY <2>5, <2>7, <2>8 DEF AtTotals
    <2>11. QED
        BY <1>1, <2>0, <2>9, <2>10 DEF IInv
<1>8. QED
    BY <1>1, <1>6, <1>7 DEF ReadTotal, TotalOk, TotalGo, TotalVal

\* ReadShutdown: the u8 flag after the last total.
ShutOk == CanRead(buf, index, 1)
ShutGo ==
    /\ out' = [out EXCEPT !.shutting_down = (buf[index + 1] # 0)]
    /\ index' = index + 1
    /\ phase' = "cpu"
    /\ UNCHANGED <<src, cut, i>>

LEMMA ShutdownStep ==
    ASSUME IInv, ReadShutdown
    PROVE  IInv'
<1>1. /\ src \in Reports /\ cut \in 0..RS /\ out \in Request
      /\ phase = "totals" /\ i = NUM_TOTALS /\ index = OffTotals + 8 * i
      /\ HasTotals(i)
    BY DEF IInv, TypeOK, RS, ReadShutdown, AtTotals
<1>2. Len(buf) = cut
    BY <1>1, BufFacts
<1>3. OffsetFacts
    BY <1>1, Offsets
<1>4. /\ OffMem \in Nat /\ OffShut \in Nat /\ index = OffShut
      /\ OffCpu = OffShut + 1 /\ OffCpu \in Nat /\ OffShut + 9 = OffMem
    BY <1>1, <1>3 DEF OffsetFacts
<1>5. CASE ~ShutOk /\ Fail
    <2>1. cut < OffMem + 8
        BY <1>1, <1>2, <1>4, <1>5 DEF CanRead, ShutOk
    <2>2. QED
        BY <1>5, <2>1, FailStep DEF Fail
<1>6. CASE ShutOk /\ ShutGo
    <2>0. /\ out' = [out EXCEPT !.shutting_down = (buf[index + 1] # 0)]
          /\ index' = index + 1 /\ phase' = "cpu"
          /\ src' = src /\ cut' = cut /\ i' = i
        BY <1>6 DEF ShutGo
    <2>1. OffShut + 1 <= cut
        BY <1>1, <1>2, <1>4, <1>6 DEF CanRead, ShutOk
    <2>2. (buf[index + 1] # 0) = src.shutdown
        <3>1. ShutByte \in Byte
            BY <1>1, ReportFields DEF ShutByte, Byte
        <3>2. FieldAt(W, OffShut, U1(ShutByte))
            BY <1>1, WrittenLayout DEF Layout
        <3>3. buf[OffShut + 1] = ShutByte
            BY <1>1, <1>4, <2>1, <3>1, <3>2, ReadU1
        <3>4. src.shutdown \in BOOLEAN
            BY <1>1, ReportFields
        <3>5. QED
            BY <1>4, <3>3, <3>4 DEF ShutByte
    <2>3. /\ out'.shutting_down = src.shutdown
          /\ out'.version = out.version /\ out'.address = out.address
          /\ out'.key = out.key /\ out'.num_relays = out.num_relays
          /\ out'.stats = out.stats /\ out'.totals = out.totals
          /\ out' \in Request
        <3>1. src.shutdown \in BOOLEAN
            BY <1>1, ReportFields
        <3>2. QED
            BY <1>1, <2>0, <2>2, <3>1, Zenon DEF Request
    <2>4. /\ Address' = Address /\ Token' = Token /\ NR' = NR
          /\ OffCpu' = OffCpu
        BY <2>0, Frame
    <2>5. HasShutdown'
        BY <1>1, <2>0, <2>3, <2>4 DEF HasShutdown, HasTotals, HasStats, HasCount,
                                      HasKey, HasAddress, HasVersion
    <2>6. index' = OffCpu /\ index' \in 0..cut
        BY <1>1, <1>4, <2>0, <2>1
    <2>7. TypeOK'
        <3>1. TypeOK
            BY DEF IInv
        <3>2. /\ src' = src /\ cut' = cut /\ index' \in 0..cut
              /\ i' \in 0..NUM_TOTALS \cup 0..MAX_RELAYS
              /\ phase' \in {"version", "address", "key", "count", "ping", "totals",
                             "cpu", "mem", "ok", "fail"}
            BY <1>1, <2>0, <2>6, RequestAssumption
        <3>3. QED
            BY <3>1, <3>2, <2>3, TypeStep, Zenon
    <2>8. QED
        BY <2>0, <2>4, <2>5, <2>6, <2>7 DEF IInv, AtCpu
<1>7. QED
    BY <1>5, <1>6 DEF ReadShutdown, ShutOk, ShutGo

\* ReadCpu and ReadMem: the u64 bits of the two doubles.
U64At == FromLE(Bytes(buf, index, 8))
Ok8 == CanRead(buf, index, 8)
CpuGo ==
    /\ out' = [out EXCEPT !.cpu = U64At]
    /\ index' = index + 8
    /\ phase' = "mem"
    /\ UNCHANGED <<src, cut, i>>
MemGo ==
    /\ out' = [out EXCEPT !.mem = U64At]
    /\ index' = index + 8
    /\ phase' = "ok"
    /\ UNCHANGED <<src, cut, i>>

LEMMA CpuStep ==
    ASSUME IInv, ReadCpu
    PROVE  IInv'
<1>1. /\ src \in Reports /\ cut \in 0..RS /\ out \in Request
      /\ phase = "cpu" /\ index = OffCpu /\ HasShutdown
    BY DEF IInv, TypeOK, RS, ReadCpu, AtCpu
<1>2. Len(buf) = cut
    BY <1>1, BufFacts
<1>3. OffsetFacts
    BY <1>1, Offsets
<1>4. /\ OffMem \in Nat /\ OffCpu \in Nat /\ OffMem = OffCpu + 8
    BY <1>3 DEF OffsetFacts
<1>5. CASE ~Ok8 /\ Fail
    <2>1. cut < OffMem + 8
        BY <1>1, <1>2, <1>4, <1>5 DEF CanRead, Ok8
    <2>2. QED
        BY <1>5, <2>1, FailStep DEF Fail
<1>6. CASE Ok8 /\ CpuGo
    <2>0. /\ out' = [out EXCEPT !.cpu = U64At]
          /\ index' = index + 8 /\ phase' = "mem"
          /\ src' = src /\ cut' = cut /\ i' = i
        BY <1>6 DEF CpuGo
    <2>1. OffCpu + 8 <= cut
        BY <1>1, <1>2, <1>4, <1>6 DEF CanRead, Ok8
    <2>2. U64At = src.cpu /\ src.cpu \in Nat
        <3>1. src.cpu \in Nat /\ Fits(src.cpu, 8)
            <4>1. src.cpu \in Word(8)
                BY <1>1, ReportFields
            <4>2. QED
                BY <4>1 DEF Word
        <3>2. FieldAt(W, OffCpu, U8(src.cpu))
            BY <1>1, WrittenLayout DEF Layout
        <3>3. QED
            BY <1>1, <1>4, <2>1, <3>1, <3>2, ReadU8 DEF U64At
    <2>3. /\ out'.cpu = src.cpu
          /\ out'.version = out.version /\ out'.address = out.address
          /\ out'.key = out.key /\ out'.num_relays = out.num_relays
          /\ out'.stats = out.stats /\ out'.totals = out.totals
          /\ out'.shutting_down = out.shutting_down
          /\ out' \in Request
        BY <1>1, <2>0, <2>2, Zenon DEF Request
    <2>4. /\ Address' = Address /\ Token' = Token /\ NR' = NR
          /\ OffMem' = OffMem
        BY <2>0, Frame
    <2>5. HasCpu'
        BY <1>1, <2>0, <2>3, <2>4 DEF HasCpu, HasShutdown, HasTotals, HasStats, HasCount, HasKey, HasAddress, HasVersion
    <2>6. index' = OffMem /\ index' \in 0..cut
        BY <1>1, <1>4, <2>0, <2>1
    <2>7. TypeOK'
        <3>1. TypeOK
            BY DEF IInv
        <3>2. /\ src' = src /\ cut' = cut /\ index' \in 0..cut
              /\ i' \in 0..NUM_TOTALS \cup 0..MAX_RELAYS
              /\ phase' \in {"version", "address", "key", "count", "ping", "totals",
                             "cpu", "mem", "ok", "fail"}
            BY <1>1, <2>0, <2>6, RequestAssumption DEF IInv, TypeOK
        <3>3. QED
            BY <3>1, <3>2, <2>3, TypeStep, Zenon
    <2>8. QED
        BY <2>0, <2>4, <2>5, <2>6, <2>7 DEF IInv, AtMem
<1>7. QED
    BY <1>5, <1>6 DEF ReadCpu, ReadInto, Ok8, CpuGo, U64At

LEMMA MemStep ==
    ASSUME IInv, ReadMem
    PROVE  IInv'
<1>1. /\ src \in Reports /\ cut \in 0..RS /\ out \in Request
      /\ phase = "mem" /\ index = OffMem /\ HasCpu
    BY DEF IInv, TypeOK, RS, ReadMem, AtMem
<1>2. Len(buf) = cut
    BY <1>1, BufFacts
<1>3. OffsetFacts
    BY <1>1, Offsets
<1>4. /\ OffMem \in Nat /\ OffCpu \in Nat /\ OffMem = OffCpu + 8
    BY <1>3 DEF OffsetFacts
<1>5. CASE ~Ok8 /\ Fail
    <2>1. cut < OffMem + 8
        BY <1>1, <1>2, <1>4, <1>5 DEF CanRead, Ok8
    <2>2. QED
        BY <1>5, <2>1, FailStep DEF Fail
<1>6. CASE Ok8 /\ MemGo
    <2>0. /\ out' = [out EXCEPT !.mem = U64At]
          /\ index' = index + 8 /\ phase' = "ok"
          /\ src' = src /\ cut' = cut /\ i' = i
        BY <1>6 DEF MemGo
    <2>1. OffMem + 8 <= cut
        BY <1>1, <1>2, <1>4, <1>6 DEF CanRead, Ok8
    <2>2. U64At = src.mem /\ src.mem \in Nat
        <3>1. src.mem \in Nat /\ Fits(src.mem, 8)
            <4>1. src.mem \in Word(8)
                BY <1>1, ReportFields
            <4>2. QED
                BY <4>1 DEF Word
        <3>2. FieldAt(W, OffMem, U8(src.mem))
            BY <1>1, WrittenLayout DEF Layout
        <3>3. QED
            BY <1>1, <1>4, <2>1, <3>1, <3>2, ReadU8 DEF U64At
    <2>3. /\ out'.mem = src.mem
          /\ out'.version = out.version /\ out'.address = out.address
          /\ out'.key = out.key /\ out'.num_relays = out.num_relays
          /\ out'.stats = out.stats /\ out'.totals = out.totals
          /\ out'.shutting_down = out.shutting_down
          /\ out'.cpu = out.cpu
          /\ out' \in Request
        BY <1>1, <2>0, <2>2, Zenon DEF Request
    <2>4. /\ Address' = Address /\ Token' = Token /\ NR' = NR
          /\ OffMem' = OffMem
        BY <2>0, Frame
    <2>5. HasMem'
        BY <1>1, <2>0, <2>3, <2>4 DEF HasMem, HasCpu, HasShutdown, HasTotals, HasStats, HasCount, HasKey, HasAddress, HasVersion
    <2>6. index' = OffMem + 8 /\ index' \in 0..cut
        BY <1>1, <1>4, <2>0, <2>1
    <2>7. TypeOK'
        <3>1. TypeOK
            BY DEF IInv
        <3>2. /\ src' = src /\ cut' = cut /\ index' \in 0..cut
              /\ i' \in 0..NUM_TOTALS \cup 0..MAX_RELAYS
              /\ phase' \in {"version", "address", "key", "count", "ping", "totals",
                             "cpu", "mem", "ok", "fail"}
            BY <1>1, <2>0, <2>6, RequestAssumption DEF IInv, TypeOK
        <3>3. QED
            BY <3>1, <3>2, <2>3, TypeStep, Zenon
    <2>8. QED
        BY <2>0, <2>4, <2>5, <2>6, <2>7 DEF IInv, AtOk
<1>7. QED
    BY <1>5, <1>6 DEF ReadMem, ReadInto, Ok8, MemGo, U64At

\* A step that changes nothing keeps the invariant.
LEMMA StutterStep ==
    ASSUME IInv, UNCHANGED vars
    PROVE  IInv'
<1>1. /\ W' = W /\ NR' = NR /\ Address' = Address /\ Token' = Token
      /\ OffKey' = OffKey /\ OffCount' = OffCount /\ OffShut' = OffShut
      /\ OffCpu' = OffCpu /\ OffMem' = OffMem /\ RS' = RS
      /\ OffStats' = OffStats /\ OffTotals' = OffTotals
    BY Frame DEF vars
<1>2. RequestSize(src)' = RequestSize(src)
    BY DEF vars
<1>3. TypeOK'
    BY <1>2 DEF vars, IInv, TypeOK
<1>4. /\ HasVersion' = HasVersion /\ HasAddress' = HasAddress /\ HasKey' = HasKey
      /\ HasCount' = HasCount
      /\ \A j : HasStats(j)' = HasStats(j)
      /\ \A j : HasTotals(j)' = HasTotals(j)
    BY <1>1 DEF vars, HasTotals, HasStats, HasCount, HasKey, HasAddress, HasVersion
<1>5. /\ HasShutdown' = HasShutdown /\ HasCpu' = HasCpu /\ HasMem' = HasMem
    BY <1>1, <1>4 DEF vars, HasMem, HasCpu, HasShutdown
<1>6. /\ AtVersion' = AtVersion /\ AtAddress' = AtAddress /\ AtKey' = AtKey
      /\ AtCount' = AtCount /\ AtPing' = AtPing /\ AtTotals' = AtTotals
      /\ AtCpu' = AtCpu /\ AtMem' = AtMem /\ AtOk' = AtOk
    BY <1>1, <1>4, <1>5 DEF vars, AtVersion, AtAddress, AtKey, AtCount, AtPing,
       AtTotals, AtCpu, AtMem, AtOk
<1>7. QED
    BY <1>1, <1>3, <1>6 DEF vars, IInv

\* Every step of from() keeps the invariant.
LEMMA NextIInv ==
    ASSUME IInv, [Next]_vars
    PROVE  IInv'
<1>1. CASE ReadVersion
    BY <1>1, VersionStep
<1>2. CASE ReadAddress
    BY <1>2, AddressStep
<1>3. CASE ReadKey
    BY <1>3, KeyStep
<1>4. CASE ReadNumRelays
    BY <1>4, CountStep
<1>5. CASE ReadPingStat
    BY <1>5, PingStep
<1>6. CASE ReadTotal
    BY <1>6, TotalStep
<1>7. CASE ReadShutdown
    BY <1>7, ShutdownStep
<1>8. CASE ReadCpu
    BY <1>8, CpuStep
<1>9. CASE ReadMem
    BY <1>9, MemStep
<1>10. CASE UNCHANGED vars
    BY <1>10, StutterStep
<1>11. QED
    BY <1>1, <1>2, <1>3, <1>4, <1>5, <1>6, <1>7, <1>8, <1>9, <1>10 DEF Next

\* The invariant holds in every state from() can reach.
THEOREM IInvInvariant == Spec => []IInv
<1>1. Init => IInv
    BY InitIInv
<1>2. IInv /\ [Next]_vars => IInv'
    BY NextIInv
<1>3. QED
    BY <1>1, <1>2, PTL DEF Spec

\* Type correctness of from(): the read position never passes the bytes it
\* was given, the loop index stays within the arrays, and every field of the
\* UpdateRequest keeps its type.
THEOREM TypeCorrect == Spec => []TypeOK
<1>1. IInv => TypeOK
    BY DEF IInv
<1>2. QED
    BY <1>1, IInvInvariant, PTL

\* The totals read and the totals written.
OutTotals == out.totals
SrcTotals == src.totals

\* A parse that reached "ok" has read back every field of the report.
LEMMA DecodedOk ==
    ASSUME src \in Reports, out \in Request, HasMem
    PROVE  Decoded(out) = src
<1>1. /\ NR \in Nat /\ NR <= MAX_RELAYS /\ MAX_RELAYS \in Nat
      /\ src.stats \in [1..NR -> Stat]
      /\ src.totals \in [1..NUM_TOTALS -> Vals]
    <2>1. MAX_RELAYS \in Nat
        BY RequestAssumption DEF Word
    <2>2. QED
        BY <2>1, ReportFields
<1>2. /\ out.address = Address /\ out.key = Token /\ out.num_relays = NR
      /\ \A k \in 1..NR : out.stats[k] = src.stats[k]
      /\ \A k \in 1..NUM_TOTALS : out.totals[k] = src.totals[k]
      /\ out.shutting_down = src.shutdown /\ out.cpu = src.cpu
      /\ out.mem = src.mem
    BY DEF HasMem, HasCpu, HasShutdown, HasTotals, HasStats, HasCount, HasKey,
       HasAddress
<1>3. [k \in 1..out.num_relays |-> out.stats[k]] = src.stats
    BY <1>1, <1>2
<1>4. out.totals = src.totals
    <2>1. OutTotals \in [1..NUM_TOTALS -> Nat]
        BY Zenon DEF Request, OutTotals
    <2>2. SrcTotals \in [1..NUM_TOTALS -> Vals]
        BY <1>1 DEF SrcTotals
    <2>3. \A k \in 1..NUM_TOTALS : OutTotals[k] = SrcTotals[k]
        BY <1>2 DEF OutTotals, SrcTotals
    <2>4. /\ OutTotals = [k \in 1..NUM_TOTALS |-> OutTotals[k]]
          /\ SrcTotals = [k \in 1..NUM_TOTALS |-> SrcTotals[k]]
        BY <2>1, <2>2
    <2>5. OutTotals = SrcTotals
        BY <2>3, <2>4
    <2>6. QED
        BY <2>5 DEF OutTotals, SrcTotals
<1>5. src = [address |-> src.address, token |-> src.token, stats |-> src.stats,
             totals |-> src.totals, shutdown |-> src.shutdown, cpu |-> src.cpu,
             mem |-> src.mem]
    BY Zenon DEF Reports
<1>6. QED
    BY <1>2, <1>3, <1>4, <1>5, Zenon DEF Decoded, Address, Token

\* The invariant gives the round trip: a parse of everything update() sent
\* ends "ok", a parse of fewer bytes than it wrote ends "fail", and an "ok"
\* parse reads back the report.
LEMMA IInvRoundTrip ==
    ASSUME IInv
    PROVE  RequestRoundTrip
<1>1. /\ src \in Reports /\ cut \in 0..RS /\ index \in 0..cut /\ out \in Request
    BY DEF IInv, TypeOK, RS
<1>2. /\ Len(W) = OffMem + 8 /\ RS = Len(W) + 4 /\ OffMem \in Nat
    <2>1. OffsetFacts
        BY <1>1, Offsets
    <2>2. QED
        BY <1>1, <2>1, WrittenLayout, SizeOfRequest DEF Layout, OffsetFacts
<1>3. phase \in {"ok", "fail"} /\ cut = RequestSize(src) => phase = "ok"
    <2>1. phase = "fail" => cut < OffMem + 8
        BY DEF IInv
    <2>2. QED
        BY <1>1, <1>2, <2>1 DEF RS
<1>4. phase \in {"ok", "fail"} /\ cut < Len(Written(src)) => phase = "fail"
    <2>1. phase = "ok" => index = OffMem + 8
        BY DEF IInv, AtOk
    <2>2. QED
        BY <1>1, <1>2, <2>1 DEF W
<1>5. phase = "ok" => Decoded(out) = src
    <2>1. phase = "ok" => HasMem
        BY DEF IInv, AtOk
    <2>2. QED
        BY <1>1, <2>1, DecodedOk
<1>6. QED
    BY <1>3, <1>4, <1>5 DEF RequestRoundTrip

\* The round trip of update() and UpdateRequest::from (RequestRoundTrip,
\* which the request run checks on small reports), for every report and
\* every cut of the request.
THEOREM RoundTrip == Spec => []RequestRoundTrip
<1>1. IInv => RequestRoundTrip
    BY IInvRoundTrip
<1>2. QED
    BY <1>1, IInvInvariant, PTL

=============================================================================
