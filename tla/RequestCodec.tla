--------------------------- MODULE RequestCodec ---------------------------
(***************************************************************************)
(* The update request of src/src/core/backend.cpp: the bytes Backend::    *)
(* update() serialises into a buffer presized to request_size, and the     *)
(* parse UpdateRequest::from, one read at a time, over every prefix of     *)
(* what the relay sends (a short read is a truncated request).            *)
(***************************************************************************)
EXTENDS Naturals, Sequences, Encoding

CONSTANTS
    UPDATE_REQUEST_VERSION,
    MAX_RELAYS,     \* capacity of the ping-stats arrays
    KEY_SIZE,       \* bytes of the update token / public key
    NUM_TOTALS,     \* u64 fields after the ping stats: session count,
                    \* envelope up and down, then the traffic counters
    Texts,          \* relay address strings
    Tokens,         \* update tokens
    Ids,            \* relay ids of the ping stats
    FloatBits,      \* bit patterns of the f32 rtt, jitter and loss
    Vals,           \* values of the u64 totals
    DoubleBits      \* bit patterns of the f64 cpu and memory usage

\* Every value fits the field it is written to: the version and the relay
\* count are u32, so is an address string's length, the ids and totals are
\* u64, the floats 32 and the doubles 64 bits.
ASSUME RequestAssumption ==
    /\ UPDATE_REQUEST_VERSION \in Word(4)
    /\ MAX_RELAYS \in Word(4)
    /\ KEY_SIZE \in Nat
    /\ NUM_TOTALS \in Nat
    /\ Texts \subseteq Seq(Byte)
    /\ \A t \in Texts : Fits(Len(t), 4)
    /\ Tokens \subseteq [1..KEY_SIZE -> Byte]
    /\ Ids \subseteq Word(8)
    /\ FloatBits \subseteq Word(4)
    /\ Vals \subseteq Word(8)
    /\ DoubleBits \subseteq Word(8)

Stat == [id : Ids, rtt : FloatBits, jitter : FloatBits, loss : FloatBits]

\* What the relay reports in one update: RelayStats from the relay manager,
\* the session map totals, the drained traffic counters, the shutdown flag
\* and the system usage.
Reports == [address : Texts, token : Tokens,
            stats : UNION {[1..n -> Stat] : n \in 0..MAX_RELAYS},
            totals : [1..NUM_TOTALS -> Vals], shutdown : BOOLEAN,
            cpu : DoubleBits, mem : DoubleBits]

\* The 20 bytes of one ping stat: the u64 id, then the raw bytes of the
\* three floats.
StatBytes(st) ==
    LE(st.id, 8) \o LE(st.rtt, 4) \o LE(st.jitter, 4) \o LE(st.loss, 4)

\* What a write loop of n rounds produces when round k writes the w bytes
\* f[k]: the records back to back.
Records(f, n, w) == [p \in 1..n * w |-> f[((p - 1) \div w) + 1][((p - 1) % w) + 1]]

\* The bytes the write_* calls of update() produce, in order.
Written(x) ==
    LE(UPDATE_REQUEST_VERSION, 4) \o WriteString(x.address) \o x.token
      \o LE(Len(x.stats), 4)
      \o Records([k \in 1..Len(x.stats) |-> StatBytes(x.stats[k])], Len(x.stats), 20)
      \o Records([k \in 1..NUM_TOTALS |-> LE(x.totals[k], 8)], NUM_TOTALS, 8)
      \o LE(IF x.shutdown THEN 1 ELSE 0, 1) \o LE(x.cpu, 8) \o LE(x.mem, 8)

\* A mutant of request_size that leaves out the address bytes.
RequestSizeNoAddress(x) ==
    4 + 4 + KEY_SIZE + 4 + Len(x.stats) * 20 + 8 * NUM_TOTALS + 1 + 8 + 8 + 4

\* request_size: the sum the code spells out field by field, including a
\* trailing "relay version length" that nothing writes.
RequestSize(x) ==
    4 + 4 + Len(x.address) + KEY_SIZE + 4 + Len(x.stats) * 20
      + 8 * NUM_TOTALS + 1 + 8 + 8 + 4

\* req after req.resize(request_size) and the writes: a write that would run
\* past the end fails, and its result is ignored; unwritten bytes stay zero.
Sent(x) == SubSeq(Written(x) \o Zeros(RequestSize(x)), 1, RequestSize(x))

PingSlot == [id : Ids \cup {0}, rtt : FloatBits \cup {0},
             jitter : FloatBits \cup {0}, loss : FloatBits \cup {0}]

\* An UpdateRequest object as from() fills it; the ping-stats arrays hold
\* MAX_RELAYS entries.
Request == [version : Nat, address : Seq(Byte), key : Seq(Byte),
            num_relays : Nat, stats : [1..MAX_RELAYS -> PingSlot],
            totals : [1..NUM_TOTALS -> Nat], shutting_down : BOOLEAN,
            cpu : Nat, mem : Nat]

EmptyRequest ==
    [version |-> 0, address |-> <<>>, key |-> <<>>, num_relays |-> 0,
     stats |-> [k \in 1..MAX_RELAYS |-> [id |-> 0, rtt |-> 0, jitter |-> 0, loss |-> 0]],
     totals |-> [k \in 1..NUM_TOTALS |-> 0], shutting_down |-> FALSE,
     cpu |-> 0, mem |-> 0]

\* The report a parsed request stands for.
Decoded(r) ==
    [address |-> r.address, token |-> r.key,
     stats |-> [k \in 1..r.num_relays |-> r.stats[k]],
     totals |-> r.totals, shutdown |-> r.shutting_down, cpu |-> r.cpu, mem |-> r.mem]

VARIABLES
    src,    \* the report the relay serialised
    cut,    \* how many bytes of the request the parser was given
    index,  \* from()'s read position
    i,      \* from()'s loop index over the ping stats, then over the totals
    phase,  \* the read from() is at, or its result ("ok", "fail")
    out     \* the UpdateRequest being filled

vars == <<src, cut, index, i, phase, out>>

buf == SubSeq(Sent(src), 1, cut)

Fail == phase' = "fail" /\ UNCHANGED <<src, cut, index, i, out>>

\* One fixed-width read into field f of out, then on to phase next.
ReadInto(f, w, next) ==
    \/ ~CanRead(buf, index, w) /\ Fail
    \/ /\ CanRead(buf, index, w)
       /\ out' = [out EXCEPT ![f] = FromLE(Bytes(buf, index, w))]
       /\ index' = index + w
       /\ phase' = next
       /\ UNCHANGED <<src, cut, i>>

Init ==
    /\ src \in Reports
    /\ cut \in 0..RequestSize(src)
    /\ index = 0
    /\ i = 0
    /\ phase = "version"
    /\ out = EmptyRequest

ReadVersion == phase = "version" /\ ReadInto("version", 4, "address")

ReadAddress ==
    /\ phase = "address"
    /\ \/ ~CanReadString(buf, index) /\ Fail
       \/ /\ CanReadString(buf, index)
          /\ out' = [out EXCEPT !.address = StringAt(buf, index)]
          /\ index' = index + 4 + Len(StringAt(buf, index))
          /\ phase' = "key"
          /\ UNCHANGED <<src, cut, i>>

ReadKey ==
    /\ phase = "key"
    /\ \/ ~CanRead(buf, index, KEY_SIZE) /\ Fail
       \/ /\ CanRead(buf, index, KEY_SIZE)
          /\ out' = [out EXCEPT !.key = Bytes(buf, index, KEY_SIZE)]
          /\ index' = index + KEY_SIZE
          /\ phase' = "count"
          /\ UNCHANGED <<src, cut, i>>

ReadNumRelays ==
    /\ phase = "count"
    /\ \/ ~CanRead(buf, index, 4) /\ Fail
       \/ /\ CanRead(buf, index, 4)
          /\ out' = [out EXCEPT !.num_relays = FromLE(Bytes(buf, index, 4))]
          /\ index' = index + 4
          /\ phase' = IF out'.num_relays > 0 THEN "ping" ELSE "totals"
          /\ UNCHANGED <<src, cut, i>>

\* A mutant of the ping-stat read whose bounds check covers only the id.
ReadPingStatIdChecked ==
    /\ phase = "ping"
    /\ \/ ~CanRead(buf, index, 8) /\ Fail
       \/ /\ CanRead(buf, index, 8)
          /\ out' = [out EXCEPT !.stats[i + 1] = [id |-> FromLE(Bytes(buf, index, 8)),
                       rtt |-> 0, jitter |-> 0, loss |-> 0]]
          /\ index' = index + 20
          /\ i' = IF i + 1 < out.num_relays THEN i + 1 ELSE 0
          /\ phase' = IF i + 1 < out.num_relays THEN "ping" ELSE "totals"
          /\ UNCHANGED <<src, cut>>

\* ids[i], then rtt[i], jitter[i] and packet_loss[i] as raw f32 bytes; any of
\* the four reads finding the body short makes from() return false.
ReadPingStat ==
    /\ phase = "ping"
    /\ \/ ~CanRead(buf, index, 8 + 4 + 4 + 4) /\ Fail
       \/ /\ CanRead(buf, index, 8 + 4 + 4 + 4)
          /\ out' = [out EXCEPT !.stats[i + 1] =
                       [id |-> FromLE(Bytes(buf, index, 8)),
                        rtt |-> FromLE(Bytes(buf, index + 8, 4)),
                        jitter |-> FromLE(Bytes(buf, index + 12, 4)),
                        loss |-> FromLE(Bytes(buf, index + 16, 4))]]
          /\ index' = index + 20
          /\ i' = IF i + 1 < out.num_relays THEN i + 1 ELSE 0
          /\ phase' = IF i + 1 < out.num_relays THEN "ping" ELSE "totals"
          /\ UNCHANGED <<src, cut>>

\* session_count, envelope_up, envelope_down and the traffic counters, each
\* a u64 read of its own.
ReadTotal ==
    /\ phase = "totals"
    /\ i < NUM_TOTALS
    /\ \/ ~CanRead(buf, index, 8) /\ Fail
       \/ /\ CanRead(buf, index, 8)
          /\ out' = [out EXCEPT !.totals[i + 1] = FromLE(Bytes(buf, index, 8))]
          /\ index' = index + 8
          /\ i' = i + 1
          /\ UNCHANGED <<src, cut, phase>>

\* The u8 shutdown flag, cast to bool.
ReadShutdown ==
    /\ phase = "totals"
    /\ i = NUM_TOTALS
    /\ \/ ~CanRead(buf, index, 1) /\ Fail
       \/ /\ CanRead(buf, index, 1)
          /\ out' = [out EXCEPT !.shutting_down = (buf[index + 1] # 0)]
          /\ index' = index + 1
          /\ phase' = "cpu"
          /\ UNCHANGED <<src, cut, i>>

ReadCpu == phase = "cpu" /\ ReadInto("cpu", 8, "mem")

ReadMem == phase = "mem" /\ ReadInto("mem", 8, "ok")

Next ==
    \/ ReadVersion
    \/ ReadAddress
    \/ ReadKey
    \/ ReadNumRelays
    \/ ReadPingStat
    \/ ReadTotal
    \/ ReadShutdown
    \/ ReadCpu
    \/ ReadMem

Spec == Init /\ [][Next]_vars

-----------------------------------------------------------------------------

\* The parse state is well formed and never reads past the body.
TypeOK ==
    /\ src \in Reports
    /\ cut \in 0..RequestSize(src)
    /\ index \in 0..cut
    /\ i \in 0..NUM_TOTALS \cup 0..MAX_RELAYS
    /\ phase \in {"version", "address", "key", "count", "ping", "totals",
                  "cpu", "mem", "ok", "fail"}
    /\ out \in Request

\* What update() sends, UpdateRequest::from accepts, and reads back as the
\* report the relay serialised; a request cut short of what was written is
\* rejected.
RequestRoundTrip ==
    /\ phase \in {"ok", "fail"} /\ cut = RequestSize(src) => phase = "ok"
    /\ phase \in {"ok", "fail"} /\ cut < Len(Written(src)) => phase = "fail"
    /\ phase = "ok" => Decoded(out) = src

\* The backend's parse of a request consumes every byte the relay sent: the
\* request carries no bytes beyond the fields the spec lists.
RequestFullyConsumed ==
    phase = "ok" => index = cut

=============================================================================
