--------------------------- MODULE ResponseCodec ---------------------------
(***************************************************************************)
(* UpdateResponse in src/src/core/backend.cpp: into() and size(), which    *)
(* the tests use to build responses, and from(), which update() calls on   *)
(* the body of every backend reply.  from() is modelled one read at a     *)
(* time, as the code runs it, over every prefix of the encoding of a small *)
(* set of responses (a short read is a truncated reply) and that encoding  *)
(* followed by one stray byte.                                             *)
(***************************************************************************)
EXTENDS Naturals, Sequences, SequencesExt, Encoding

CONSTANTS
    MAX_RELAYS,     \* capacity of UpdateResponse::relays
    Addrs,          \* relay addresses (net::Address values)
    NoAddr,         \* the default-constructed address
    AddrText,       \* Addrs -> the bytes of address.to_string()
    BadTexts,       \* address strings that net::Address::parse rejects
    Ids,            \* relay ids
    Versions,       \* response versions
    Stamps,         \* backend timestamps
    MaxListed       \* most relays a reply of the model lists

ASSUME ResponseAssumption ==
    /\ MAX_RELAYS \in Nat \ {0}
    /\ MaxListed \in Nat
    /\ AddrText \in [Addrs -> Seq(Byte)]
    /\ NoAddr \notin Addrs
    /\ \A t \in BadTexts : t \in Seq(Byte) /\ \A a \in Addrs : t # AddrText[a]

ValidTexts == {AddrText[a] : a \in Addrs}

\* The relays of a reply as they are on the wire: an id and an address string.
Entry == [id : Ids, text : ValidTexts \cup BadTexts]

\* What the backend may send: a version, a timestamp and a list of relays.
Replies == [version : Versions, timestamp : Stamps,
            entries : UNION {[1..n -> Entry] : n \in 0..MaxListed}]

\* The layout UpdateResponse::into writes: version, timestamp, relay count,
\* then an id and an address string per relay.
Wire(r) ==
    LE(r.version, 4) \o LE(r.timestamp, 8) \o LE(Len(r.entries), 4)
      \o FlattenSeq([k \in 1..Len(r.entries) |->
                        LE(r.entries[k].id, 8) \o WriteString(r.entries[k].text)])

Slot == [id : Ids \cup {0}, address : Addrs \cup {NoAddr}]

\* An UpdateResponse object; relays is the fixed array of MAX_RELAYS slots.
Response == [version : Versions \cup {0}, timestamp : Stamps \cup {0},
             num_relays : 0..MaxListed, relays : [1..MAX_RELAYS -> Slot]]

EmptyResponse ==
    [version |-> 0, timestamp |-> 0, num_relays |-> 0,
     relays |-> [k \in 1..MAX_RELAYS |-> [id |-> 0, address |-> NoAddr]]]

\* The reply an UpdateResponse within capacity stands for.
Listing(v) ==
    [version |-> v.version, timestamp |-> v.timestamp,
     entries |-> [k \in 1..v.num_relays |->
                    [id |-> v.relays[k].id, text |-> AddrText[v.relays[k].address]]]]

\* UpdateResponse::into: the bytes it appends.
Into(v) == Wire(Listing(v))

\* A mutant of size() that forgets the length prefix of each address.
SizeNoLengthPrefix(v) ==
    4 + 8 + 4 + v.num_relays * 8
      + FoldLeft(LAMBDA acc, k : acc + Len(AddrText[v.relays[k].address]),
                 0, [k \in 1..v.num_relays |-> k])

\* UpdateResponse::size.
Size(v) ==
    4 + 8 + 4 + v.num_relays * (8 + 4)
      + FoldLeft(LAMBDA acc, k : acc + Len(AddrText[v.relays[k].address]),
                 0, [k \in 1..v.num_relays |-> k])

VARIABLES
    src,    \* the reply the backend encoded
    cut,    \* how many of its bytes update() received
    index,  \* from()'s read position
    i,      \* from()'s loop index over the relays
    phase,  \* the read from() is at, or its result ("ok", "fail")
    out     \* the UpdateResponse being filled

vars == <<src, cut, index, i, phase, out>>

\* The body handed to from(): the encoding followed by a stray byte, cut short.
buf == SubSeq(Wire(src) \o <<0>>, 1, cut)

\* Writing relays[i].field: past the array the write is undefined behaviour
\* and lands in memory the model does not hold.
Store(slots, field, value) ==
    IF i < MAX_RELAYS THEN [slots EXCEPT ![i + 1][field] = value] ELSE slots

\* A read that finds too few bytes: from() returns false.
Fail == phase' = "fail" /\ UNCHANGED <<src, cut, index, i, out>>

Init ==
    /\ src \in Replies
    /\ cut \in 0..Len(Wire(src)) + 1
    /\ index = 0
    /\ i = 0
    /\ phase = "version"
    /\ out = EmptyResponse

ReadVersion ==
    /\ phase = "version"
    /\ \/ ~CanRead(buf, index, 4) /\ Fail
       \/ /\ CanRead(buf, index, 4)
          /\ out' = [out EXCEPT !.version = FromLE(Bytes(buf, index, 4))]
          /\ index' = index + 4
          /\ phase' = "timestamp"
          /\ UNCHANGED <<src, cut, i>>

ReadTimestamp ==
    /\ phase = "timestamp"
    /\ \/ ~CanRead(buf, index, 8) /\ Fail
       \/ /\ CanRead(buf, index, 8)
          /\ out' = [out EXCEPT !.timestamp = FromLE(Bytes(buf, index, 8))]
          /\ index' = index + 8
          /\ phase' = "count"
          /\ UNCHANGED <<src, cut, i>>

\* A mutant of the count read that advances as if the count were 64 bits.
ReadNumRelaysAdvanceWide ==
    /\ phase = "count"
    /\ \/ ~CanRead(buf, index, 4) /\ Fail
       \/ /\ CanRead(buf, index, 4)
          /\ out' = [out EXCEPT !.num_relays = FromLE(Bytes(buf, index, 4))]
          /\ index' = index + 8
          /\ phase' = IF out'.num_relays > 0 THEN "id" ELSE "ok"
          /\ UNCHANGED <<src, cut, i>>

ReadNumRelays ==
    /\ phase = "count"
    /\ \/ ~CanRead(buf, index, 4) /\ Fail
       \/ /\ CanRead(buf, index, 4)
          /\ out' = [out EXCEPT !.num_relays = FromLE(Bytes(buf, index, 4))]
          /\ index' = index + 4
          /\ phase' = IF out'.num_relays > 0 THEN "id" ELSE "ok"
          /\ UNCHANGED <<src, cut, i>>

\* relays[i] is taken before anything compares i with MAX_RELAYS.
ReadRelayId ==
    /\ phase = "id"
    /\ \/ ~CanRead(buf, index, 8) /\ Fail
       \/ /\ CanRead(buf, index, 8)
          /\ out' = [out EXCEPT !.relays = Store(out.relays, "id", FromLE(Bytes(buf, index, 8)))]
          /\ index' = index + 8
          /\ phase' = "address"
          /\ UNCHANGED <<src, cut, i>>

\* A mutant of the address read that ignores a failed parse.
ReadRelayAddressNoParseCheck ==
    /\ phase = "address"
    /\ \/ ~CanReadString(buf, index) /\ Fail
       \/ /\ CanReadString(buf, index)
          /\ out' = [out EXCEPT !.relays =
                       Store(out.relays, "address",
                             IF \E a \in Addrs : AddrText[a] = StringAt(buf, index)
                             THEN CHOOSE a \in Addrs : AddrText[a] = StringAt(buf, index)
                             ELSE NoAddr)]
          /\ index' = index + 4 + Len(StringAt(buf, index))
          /\ i' = i + 1
          /\ phase' = IF i + 1 < out.num_relays THEN "id" ELSE "ok"
          /\ UNCHANGED <<src, cut>>

ReadRelayAddress ==
    /\ phase = "address"
    /\ \/ ~CanReadString(buf, index) /\ Fail
       \/ /\ CanReadString(buf, index)
          /\ StringAt(buf, index) \notin ValidTexts
          /\ Fail
       \/ /\ CanReadString(buf, index)
          /\ \E a \in Addrs :
                /\ AddrText[a] = StringAt(buf, index)
                /\ out' = [out EXCEPT !.relays = Store(out.relays, "address", a)]
          /\ index' = index + 4 + Len(StringAt(buf, index))
          /\ i' = i + 1
          /\ phase' = IF i + 1 < out.num_relays THEN "id" ELSE "ok"
          /\ UNCHANGED <<src, cut>>

Next ==
    \/ ReadVersion
    \/ ReadTimestamp
    \/ ReadNumRelays
    \/ ReadRelayId
    \/ ReadRelayAddress

Spec == Init /\ [][Next]_vars

-----------------------------------------------------------------------------

\* The parse state is well formed and never reads past the body.
TypeOK ==
    /\ src \in Replies
    /\ cut \in 0..Len(Wire(src)) + 1
    /\ index \in 0..cut
    /\ i \in 0..MaxListed
    /\ phase \in {"version", "timestamp", "count", "id", "address", "ok", "fail"}
    /\ out \in Response

\* UpdateResponse::from accepts a body exactly when it holds a whole encoding
\* whose every address parses, and then (for a reply within capacity) the
\* object it fills is the reply the backend encoded: decode(encode(v)) = v.
DecodeAcceptsExactlyEncodings ==
    /\ phase \in {"ok", "fail"} =>
         (phase = "ok" <=> /\ cut >= Len(Wire(src))
                           /\ \A k \in 1..Len(src.entries) : src.entries[k].text \in ValidTexts)
    /\ phase = "ok" /\ Len(src.entries) <= MAX_RELAYS => Listing(out) = src

\* UpdateResponse::size of a parsed response is the number of bytes from()
\* consumed for it, the stray trailing byte excluded.
SizeCountsConsumedBytes ==
    phase = "ok" /\ out.num_relays <= MAX_RELAYS => Size(out) = index

\* Every relays[i] that from() writes is inside the array (the reply's relay
\* count is only compared with MAX_RELAYS after from() returns).
WritesWithinArray ==
    phase \in {"id", "address"} => i < MAX_RELAYS

=============================================================================
