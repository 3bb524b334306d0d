-------------------------------- MODULE Wire --------------------------------
(***************************************************************************)
(* The frames of the pubsub protocol as bytes (internal/wire), with the    *)
(* variable-length integers of quicvarint.                                 *)
(*                                                                         *)
(* A datagram is one encoded frame.  On a stream a frame has its length in *)
(* front, and nothing else marks where it starts.                          *)
(***************************************************************************)
EXTENDS Integers, Sequences

Byte == 0..255

KindPub == 1
KindSub == 2
KindUnsub == 3

Frame == [kind : Byte, topic : Seq(Byte), payload : Seq(Byte)]

\* The answer of a function that returns an error.
Invalid == [kind |-> 0, topic |-> <<>>, payload |-> <<>>]

-----------------------------------------------------------------------------
(* Variable-length integers: the top two bits of the first byte choose one *)
(* of four lengths.  The integers of the model end at Huge: no frame is as *)
(* long, and a longer claim is as good as Huge.                            *)

Huge == 1073741824

Append1(n) == <<n>>
Append2(n) == <<64 + n \div 256, n % 256>>
Append4(n) == <<128 + n \div 16777216, (n \div 65536) % 256, (n \div 256) % 256, n % 256>>

varint(n) ==
  IF n < 64 THEN Append1(n) ELSE IF n < 16384 THEN Append2(n) ELSE Append4(n)

\* Bytes of the integer that starts with the byte b.
varintLen(b) ==
  CASE b < 64 -> 1
    [] b \in 64..127 -> 2
    [] b \in 128..191 -> 4
    [] OTHER -> 8

Value4(a, s) == (a % 64) * 16777216 + s[2] * 65536 + s[3] * 256 + s[4]

\* The integer at the start of s, when all of its bytes are there.
parseVarint(s) ==
  CASE varintLen(s[1]) = 1 -> s[1]
    [] varintLen(s[1]) = 2 -> (s[1] % 64) * 256 + s[2]
    [] varintLen(s[1]) = 4 -> Value4(s[1], s)
    [] OTHER -> IF Value4(s[1], s) = 0 /\ s[5] < 64
                THEN Value4(s[5], SubSeq(s, 5, 8))
                ELSE Huge

hasVarint(s) == Len(s) > 0 /\ Len(s) >= varintLen(s[1])

-----------------------------------------------------------------------------
Encodable(f) == f.kind # 0 /\ f.topic # <<>>

Encode(f) == <<f.kind>> \o varint(Len(f.topic)) \o f.topic \o f.payload

Drop(s, n) == SubSeq(s, n + 1, Len(s))

\* start and end of the topic, when the bytes after the kind begin with its length.
Decode(data) ==
  IF Len(data) < 2 \/ data[1] = 0 \/ ~ hasVarint(Tail(data)) THEN Invalid
  ELSE LET topicLen == parseVarint(Tail(data))
           start == 1 + varintLen(data[2])
           end == start + topicLen
       IN IF end > Len(data) \/ topicLen = 0 THEN Invalid
          ELSE [kind |-> data[1], topic |-> SubSeq(data, start + 1, end),
                payload |-> Drop(data, end)]

\* What WriteStreamFrame writes: first the header, then the body.
header(f) == varint(Len(Encode(f)))
streamFrame(f) == header(f) \o Encode(f)

\* ReadStreamFrame on the bytes s: whether it returns, how much it takes, and its frame.
frameEnd(s) == varintLen(s[1]) + parseVarint(s)
hasFrame(s) == hasVarint(s) /\ Len(s) >= frameEnd(s)
readFrame(s) == Decode(SubSeq(s, varintLen(s[1]) + 1, frameEnd(s)))
=============================================================================
