-------------------------- MODULE MixedClientProofs --------------------------
(***************************************************************************)
(* The wire codec for frames of every length, and the control stream that  *)
(* the roles of a mixed client share.  First, that a frame comes back from *)
(* its bytes and that no part of one is taken for a frame; then, for every *)
(* window, payload and number of commands, that the server handles the     *)
(* frames that were written, whole and in order.                           *)
(***************************************************************************)
EXTENDS MixedClient, SequenceTheorems, TLAPS

-----------------------------------------------------------------------------
(* Variable-length integers and frames                                     *)

\* s begins with t.
StartsWith(s, t) == Len(t) <= Len(s) /\ \A i \in 1..Len(t) : s[i] = t[i]

\* The arithmetic of an integer in four bytes.
LEMMA Varint4 ==
  ASSUME NEW n \in Nat, n < Huge
  PROVE  /\ (n \div 16777216) * 16777216 + ((n \div 65536) % 256) * 65536
               + ((n \div 256) % 256) * 256 + (n % 256) = n
         /\ n \div 16777216 \in 0..63 /\ (n \div 65536) % 256 \in Byte
         /\ (n \div 256) % 256 \in Byte /\ n % 256 \in Byte
         /\ 128 + n \div 16777216 \in 128..191
         /\ (128 + n \div 16777216) % 64 = n \div 16777216
<1>1. (n \div 16777216) * 16777216 + ((n \div 65536) % 256) * 65536
               + ((n \div 256) % 256) * 256 + (n % 256) = n
  BY SMT DEF Huge
<1>2. n \div 16777216 \in 0..63 /\ 128 + n \div 16777216 \in 128..191
      /\ (128 + n \div 16777216) % 64 = n \div 16777216
  BY SMT DEF Huge
<1>3. (n \div 65536) % 256 \in Byte /\ (n \div 256) % 256 \in Byte /\ n % 256 \in Byte
  BY SMT DEF Byte
<1>4. QED
  BY <1>1, <1>2, <1>3, SMT

\* And of one in two bytes.
LEMMA Varint2 ==
  ASSUME NEW n \in Nat, n < 16384
  PROVE  /\ (n \div 256) * 256 + (n % 256) = n /\ n % 256 \in Byte
         /\ 64 + n \div 256 \in 64..127 /\ (64 + n \div 256) % 64 = n \div 256
<1>1. (n \div 256) * 256 + (n % 256) = n /\ n % 256 \in Byte
  BY SMT DEF Byte
<1>2. 64 + n \div 256 \in 64..127 /\ (64 + n \div 256) % 64 = n \div 256
  BY SMT
<1>3. QED
  BY <1>1, <1>2, SMT

\* The top two bits of the first byte give the length.
LEMMA VarintLens ==
  /\ \A b \in 0..63 : varintLen(b) = 1
  /\ \A b \in 64..127 : varintLen(b) = 2
  /\ \A b \in 128..191 : varintLen(b) = 4
BY SMT DEF varintLen

\* What varint writes, and that its first byte says how long it is.
LEMMA VarintForm ==
  ASSUME NEW n \in Nat, n < Huge
  PROVE  /\ varint(n) \in Seq(Byte) /\ Len(varint(n)) \in {1, 2, 4}
         /\ varintLen(varint(n)[1]) = Len(varint(n))
<1>1. CASE n < 64
  <2>1. varint(n) = <<n>> /\ n \in 0..63 /\ n \in Byte
    BY <1>1, SMT DEF varint, Append1, Byte
  <2>2. QED
    BY <2>1, VarintLens, SMT
<1>2. CASE ~(n < 64) /\ n < 16384
  <2>1. varint(n) = <<64 + n \div 256, n % 256>>
    BY <1>2, SMT DEF varint, Append2
  <2>2. 64 + n \div 256 \in 64..127 /\ 64 + n \div 256 \in Byte /\ n % 256 \in Byte
    BY <1>2, Varint2, SMT DEF Byte
  <2>3. QED
    BY <2>1, <2>2, VarintLens, SMT
<1>3. CASE ~(n < 64) /\ ~(n < 16384)
  <2>1. varint(n) = <<128 + n \div 16777216, (n \div 65536) % 256, (n \div 256) % 256, n % 256>>
    BY <1>3, SMT DEF varint, Append4
  <2>2. 128 + n \div 16777216 \in 128..191 /\ 128 + n \div 16777216 \in Byte
    BY Varint4, SMT DEF Byte
  <2>3. (n \div 65536) % 256 \in Byte /\ (n \div 256) % 256 \in Byte /\ n % 256 \in Byte
    BY Varint4
  <2>4. QED
    BY <2>1, <2>2, <2>3, VarintLens, SMT
<1>4. QED
  BY <1>1, <1>2, <1>3, SMT

\* parseVarint reads back what varint wrote, whatever follows.
LEMMA VarintRead ==
  ASSUME NEW n \in Nat, n < Huge, NEW s \in Seq(Byte), StartsWith(s, varint(n))
  PROVE  /\ hasVarint(s) /\ varintLen(s[1]) = Len(varint(n)) /\ parseVarint(s) = n
<1>0. Len(s) \in Nat
  OBVIOUS
<1>1. CASE n < 64
  <2>1. varint(n) = <<n>> /\ n \in 0..63
    BY <1>1, SMT DEF varint, Append1, Byte
  <2>2. Len(varint(n)) = 1 /\ s[1] = n /\ Len(s) >= 1
    BY <2>1, SMT DEF StartsWith
  <2>3. varintLen(s[1]) = 1
    BY <2>1, <2>2, VarintLens, Zenon
  <2>4. QED
    BY <2>2, <2>3, <1>0, SMT DEF hasVarint, parseVarint
<1>2. CASE ~(n < 64) /\ n < 16384
  <2>1. varint(n) = <<64 + n \div 256, n % 256>>
    BY <1>2, SMT DEF varint, Append2
  <2>2. Len(varint(n)) = 2 /\ s[1] = 64 + n \div 256 /\ s[2] = n % 256 /\ Len(s) >= 2
    BY <2>1, SMT DEF StartsWith
  <2>3. s[1] \in 64..127 /\ (s[1] % 64) * 256 + s[2] = n
    BY <1>2, <2>2, Varint2, SMT
  <2>4. varintLen(s[1]) = 2
    BY <2>3, VarintLens, Zenon
  <2>5. QED
    BY <2>2, <2>3, <2>4, <1>0, SMTT(30) DEF hasVarint, parseVarint
<1>3. CASE ~(n < 64) /\ ~(n < 16384)
  <2>1. varint(n) = <<128 + n \div 16777216, (n \div 65536) % 256, (n \div 256) % 256, n % 256>>
    BY <1>3, SMT DEF varint, Append4
  <2>2. /\ Len(varint(n)) = 4 /\ s[1] = 128 + n \div 16777216 /\ s[2] = (n \div 65536) % 256
        /\ s[3] = (n \div 256) % 256 /\ s[4] = n % 256 /\ Len(s) >= 4
    BY <2>1, SMT DEF StartsWith
  <2>3. s[1] \in 128..191 /\ Value4(s[1], s) = n
    <3>1. s[1] \in 128..191 /\ s[1] % 64 = n \div 16777216
      BY <2>2, Varint4, SMT
    <3>2. (n \div 16777216) * 16777216 + s[2] * 65536 + s[3] * 256 + s[4] = n
      BY <2>2, Varint4, SMT
    <3>3. QED
      BY <3>1, <3>2, SMT DEF Value4
  <2>4. varintLen(s[1]) = 4
    BY <2>3, VarintLens, Zenon
  <2>5. QED
    BY <2>2, <2>3, <2>4, <1>0, SMT DEF hasVarint, parseVarint
<1>4. QED
  BY <1>1, <1>2, <1>3, SMT

\* u is s followed by t, all of bytes.
IsConcat(u, s, t) ==
  /\ u \in Seq(Byte) /\ Len(u) = Len(s) + Len(t)
  /\ \A i \in 1..Len(s) : u[i] = s[i]
  /\ \A i \in 1..Len(t) : u[Len(s) + i] = t[i]

LEMMA ConcatParts ==
  ASSUME NEW s \in Seq(Byte), NEW t \in Seq(Byte)
  PROVE  IsConcat(s \o t, s, t)
<1>1. Len(s) \in Nat /\ Len(t) \in Nat
  OBVIOUS
<1>2. /\ s \o t \in Seq(Byte) /\ Len(s \o t) = Len(s) + Len(t)
      /\ \A i \in 1 .. Len(s) + Len(t) : (s \o t)[i] = IF i <= Len(s) THEN s[i] ELSE t[i - Len(s)]
  BY ConcatProperties
<1>3. ASSUME NEW i \in 1..Len(s) PROVE (s \o t)[i] = s[i]
  <2>1. i \in 1 .. Len(s) + Len(t) /\ i <= Len(s)
    BY <1>1
  <2>2. QED
    BY <1>2, <2>1
<1>4. ASSUME NEW i \in 1..Len(t) PROVE (s \o t)[Len(s) + i] = t[i]
  <2>1. Len(s) + i \in 1 .. Len(s) + Len(t) /\ ~(Len(s) + i <= Len(s)) /\ (Len(s) + i) - Len(s) = i
    BY <1>1
  <2>2. (s \o t)[Len(s) + i] = t[(Len(s) + i) - Len(s)]
    BY <1>2, <2>1
  <2>3. QED
    BY <2>1, <2>2
<1>5. QED
  BY <1>2, <1>3, <1>4 DEF IsConcat

\* The part of s after m elements that is the same as t.
LEMMA SubSeqIs ==
  ASSUME NEW S, NEW s \in Seq(S), NEW t \in Seq(S), NEW m \in Nat, m + Len(t) <= Len(s),
         \A i \in 1..Len(t) : s[m + i] = t[i]
  PROVE  SubSeq(s, m + 1, m + Len(t)) = t
<1>1. Len(s) \in Nat /\ Len(t) \in Nat
  OBVIOUS
<1>2. ASSUME NEW i \in (m + 1)..(m + Len(t)) PROVE s[i] \in S
  <2>1. i \in 1..Len(s)
    BY <1>1
  <2>2. QED
    BY <2>1, ElementOfSeq
<1> PICK u, n : u = SubSeq(s, m + 1, m + Len(t)) /\ n = m + Len(t)
  OBVIOUS
<1>3. /\ u \in Seq(S) /\ Len(u) = IF m + 1 <= n THEN n - (m + 1) + 1 ELSE 0
      /\ \A i \in 1 .. n - (m + 1) + 1 : u[i] = s[(m + 1) + i - 1]
  <2>1. m + 1 \in Int /\ n \in Int /\ u = SubSeq(s, m + 1, n)
    BY <1>1
  <2>2. \A i \in (m + 1)..n : s[i] \in S
    BY <1>2
  <2>3. QED
    BY <2>1, <2>2, SubSeqProperties
<1>4. n - (m + 1) + 1 = Len(t) /\ Len(u) = Len(t)
  BY <1>1, <1>3
<1>5. ASSUME NEW i \in 1..Len(t) PROVE u[i] = t[i]
  <2>1. (m + 1) + i - 1 = m + i
    BY <1>1
  <2>2. u[i] = s[(m + 1) + i - 1]
    BY <1>3, <1>4
  <2>3. QED
    BY <2>1, <2>2
<1>6. u = t
  BY <1>3, <1>4, <1>5, SeqEqual
<1>7. QED
  BY <1>6

\* A frame that Encode accepts.  Its lengths are below Huge, where the integers of the
\* model end.
Short(f) == f \in Frame /\ Encodable(f) /\ Len(f.topic) < Huge /\ Len(Encode(f)) < Huge

\* e is the frame f with v for the length of its topic.
IsEncoded(e, f, v) ==
  /\ e \in Seq(Byte) /\ e[1] = f.kind
  /\ Len(e) = 1 + Len(v) + Len(f.topic) + Len(f.payload)
  /\ \A i \in 1..Len(v) : e[1 + i] = v[i]
  /\ \A i \in 1..Len(f.topic) : e[(1 + Len(v)) + i] = f.topic[i]
  /\ \A i \in 1..Len(f.payload) : e[(1 + Len(v) + Len(f.topic)) + i] = f.payload[i]

\* The parts of such a frame.
LEMMA ShortFrame ==
  ASSUME NEW f, Short(f)
  PROVE  /\ f.kind \in Byte /\ f.topic \in Seq(Byte) /\ f.payload \in Seq(Byte)
         /\ Len(f.topic) \in Nat /\ Len(f.payload) \in Nat
         /\ f.kind # 0 /\ Len(f.topic) > 0 /\ Len(f.topic) < Huge
         /\ f = [kind |-> f.kind, topic |-> f.topic, payload |-> f.payload]
BY DEF Short, Frame, Encodable

\* What Encode writes.
LEMMA EncodeForm ==
  ASSUME NEW f, Short(f)
  PROVE  IsEncoded(Encode(f), f, varint(Len(f.topic)))
<1>k. PICK k, v, t, p : k = <<f.kind>> /\ v = varint(Len(f.topic)) /\ t = f.topic /\ p = f.payload
  OBVIOUS
<1>1. /\ f.kind \in Byte /\ t \in Seq(Byte) /\ p \in Seq(Byte)
      /\ Len(t) \in Nat /\ Len(p) \in Nat
  BY <1>k, ShortFrame
<1>2. v \in Seq(Byte) /\ Len(v) \in Nat
  BY <1>k, ShortFrame, VarintForm
<1>3. k \in Seq(Byte) /\ Len(k) = 1 /\ k[1] = f.kind
  BY <1>1, <1>k
<1>a. PICK a : a = k \o v
  OBVIOUS
<1>4. /\ a \in Seq(Byte) /\ Len(a) = Len(k) + Len(v)
      /\ \A i \in 1..Len(k) : a[i] = k[i]
      /\ \A i \in 1..Len(v) : a[Len(k) + i] = v[i]
  <2>1. IsConcat(k \o v, k, v)
    BY <1>2, <1>3, ConcatParts
  <2>2. IsConcat(a, k, v)
    BY <1>a, <2>1, Zenon
  <2>3. QED
    BY <2>2 DEF IsConcat
<1>b. PICK b : b = a \o t
  OBVIOUS
<1>5. /\ b \in Seq(Byte) /\ Len(b) = Len(a) + Len(t)
      /\ \A i \in 1..Len(a) : b[i] = a[i]
      /\ \A i \in 1..Len(t) : b[Len(a) + i] = t[i]
  <2>1. IsConcat(a \o t, a, t)
    BY <1>1, <1>4, ConcatParts
  <2>2. IsConcat(b, a, t)
    BY <1>b, <2>1, Zenon
  <2>3. QED
    BY <2>2 DEF IsConcat
<1>e. PICK e : e = b \o p
  OBVIOUS
<1>6. /\ e \in Seq(Byte) /\ Len(e) = Len(b) + Len(p)
      /\ \A i \in 1..Len(b) : e[i] = b[i]
      /\ \A i \in 1..Len(p) : e[Len(b) + i] = p[i]
  <2>1. IsConcat(b \o p, b, p)
    BY <1>1, <1>5, ConcatParts
  <2>2. IsConcat(e, b, p)
    BY <1>e, <2>1, Zenon
  <2>3. QED
    BY <2>2 DEF IsConcat
<1>7. Encode(f) = e
  BY <1>k, <1>a, <1>b, <1>e DEF Encode
<1>8. Len(a) = 1 + Len(v) /\ Len(b) = 1 + Len(v) + Len(t)
  BY <1>3, <1>4, <1>5
<1>9. ASSUME NEW i \in 1..Len(a) PROVE e[i] = a[i]
  <2>1. i \in 1..Len(b)
    BY <1>1, <1>2, <1>8
  <2>2. QED
    BY <1>5, <1>6, <2>1
<1>10. e[1] = f.kind
  <2>1. 1 \in 1..Len(a) /\ 1 \in 1..Len(k)
    BY <1>2, <1>3, <1>8
  <2>2. QED
    BY <1>3, <1>4, <1>9, <2>1
<1>11. ASSUME NEW i \in 1..Len(v) PROVE e[1 + i] = v[i]
  <2>1. 1 + i \in 1..Len(a)
    BY <1>2, <1>8
  <2>2. e[1 + i] = a[1 + i] /\ a[1 + i] = v[i]
    BY <1>3, <1>4, <1>9, <2>1
  <2>3. QED
    BY <2>2
<1>12. ASSUME NEW i \in 1..Len(t) PROVE e[(1 + Len(v)) + i] = t[i]
  <2>1. Len(a) + i \in 1..Len(b)
    BY <1>1, <1>2, <1>8
  <2>2. e[Len(a) + i] = b[Len(a) + i]
    BY <1>6, <2>1, Zenon
  <2>3. b[Len(a) + i] = t[i]
    BY <1>5, Zenon
  <2>4. QED
    BY <1>8, <2>2, <2>3
<1>13. ASSUME NEW i \in 1..Len(p) PROVE e[(1 + Len(v) + Len(t)) + i] = p[i]
  BY <1>6, <1>8
<1>14. Len(e) = 1 + Len(v) + Len(t) + Len(p)
  BY <1>6, <1>8
<1>15. QED
  BY <1>k, <1>6, <1>7, <1>10, <1>11, <1>12, <1>13, <1>14 DEF IsEncoded

\* Decode takes every frame back out of the bytes that Encode made of it, with
\* topic and payload of any length.
THEOREM FrameRoundTrip ==
  ASSUME NEW f, Short(f)
  PROVE  Decode(Encode(f)) = f
<1>v. PICK v, e, t, p, m :
        /\ v = varint(Len(f.topic)) /\ e = Encode(f) /\ t = f.topic /\ p = f.payload
        /\ m = 1 + Len(v)
  OBVIOUS
<1>1. /\ t \in Seq(Byte) /\ p \in Seq(Byte) /\ Len(t) \in Nat /\ Len(p) \in Nat
      /\ f.kind # 0 /\ Len(t) > 0 /\ Len(t) < Huge
      /\ f = [kind |-> f.kind, topic |-> t, payload |-> p]
  BY <1>v, ShortFrame
<1>2. v \in Seq(Byte) /\ Len(v) \in {1, 2, 4} /\ m \in Nat /\ m = 1 + Len(v)
  BY <1>v, <1>1, VarintForm
<1>3. IsEncoded(e, f, v)
  BY <1>v, EncodeForm
<1>4. /\ e \in Seq(Byte) /\ e[1] = f.kind /\ Len(e) = m + Len(t) + Len(p)
      /\ \A i \in 1..Len(v) : e[1 + i] = v[i]
      /\ \A i \in 1..Len(t) : e[m + i] = t[i]
      /\ \A i \in 1..Len(p) : e[(m + Len(t)) + i] = p[i]
  BY <1>v, <1>3 DEF IsEncoded
<1>5. Len(e) \in Nat /\ Len(e) >= 2 /\ Len(e) - 1 >= Len(v)
  BY <1>1, <1>2, <1>4
<1>6. /\ Tail(e) \in Seq(Byte) /\ Len(Tail(e)) = Len(e) - 1
      /\ \A i \in 1..(Len(e) - 1) : Tail(e)[i] = e[i + 1]
  <2>1. e # <<>>
    BY <1>5
  <2>2. QED
    BY <1>4, <2>1, HeadTailProperties
<1>7. StartsWith(Tail(e), v)
  <2>1. ASSUME NEW i \in 1..Len(v) PROVE Tail(e)[i] = v[i]
    <3>1. i \in 1..(Len(e) - 1) /\ i + 1 = 1 + i
      BY <1>2, <1>5
    <3>2. QED
      BY <1>4, <1>6, <3>1
  <2>2. QED
    BY <1>5, <1>6, <2>1 DEF StartsWith
<1>8. hasVarint(Tail(e)) /\ varintLen(Tail(e)[1]) = Len(v) /\ parseVarint(Tail(e)) = Len(t)
  BY <1>v, <1>1, <1>6, <1>7, VarintRead, Zenon
<1>9. Tail(e)[1] = e[2]
  BY <1>5, <1>6
<1>10. SubSeq(e, m + 1, m + Len(t)) = t
  <2>1. m + Len(t) <= Len(e)
    BY <1>1, <1>2, <1>4
  <2>2. QED
    BY <1>1, <1>2, <1>4, <2>1, SubSeqIs
<1>11. Drop(e, m + Len(t)) = p
  <2>n. PICK n : n = m + Len(t)
    OBVIOUS
  <2>1. n \in Nat /\ n + Len(p) <= Len(e) /\ n + Len(p) = Len(e)
    BY <1>1, <1>2, <1>4, <2>n
  <2>2. \A i \in 1..Len(p) : e[n + i] = p[i]
    BY <1>4, <2>n
  <2>3. SubSeq(e, n + 1, n + Len(p)) = p
    BY <1>1, <1>4, <2>1, <2>2, SubSeqIs
  <2>4. QED
    BY <2>n, <2>1, <2>3 DEF Drop
<1>12. Decode(e) = [kind |-> f.kind, topic |-> t, payload |-> p]
  <2>1. ~(Len(e) < 2 \/ e[1] = 0 \/ ~ hasVarint(Tail(e)))
    BY <1>1, <1>4, <1>5, <1>8
  <2>2. ~(m + Len(t) > Len(e) \/ Len(t) = 0)
    BY <1>1, <1>2, <1>4
  <2>3. 1 + varintLen(e[2]) = m
    BY <1>2, <1>8, <1>9
  <2>4. QED
    BY <1>4, <1>8, <1>10, <1>11, <2>1, <2>2, <2>3 DEF Decode
<1>13. QED
  BY <1>v, <1>1, <1>12

\* w is the frame f with its length in front, in the form h.
IsStreamFrame(w, f, h) ==
  /\ h = varint(Len(Encode(f)))
  /\ h \in Seq(Byte) /\ Len(h) \in {1, 2, 4} /\ varintLen(h[1]) = Len(h)
  /\ Encode(f) \in Seq(Byte) /\ Len(Encode(f)) \in Nat
  /\ Len(Encode(f)) > 0 /\ Len(Encode(f)) < Huge
  /\ w \in Seq(Byte) /\ Len(w) = Len(h) + Len(Encode(f))
  /\ \A i \in 1..Len(h) : w[i] = h[i]
  /\ \A i \in 1..Len(Encode(f)) : w[Len(h) + i] = Encode(f)[i]

\* What WriteStreamFrame writes.
LEMMA StreamFrameForm ==
  ASSUME NEW f, Short(f)
  PROVE  IsStreamFrame(streamFrame(f), f, header(f))
<1>e. PICK e, v, h : e = Encode(f) /\ v = varint(Len(f.topic)) /\ h = header(f)
  OBVIOUS
<1>1. IsEncoded(e, f, v)
  BY <1>e, EncodeForm
<1>2. /\ e \in Seq(Byte) /\ Len(e) = 1 + Len(v) + Len(f.topic) + Len(f.payload)
      /\ Len(e) \in Nat /\ Len(e) < Huge
  <2>1. e \in Seq(Byte) /\ Len(e) = 1 + Len(v) + Len(f.topic) + Len(f.payload)
    BY <1>1 DEF IsEncoded
  <2>0. e \in Seq(Byte)
    BY <2>1
  <2>2. Len(e) \in Nat
    BY <2>0, LenProperties
  <2>3. Len(e) < Huge
    BY <1>e DEF Short
  <2>4. QED
    BY <2>1, <2>2, <2>3
<1>3. Len(e) > 0
  <2>1. Len(f.topic) \in Nat /\ Len(f.payload) \in Nat /\ Len(f.topic) < Huge
    BY ShortFrame
  <2>2. Len(v) \in Nat
    BY <1>e, <2>1, VarintForm
  <2>n. \A x, y, z \in Nat : 1 + x + y + z > 0
    OBVIOUS
  <2>3. 1 + Len(v) + Len(f.topic) + Len(f.payload) > 0
    BY <2>1, <2>2, <2>n, Zenon
  <2>4. QED
    BY <1>2, <2>3
<1>4. h = varint(Len(e)) /\ streamFrame(f) = h \o e
  BY <1>e DEF header, streamFrame
<1>5. h \in Seq(Byte) /\ Len(h) \in {1, 2, 4} /\ varintLen(h[1]) = Len(h)
  BY <1>2, <1>4, VarintForm
<1>6. /\ h \o e \in Seq(Byte) /\ Len(h \o e) = Len(h) + Len(e)
      /\ \A i \in 1..Len(h) : (h \o e)[i] = h[i]
      /\ \A i \in 1..Len(e) : (h \o e)[Len(h) + i] = e[i]
  <2>1. IsConcat(h \o e, h, e)
    BY <1>2, <1>5, ConcatParts
  <2>2. QED
    BY <2>1 DEF IsConcat
<1>7. QED
  BY <1>e, <1>2, <1>3, <1>4, <1>5, <1>6 DEF IsStreamFrame

\* ReadStreamFrame takes the frame at the head of the stream, and no more.
LEMMA ReadsFrame ==
  ASSUME NEW f, Short(f), NEW s \in Seq(Byte), StartsWith(s, streamFrame(f))
  PROVE  hasFrame(s) /\ frameEnd(s) = Len(streamFrame(f)) /\ readFrame(s) = f
<1>h. PICK h, e, w : h = header(f) /\ e = Encode(f) /\ w = streamFrame(f)
  OBVIOUS
<1>1. IsStreamFrame(w, f, h)
  BY <1>h, StreamFrameForm
<1>2. /\ h = varint(Len(e)) /\ h \in Seq(Byte) /\ Len(h) \in {1, 2, 4}
      /\ e \in Seq(Byte) /\ Len(e) \in Nat /\ Len(e) > 0 /\ Len(e) < Huge
      /\ Len(w) = Len(h) + Len(e)
      /\ \A i \in 1..Len(h) : w[i] = h[i]
      /\ \A i \in 1..Len(e) : w[Len(h) + i] = e[i]
  BY <1>h, <1>1 DEF IsStreamFrame
<1>3. Len(s) \in Nat /\ Len(h) + Len(e) <= Len(s) /\ \A i \in 1..Len(w) : s[i] = w[i]
  BY <1>h, <1>2 DEF StartsWith
<1>4. ASSUME NEW i \in 1..Len(h) PROVE s[i] = h[i]
  <2>1. i \in 1..Len(w)
    BY <1>2
  <2>2. QED
    BY <1>2, <1>3, <2>1
<1>5. ASSUME NEW i \in 1..Len(e) PROVE s[Len(h) + i] = e[i]
  <2>1. Len(h) + i \in 1..Len(w)
    BY <1>2
  <2>2. QED
    BY <1>2, <1>3, <2>1
<1>6. StartsWith(s, h)
  BY <1>2, <1>3, <1>4 DEF StartsWith
<1>7. hasVarint(s) /\ varintLen(s[1]) = Len(h) /\ parseVarint(s) = Len(e)
  BY <1>2, <1>6, VarintRead
<1>8. hasFrame(s) /\ frameEnd(s) = Len(h) + Len(e)
  BY <1>2, <1>3, <1>7 DEF hasFrame, frameEnd
<1>9. SubSeq(s, Len(h) + 1, Len(h) + Len(e)) = e
  BY <1>2, <1>3, <1>5, SubSeqIs
<1>10. readFrame(s) = Decode(e)
  BY <1>7, <1>8, <1>9 DEF readFrame
<1>11. QED
  BY <1>h, <1>2, <1>8, <1>10, FrameRoundTrip

\* No part of a frame is taken for a frame.
LEMMA NoShorterFrame ==
  ASSUME NEW f, Short(f), NEW s \in Seq(Byte), Len(s) < Len(streamFrame(f)),
         \A i \in 1..Len(s) : s[i] = streamFrame(f)[i]
  PROVE  ~hasFrame(s)
<1>h. PICK h, e, w : h = header(f) /\ e = Encode(f) /\ w = streamFrame(f)
  OBVIOUS
<1>1. IsStreamFrame(w, f, h)
  BY <1>h, StreamFrameForm
<1>2. /\ h = varint(Len(e)) /\ h \in Seq(Byte) /\ Len(h) \in {1, 2, 4} /\ varintLen(h[1]) = Len(h)
      /\ Len(e) \in Nat /\ Len(e) < Huge /\ Len(w) = Len(h) + Len(e)
      /\ \A i \in 1..Len(h) : w[i] = h[i]
  BY <1>h, <1>1 DEF IsStreamFrame
<1>3. Len(s) \in Nat /\ Len(s) < Len(w) /\ \A i \in 1..Len(s) : s[i] = w[i]
  BY <1>h
<1>4. CASE Len(s) < Len(h)
  <2>1. CASE Len(s) = 0
    BY <2>1 DEF hasFrame, hasVarint
  <2>2. CASE Len(s) > 0
    <3>1. 1 \in 1..Len(s) /\ 1 \in 1..Len(h)
      BY <1>2, <1>3, <2>2
    <3>2. s[1] = h[1]
      BY <1>2, <1>3, <3>1
    <3>3. varintLen(s[1]) = Len(h)
      BY <1>2, <3>2
    <3>4. QED
      BY <1>2, <1>3, <1>4, <3>3 DEF hasFrame, hasVarint
  <2>3. QED
    BY <1>3, <2>1, <2>2
<1>5. CASE Len(h) <= Len(s)
  <2>1. ASSUME NEW i \in 1..Len(h) PROVE s[i] = h[i]
    <3>1. i \in 1..Len(s)
      BY <1>2, <1>3, <1>5
    <3>2. QED
      BY <1>2, <1>3, <3>1
  <2>2. StartsWith(s, h)
    BY <1>5, <2>1 DEF StartsWith
  <2>3. varintLen(s[1]) = Len(h) /\ parseVarint(s) = Len(e)
    BY <1>2, <2>2, VarintRead
  <2>4. frameEnd(s) = Len(w)
    BY <1>2, <2>3 DEF frameEnd
  <2>5. QED
    BY <1>2, <1>3, <2>4 DEF hasFrame
<1>6. QED
  BY <1>2, <1>3, <1>4, <1>5

\* ReadStreamFrame finds its place again for every frame and whatever follows it: it
\* returns the frame at the head of the stream, takes its bytes and no others, and waits
\* as long as any of them is missing.
THEOREM FramingIsUnambiguous ==
  ASSUME NEW f, Short(f), NEW s \in Seq(Byte)
  PROVE  /\ StartsWith(s, streamFrame(f)) =>
              hasFrame(s) /\ frameEnd(s) = Len(streamFrame(f)) /\ readFrame(s) = f
         /\ Len(s) < Len(streamFrame(f)) /\ (\A i \in 1..Len(s) : s[i] = streamFrame(f)[i]) =>
              ~hasFrame(s)
BY ReadsFrame, NoShorterFrame

-----------------------------------------------------------------------------
(* The frames of this client                                               *)

\* What is known of the bytes of a frame of this client.
IsFrameBytes(w) ==
  /\ w \in Seq(Byte) /\ Len(w) \in Nat /\ 0 < Len(w) /\ Len(w) <= Window
  /\ varintLen(w[1]) \in Nat /\ 0 < varintLen(w[1]) /\ varintLen(w[1]) < Len(w)

\* The frames of this client are frames,
LEMMA FrameTypes == \A f \in Frames : f \in Frame
<1>1. ASSUME NEW i \in 1..Len(Topics) PROVE SubFrame(i) \in Frame
  <2>1. Telemetry \in Seq(Byte) /\ Command \in Seq(Byte) /\ KindSub \in Byte
    BY SMT DEF Telemetry, Command, KindSub, Byte
  <2>2. Topics \in Seq(Seq(Byte))
    BY <2>1 DEF Topics
  <2>3. Topics[i] \in Seq(Byte) /\ <<>> \in Seq(Byte)
    BY <2>2, ElementOfSeq, EmptySeq
  <2>4. QED
    BY <2>1, <2>3 DEF SubFrame, Frame
<1>2. ASSUME NEW i \in 1..MaxCommands PROVE PubFrame(i) \in Frame
  <2>1. i \in Byte
    BY Parameters, SMT DEF Byte
  <2>2. [n \in 1..PayloadLen |-> i] \in Seq(Byte)
    BY <2>1, Parameters, SMT
  <2>3. Command \in Seq(Byte) /\ KindPub \in Byte
    BY SMT DEF Command, KindPub, Byte
  <2>4. QED
    BY <2>2, <2>3 DEF PubFrame, Frame
<1>3. QED
  BY <1>1, <1>2 DEF Frames

\* with topics of one byte,
LEMMA TopicLen == \A f \in Frames : Len(f.topic) = 1
BY SMT DEF Frames, SubFrame, PubFrame, Topics, Telemetry, Command

\* which the codec takes.
LEMMA FramesShort == \A f \in Frames : Short(f)
<1> SUFFICES ASSUME NEW f \in Frames PROVE Short(f)
  OBVIOUS
<1>1. Encodable(f) /\ Len(Encode(f)) < Huge
  BY Parameters, Zenon
<1>2. Len(f.topic) < Huge
  <2>1. 1 < Huge
    BY SMT DEF Huge
  <2>2. QED
    BY <2>1, TopicLen, Zenon
<1>3. QED
  BY <1>1, <1>2, FrameTypes DEF Short

LEMMA FrameBytes == \A f \in Frames : IsFrameBytes(streamFrame(f))
<1> SUFFICES ASSUME NEW f \in Frames PROVE IsFrameBytes(streamFrame(f))
  OBVIOUS
<1>w. PICK w, h, e : w = streamFrame(f) /\ h = header(f) /\ e = Encode(f)
  OBVIOUS
<1>1. IsStreamFrame(w, f, h)
  BY <1>w, FramesShort, StreamFrameForm
<1>2. /\ Len(h) \in {1, 2, 4} /\ varintLen(h[1]) = Len(h)
      /\ Len(e) \in Nat /\ Len(e) > 0
      /\ w \in Seq(Byte) /\ Len(w) = Len(h) + Len(e)
      /\ \A i \in 1..Len(h) : w[i] = h[i]
  BY <1>1, <1>w DEF IsStreamFrame
<1>3. w[1] = h[1]
  <2>1. 1 \in 1..Len(h)
    BY <1>2
  <2>2. QED
    BY <1>2, <2>1
<1>4. Len(w) <= Window
  BY <1>w, Parameters, Zenon
<1>5. varintLen(w[1]) = Len(h)
  BY <1>2, <1>3
<1>6. Len(w) \in Nat /\ 0 < Len(w) /\ Len(h) \in Nat /\ 0 < Len(h) /\ Len(h) < Len(w)
  BY <1>2
<1>7. IsFrameBytes(w)
  BY <1>2, <1>4, <1>5, <1>6 DEF IsFrameBytes
<1>8. QED
  BY <1>7, <1>w

-----------------------------------------------------------------------------
(* The bytes in the control stream                                         *)

\* off[i] is where the i-th of the frames fs ends in the stream, of which the
\* first h frames were read and the bytes s are there unread.
Layout(off, fs, h, s) ==
  /\ off \in [0..Len(fs) -> Nat] /\ h \in 0..Len(fs)
  /\ \A i \in 1..Len(fs) : off[i] = off[i - 1] + Len(streamFrame(fs[i]))
  /\ \A i, j \in 0..Len(fs) : i <= j => off[i] <= off[j]
  /\ s \in Seq(Byte) /\ off[h] + Len(s) <= off[Len(fs)]
  /\ \A i \in 1..Len(fs) : \A j \in 1..Len(streamFrame(fs[i])) :
       i > h /\ off[i - 1] + j <= off[h] + Len(s) =>
         s[(off[i - 1] - off[h]) + j] = streamFrame(fs[i])[j]

\* A reader that finds a frame finds the next one of fs, whole.
LEMMA LayoutRead ==
  ASSUME NEW fs \in Seq(Frames), NEW off, NEW h, NEW s, Layout(off, fs, h, s), hasFrame(s)
  PROVE  /\ h + 1 \in 1..Len(fs) /\ readFrame(s) = fs[h + 1]
         /\ frameEnd(s) = Len(streamFrame(fs[h + 1]))
         /\ Layout(off, fs, h + 1, Drop(s, frameEnd(s)))
         /\ off[h + 1] + Len(Drop(s, frameEnd(s))) = off[h] + Len(s)
<1>n. PICK n : n = Len(fs)
  OBVIOUS
<1>1. /\ off \in [0..n -> Nat] /\ h \in 0..n /\ n \in Nat
      /\ \A i \in 1..n : off[i] = off[i - 1] + Len(streamFrame(fs[i]))
      /\ \A i, j \in 0..n : i <= j => off[i] <= off[j]
      /\ s \in Seq(Byte) /\ off[h] + Len(s) <= off[n]
  BY <1>n DEF Layout
<1>2. \A i \in 1..n : \A j \in 1..Len(streamFrame(fs[i])) :
       i > h /\ off[i - 1] + j <= off[h] + Len(s) =>
         s[(off[i - 1] - off[h]) + j] = streamFrame(fs[i])[j]
  BY <1>n DEF Layout
<1>3. Len(s) \in Nat /\ off[h] \in Nat
  BY <1>1
<1>4. Len(s) > 0
  BY DEF hasFrame, hasVarint
<1>5. h + 1 \in 1..n
  <2>1. h # n
    BY <1>1, <1>3, <1>4
  <2>2. QED
    BY <1>1, <2>1
<1>w. PICK f, w, k : f = fs[h + 1] /\ w = streamFrame(f) /\ k = Len(w)
  OBVIOUS
<1>6. f \in Frames /\ Short(f)
  BY <1>n, <1>w, <1>5, FramesShort
<1>7. w \in Seq(Byte) /\ k \in Nat /\ 0 < k
  BY <1>6, <1>w, FrameBytes DEF IsFrameBytes
<1>8. ASSUME NEW j \in 1..k, j <= Len(s) PROVE s[j] = w[j]
  <2>1. (h + 1) - 1 = h /\ off[h] + j <= off[h] + Len(s) /\ (off[h] - off[h]) + j = j /\ h + 1 > h
    BY <1>1, <1>3, <1>7, <1>8
  <2>2. s[(off[(h + 1) - 1] - off[h]) + j] = w[j]
    BY <1>2, <1>5, <1>w, <2>1
  <2>3. QED
    BY <2>1, <2>2
<1>9. k <= Len(s)
  <2>1. SUFFICES ASSUME Len(s) < k PROVE FALSE
    BY <1>3, <1>7
  <2>2. \A j \in 1..Len(s) : s[j] = w[j]
    <3>1. \A j \in 1..Len(s) : j \in 1..k /\ j <= Len(s)
      BY <1>3, <1>7, <2>1
    <3>2. QED
      BY <1>8, <3>1
  <2>3. ~hasFrame(s)
    BY <1>1, <1>6, <1>w, <2>1, <2>2, NoShorterFrame
  <2>4. QED
    BY <2>3
<1>10. hasFrame(s) /\ frameEnd(s) = k /\ readFrame(s) = f
  <2>1. StartsWith(s, w)
    <3>1. \A j \in 1..k : j <= Len(s)
      BY <1>3, <1>7, <1>9
    <3>2. QED
      BY <1>8, <1>9, <1>w, <3>1 DEF StartsWith
  <2>2. QED
    BY <1>1, <1>6, <1>w, <2>1, ReadsFrame
<1>t. PICK t : t = Drop(s, k)
  OBVIOUS
<1>11. /\ t \in Seq(Byte) /\ Len(t) = Len(s) - k
       /\ \A j \in 1..(Len(s) - k) : t[j] = s[k + j]
  <2>1. \A i \in (k + 1)..Len(s) : s[i] \in Byte
    <3>1. \A i \in (k + 1)..Len(s) : i \in 1..Len(s)
      BY <1>3, <1>7
    <3>2. QED
      BY <1>1, <3>1, ElementOfSeq
  <2>2. /\ t \in Seq(Byte) /\ Len(t) = IF k + 1 <= Len(s) THEN Len(s) - (k + 1) + 1 ELSE 0
        /\ \A j \in 1..(Len(s) - (k + 1) + 1) : t[j] = s[(k + 1) + j - 1]
    <3>1. k + 1 \in Int /\ Len(s) \in Int /\ t = SubSeq(s, k + 1, Len(s))
      BY <1>3, <1>7, <1>t DEF Drop
    <3>2. QED
      BY <1>1, <2>1, <3>1, SubSeqProperties, SMTT(30)
  <2>3. Len(s) - (k + 1) + 1 = Len(s) - k /\ \A j \in Int : (k + 1) + j - 1 = k + j
    BY <1>3, <1>7
  <2>4. Len(t) = Len(s) - k
    BY <1>3, <1>7, <1>9, <2>2
  <2>5. ASSUME NEW j \in 1..(Len(s) - k) PROVE t[j] = s[k + j]
    <3>1. j \in 1..(Len(s) - (k + 1) + 1) /\ j \in Int
      BY <2>3, <1>3, <1>7
    <3>2. t[j] = s[(k + 1) + j - 1] /\ (k + 1) + j - 1 = k + j
      BY <2>2, <2>3, <3>1
    <3>3. QED
      BY <3>2
  <2>6. QED
    BY <2>2, <2>4, <2>5
<1>12. off[h + 1] = off[h] + k
  <2>1. off[h + 1] = off[(h + 1) - 1] + Len(streamFrame(fs[h + 1])) /\ (h + 1) - 1 = h
    BY <1>1, <1>5
  <2>2. QED
    BY <1>w, <2>1
<1>13. off[h + 1] + Len(t) = off[h] + Len(s)
  BY <1>3, <1>7, <1>11, <1>12
<1>14. ASSUME NEW i \in 1..n, NEW j \in 1..Len(streamFrame(fs[i])),
              i > h + 1, off[i - 1] + j <= off[h + 1] + Len(t)
       PROVE  t[(off[i - 1] - off[h + 1]) + j] = streamFrame(fs[i])[j]
  <2>0. Len(streamFrame(fs[i])) \in Nat
    BY <1>n, FrameBytes DEF IsFrameBytes
  <2>1. i - 1 \in 0..n /\ h + 1 \in 0..n /\ h + 1 <= i - 1 /\ i > h /\ j \in Nat /\ j > 0
    BY <1>1, <1>5, <1>14, <2>0
  <2>2. off[i - 1] \in Nat /\ off[h + 1] \in Nat /\ off[h + 1] <= off[i - 1]
    BY <1>1, <2>1
  <2>3. s[(off[i - 1] - off[h]) + j] = streamFrame(fs[i])[j]
    BY <1>2, <1>13, <1>14, <2>1
  <2>4. (off[i - 1] - off[h]) + j = k + ((off[i - 1] - off[h + 1]) + j)
    <3>1. \A a, b, c \in Nat : c = b + k => (a - b) + j = k + ((a - c) + j)
      BY <1>7, <2>1
    <3>2. QED
      BY <1>3, <1>12, <2>2, <3>1
  <2>5. (off[i - 1] - off[h + 1]) + j \in 1..(Len(s) - k)
    <3>1. \A x, y, l \in Nat : y <= x /\ x + j <= y + l => (x - y) + j \in 1..l
      BY <2>1
    <3>2. Len(t) \in Nat /\ Len(t) = Len(s) - k
      BY <1>3, <1>7, <1>9, <1>11
    <3>3. QED
      BY <1>14, <2>2, <3>1, <3>2
  <2>6. t[(off[i - 1] - off[h + 1]) + j] = s[k + ((off[i - 1] - off[h + 1]) + j)]
    BY <1>11, <2>5
  <2>7. QED
    BY <2>3, <2>4, <2>6
<1>15. Layout(off, fs, h + 1, t)
  <2>1. off[h + 1] + Len(t) <= off[n] /\ h + 1 \in 0..n
    BY <1>1, <1>5, <1>13
  <2>2. QED
    BY <1>n, <1>1, <1>11, <1>14, <2>1 DEF Layout
<1>16. QED
  BY <1>n, <1>w, <1>t, <1>5, <1>10, <1>13, <1>15

\* A frame of which nothing is written yet may follow when the others are complete.
LEMMA LayoutNext ==
  ASSUME NEW fs \in Seq(Frames), NEW off, NEW h, NEW s, Layout(off, fs, h, s),
         off[h] + Len(s) = off[Len(fs)], NEW f \in Frames
  PROVE  \E o : /\ Layout(o, Append(fs, f), h, s)
                /\ o[h] + Len(s) = o[Len(fs)]
<1>n. PICK n, k, gs : n = Len(fs) /\ k = Len(streamFrame(f)) /\ gs = Append(fs, f)
  OBVIOUS
<1>1. /\ off \in [0..n -> Nat] /\ h \in 0..n /\ n \in Nat
      /\ \A i \in 1..n : off[i] = off[i - 1] + Len(streamFrame(fs[i]))
      /\ \A i, j \in 0..n : i <= j => off[i] <= off[j]
      /\ s \in Seq(Byte)
  BY <1>n DEF Layout
<1>e. off[h] + Len(s) = off[n]
  BY <1>n
<1>2. \A i \in 1..n : \A j \in 1..Len(streamFrame(fs[i])) :
       i > h /\ off[i - 1] + j <= off[h] + Len(s) =>
         s[(off[i - 1] - off[h]) + j] = streamFrame(fs[i])[j]
  BY <1>n DEF Layout
<1>3. Len(s) \in Nat /\ k \in Nat /\ 0 < k
  BY <1>1, <1>n, FrameBytes DEF IsFrameBytes
<1>4. /\ gs \in Seq(Frames) /\ Len(gs) = n + 1 /\ gs[n + 1] = f
      /\ \A i \in 1..n : gs[i] = fs[i]
  BY <1>n, AppendProperties
<1>o. PICK o : o = [i \in 0..(n + 1) |-> IF i = n + 1 THEN off[n] + k ELSE off[i]]
  OBVIOUS
<1>5. o \in [0..(n + 1) -> Nat] /\ o[n + 1] = off[n] + k /\ \A i \in 0..n : o[i] = off[i]
  <2>1. off[n] + k \in Nat
    BY <1>1, <1>3
  <2>2. \A i \in 0..(n + 1) : i # n + 1 => i \in 0..n
    BY <1>1
  <2>3. n + 1 \in 0..(n + 1) /\ \A i \in 0..n : i \in 0..(n + 1) /\ i # n + 1
    BY <1>1
  <2>4. QED
    BY <1>1, <1>o, <2>1, <2>2, <2>3
<1>6. \A i \in 1..(n + 1) : i # n + 1 => i \in 1..n /\ i - 1 \in 0..n /\ i \in 0..n
  BY <1>1
<1>7. ASSUME NEW i \in 1..(n + 1) PROVE o[i] = o[i - 1] + Len(streamFrame(gs[i]))
  <2>1. CASE i = n + 1
    <3>1. i - 1 = n /\ n \in 0..n
      BY <1>1, <2>1
    <3>2. QED
      BY <1>4, <1>5, <1>n, <2>1, <3>1
  <2>2. CASE i # n + 1
    BY <1>1, <1>4, <1>5, <1>6, <2>2
  <2>3. QED
    BY <2>1, <2>2
<1>8. ASSUME NEW i \in 0..(n + 1), NEW j \in 0..(n + 1), i <= j PROVE o[i] <= o[j]
  <2>1. CASE j # n + 1
    <3>1. i \in 0..n /\ j \in 0..n
      BY <1>1, <1>8, <2>1
    <3>2. QED
      BY <1>1, <1>5, <1>8, <3>1
  <2>2. CASE j = n + 1 /\ i = n + 1
    BY <1>5, <2>2
  <2>3. CASE j = n + 1 /\ i # n + 1
    <3>1. i \in 0..n /\ n \in 0..n /\ i <= n
      BY <1>1, <2>3
    <3>2. off[i] <= off[n] /\ off[i] \in Nat /\ off[n] \in Nat
      BY <1>1, <3>1
    <3>3. QED
      BY <1>3, <1>5, <2>3, <3>1, <3>2
  <2>4. QED
    BY <2>1, <2>2, <2>3
<1>9. h \in 0..(n + 1) /\ n \in 0..n /\ o[h] = off[h] /\ o[n] = off[n]
  BY <1>1, <1>5
<1>10. ASSUME NEW i \in 1..(n + 1), NEW j \in 1..Len(streamFrame(gs[i])),
              i > h, o[i - 1] + j <= o[h] + Len(s)
       PROVE  s[(o[i - 1] - o[h]) + j] = streamFrame(gs[i])[j]
  <2>1. CASE i = n + 1
    <3>1. i - 1 = n /\ o[n] \in Nat
      BY <1>1, <1>9, <2>1
    <3>2. Len(streamFrame(gs[i])) \in Nat
      BY <1>3, <1>4, <1>n, <2>1
    <3>3. j > 0 /\ j \in Nat
      BY <3>2
    <3>4. QED
      BY <1>1, <1>e, <1>9, <1>10, <3>1, <3>3
  <2>2. CASE i # n + 1
    <3>1. i \in 1..n /\ i - 1 \in 0..n /\ gs[i] = fs[i] /\ o[i - 1] = off[i - 1]
      BY <1>4, <1>5, <1>6, <2>2
    <3>2. QED
      BY <1>2, <1>9, <1>10, <3>1
  <2>3. QED
    BY <2>1, <2>2
<1>11. o[h] + Len(s) <= o[n + 1]
  <2>1. off[n] \in Nat
    BY <1>1, <1>9
  <2>2. QED
    BY <1>e, <1>3, <1>5, <1>9, <2>1
<1>12. Layout(o, gs, h, s)
  BY <1>1, <1>4, <1>5, <1>7, <1>8, <1>9, <1>10, <1>11 DEF Layout
<1>13. QED
  BY <1>n, <1>e, <1>9, <1>12

\* The next bytes of the last frame follow those that are there.
LEMMA LayoutGrows ==
  ASSUME NEW fs \in Seq(Frames), NEW off, NEW h, NEW s, Layout(off, fs, h, s),
         h < Len(fs), NEW from \in Nat, NEW to \in Nat,
         off[h] + Len(s) = off[Len(fs) - 1] + from,
         from <= to, to <= Len(streamFrame(fs[Len(fs)]))
  PROVE  LET t == s \o SubSeq(streamFrame(fs[Len(fs)]), from + 1, to)
         IN /\ Layout(off, fs, h, t)
            /\ off[h] + Len(t) = off[Len(fs) - 1] + to
<1>n. PICK n, w : n = Len(fs) /\ w = streamFrame(fs[n])
  OBVIOUS
<1>1. /\ off \in [0..n -> Nat] /\ h \in 0..n /\ n \in Nat /\ h < n
      /\ \A i \in 1..n : off[i] = off[i - 1] + Len(streamFrame(fs[i]))
      /\ \A i, j \in 0..n : i <= j => off[i] <= off[j]
      /\ s \in Seq(Byte)
  BY <1>n DEF Layout
<1>e. off[h] + Len(s) = off[n - 1] + from
  BY <1>n
<1>2. \A i \in 1..n : \A j \in 1..Len(streamFrame(fs[i])) :
       i > h /\ off[i - 1] + j <= off[h] + Len(s) =>
         s[(off[i - 1] - off[h]) + j] = streamFrame(fs[i])[j]
  BY <1>n DEF Layout
<1>3. n \in 1..n /\ n - 1 \in 0..n /\ h <= n - 1 /\ n \in 0..n
  BY <1>1
<1>4. w \in Seq(Byte) /\ Len(w) \in Nat /\ Len(s) \in Nat
  BY <1>1, <1>3, <1>n, FrameBytes DEF IsFrameBytes
<1>5. from <= to /\ to <= Len(w)
  BY <1>n
<1>u. PICK u, t : u = SubSeq(w, from + 1, to) /\ t = s \o u
  OBVIOUS
<1>6. u \in Seq(Byte) /\ Len(u) = to - from /\ \A j \in 1..(to - from) : u[j] = w[from + j]
  <2>1. \A i \in (from + 1)..to : w[i] \in Byte
    <3>1. \A i \in (from + 1)..to : i \in 1..Len(w)
      BY <1>4, <1>5
    <3>2. QED
      BY <1>4, <3>1, ElementOfSeq
  <2>2. /\ u \in Seq(Byte) /\ Len(u) = IF from + 1 <= to THEN to - (from + 1) + 1 ELSE 0
        /\ \A j \in 1..(to - (from + 1) + 1) : u[j] = w[(from + 1) + j - 1]
    <3>1. from + 1 \in Int /\ to \in Int
      OBVIOUS
    <3>2. QED
      BY <1>4, <1>u, <2>1, <3>1, SubSeqProperties
  <2>3. to - (from + 1) + 1 = to - from /\ \A j \in Int : (from + 1) + j - 1 = from + j
    OBVIOUS
  <2>4. Len(u) = to - from
    BY <1>5, <2>2
  <2>5. ASSUME NEW j \in 1..(to - from) PROVE u[j] = w[from + j]
    <3>1. j \in 1..(to - (from + 1) + 1) /\ j \in Int
      BY <2>3
    <3>2. u[j] = w[(from + 1) + j - 1] /\ (from + 1) + j - 1 = from + j
      BY <2>2, <2>3, <3>1
    <3>3. QED
      BY <3>2
  <2>6. QED
    BY <2>2, <2>4, <2>5
<1>7. IsConcat(t, s, u)
  <2>1. IsConcat(s \o u, s, u)
    BY <1>1, <1>6, ConcatParts
  <2>2. QED
    BY <1>u, <2>1, Zenon
<1>8. /\ t \in Seq(Byte) /\ Len(t) = Len(s) + (to - from)
      /\ \A i \in 1..Len(s) : t[i] = s[i]
      /\ \A i \in 1..(to - from) : t[Len(s) + i] = u[i]
  BY <1>6, <1>7 DEF IsConcat
<1>9. off[h] \in Nat /\ off[n - 1] \in Nat /\ off[h] <= off[n - 1] /\ off[n] = off[n - 1] + Len(w)
  BY <1>1, <1>3, <1>n
<1>f. off[h] \in Nat /\ off[n - 1] \in Nat /\ Len(s) \in Nat
  BY <1>4, <1>9
<1>10. off[h] + Len(t) = off[n - 1] + to /\ off[h] + Len(t) <= off[n]
  <2>1. off[h] + Len(t) = off[n - 1] + to
    <3>a. PICK a, b, l : a = off[h] /\ b = off[n - 1] /\ l = Len(s)
      OBVIOUS
    <3>1. a \in Nat /\ b \in Nat /\ l \in Nat /\ a + l = b + from
      BY <1>e, <1>f, <3>a
    <3>2. a + (l + (to - from)) = b + to
      BY <3>1
    <3>3. off[h] + (Len(s) + (to - from)) = off[n - 1] + to
      BY <3>a, <3>2
    <3>4. QED
      BY <1>8, <3>3, Zenon
  <2>2. QED
    BY <1>4, <1>5, <1>9, <2>1
<1>11. ASSUME NEW i \in 1..n, NEW j \in 1..Len(streamFrame(fs[i])),
              i > h, off[i - 1] + j <= off[h] + Len(t)
       PROVE  t[(off[i - 1] - off[h]) + j] = streamFrame(fs[i])[j]
  <2>0. Len(streamFrame(fs[i])) \in Nat
    BY <1>n, FrameBytes DEF IsFrameBytes
  <2>1. i - 1 \in 0..n /\ h <= i - 1 /\ j \in Nat /\ j > 0
    BY <1>1, <1>11, <2>0
  <2>2. off[i - 1] \in Nat /\ off[h] <= off[i - 1]
    BY <1>1, <2>1
  <2>3. CASE off[i - 1] + j <= off[h] + Len(s)
    <3>1. (off[i - 1] - off[h]) + j \in 1..Len(s)
      <4>1. \A a, b, l \in Nat : b <= a /\ a + j <= b + l => (a - b) + j \in 1..l
        BY <2>1
      <4>2. QED
        BY <1>4, <1>9, <2>2, <2>3, <4>1
    <3>2. s[(off[i - 1] - off[h]) + j] = streamFrame(fs[i])[j]
      BY <1>2, <1>11, <2>3
    <3>3. QED
      BY <1>8, <3>1, <3>2
  <2>4. CASE ~(off[i - 1] + j <= off[h] + Len(s))
    <3>1. i = n
      <4>1. SUFFICES ASSUME i # n PROVE FALSE
        OBVIOUS
      <4>2. i \in 0..n /\ i <= n - 1
        BY <1>1, <4>1
      <4>3. off[i] <= off[n - 1] /\ off[i] = off[i - 1] + Len(streamFrame(fs[i]))
        BY <1>1, <1>3, <4>2
      <4>4. off[i - 1] + j <= off[n - 1]
        BY <1>9, <2>0, <2>2, <4>3
      <4>5. \A a, b \in Nat : a + j <= b => a + j <= b + from
        BY <2>1
      <4>6. off[i - 1] + j <= off[n - 1] + from
        BY <1>9, <2>2, <4>4, <4>5
      <4>7. QED
        BY <1>e, <2>4, <4>6
    <3>2. j - from \in 1..(to - from) /\ from + (j - from) = j
      <4>1. \A a \in Nat : ~(a + j <= a + from) /\ a + j <= a + to
              => j - from \in 1..(to - from) /\ from + (j - from) = j
        BY <2>1
      <4>2. ~(off[n - 1] + j <= off[n - 1] + from) /\ off[n - 1] + j <= off[n - 1] + to
        BY <1>e, <1>10, <1>11, <2>4, <3>1
      <4>3. QED
        BY <1>9, <4>1, <4>2
    <3>3. (off[n - 1] - off[h]) + j = Len(s) + (j - from)
      <4>a. PICK a, b, l : a = off[n - 1] /\ b = off[h] /\ l = Len(s)
        OBVIOUS
      <4>1. a \in Nat /\ b \in Nat /\ l \in Nat /\ b + l = a + from
        BY <1>e, <1>f, <4>a
      <4>2. (a - b) + j = l + (j - from)
        BY <2>1, <4>1
      <4>3. QED
        BY <4>a, <4>2
    <3>4. t[Len(s) + (j - from)] = u[j - from] /\ u[j - from] = w[from + (j - from)]
      BY <1>6, <1>8, <3>2
    <3>5. t[(off[n - 1] - off[h]) + j] = w[j]
      BY <3>2, <3>3, <3>4
    <3>6. QED
      BY <1>n, <3>1, <3>5
  <2>5. QED
    BY <2>3, <2>4
<1>12. Layout(off, fs, h, t)
  BY <1>n, <1>1, <1>8, <1>10, <1>11 DEF Layout
<1>13. QED
  BY <1>n, <1>u, <1>10, <1>12

-----------------------------------------------------------------------------
(* The control stream                                                      *)

\* Where a role can be, and where it is in writeControl.
Labels == {"off", "enter", "lock", "write", "telemetry", "loop", "done"} \cup Calling
Writing == {"enter", "lock", "write"}

\* The holder of the mutex is the one that writes.  Who is in writeControl has a
\* frame to write, and has written no more than that.  A Publish has somebody to serve.
Places ==
  /\ \A r \in Writers : writeMu = r <=> pc[r] = "write"
  /\ pc["subscriber"] \in Writing => subscribed < Len(Topics)
  /\ pc["publisher"] \in Writing => published < MaxCommands
  /\ run = "timer" => pc["publisher"] = "off"
  /\ reader = "publish" => todo # <<>>
  /\ \A r \in Writers : pc[r] = "write" => written[r] <= frameLen(r)

\* All frames are in the stream up to their ends, but for the one being written.
InFlight(off) ==
  IF writeMu # None /\ written[writeMu] > 0
  THEN /\ order # <<>> /\ order[Len(order)] = frameOf(writeMu)
       /\ off[Len(handled)] + Len(control) = off[Len(order) - 1] + written[writeMu]
  ELSE off[Len(handled)] + Len(control) = off[Len(order)]

\* While the session is up the stream holds what was written and not yet read.
Stream ==
  sessionUp => \E off : Layout(off, order, Len(handled), control) /\ InFlight(off)

\* The frames handled are the first of those written.
HandledFirst ==
  Len(handled) <= Len(order) /\ \A i \in 1..Len(handled) : handled[i] = order[i]

\* The inductive invariant.
ControlInv == TypeOK /\ Places /\ Stream /\ HandledFirst

\* A writer's bytes are those of a frame.
LEMMA WritersFrame ==
  ASSUME TypeOK, Places, NEW r \in Writers, pc[r] \in Writing
  PROVE  /\ frameOf(r) \in Frames /\ bytesOf(r) = streamFrame(frameOf(r))
         /\ IsFrameBytes(bytesOf(r)) /\ frameLen(r) = Len(streamFrame(frameOf(r)))
<1>1. Len(Topics) = 2 /\ MaxCommands \in Nat
  BY Parameters, SMT DEF Topics
<1>2. frameOf(r) \in Frames /\ bytesOf(r) = streamFrame(frameOf(r))
  <2>1. CASE r = "subscriber"
    <3>1. subscribed + 1 \in 1..Len(Topics)
      BY <1>1, <2>1, SMT DEF TypeOK, Places
    <3>2. QED
      BY <2>1, <3>1, Zenon DEF frameOf, bytesOf, SubBytes, Frames
  <2>2. CASE r = "publisher"
    <3>1. published + 1 \in 1..MaxCommands
      BY <1>1, <2>2, SMT DEF TypeOK, Places
    <3>2. r # "subscriber"
      BY <2>2
    <3>3. QED
      BY <3>1, <3>2, Zenon DEF frameOf, bytesOf, PubBytes, Frames
  <2>3. QED
    BY <2>1, <2>2 DEF Writers
<1>3. QED
  BY <1>2, FrameBytes DEF frameLen

\* A step that neither writes nor reads, nor takes or gives back the mutex.
Calm ==
  /\ cancelled' \in BOOLEAN /\ errCh' \subseteq Roles
  /\ run' \in {"timer", "select", "drain", "nil", "err", "close", "exit"}
  /\ run' = "timer" => pc'["publisher"] = "off"
  /\ sessionUp' \in BOOLEAN /\ (sessionUp' => sessionUp)
  /\ pc' \in [Roles -> Labels]
  /\ \A r \in Writers : pc'[r] = "write" <=> pc[r] = "write"
  /\ subscribed' \in 0..Len(Topics) /\ published' \in 0..MaxCommands
  /\ pc'["subscriber"] \in Writing => subscribed' < Len(Topics)
  /\ pc'["publisher"] \in Writing => published' < MaxCommands
  /\ pc["subscriber"] = "write" => subscribed' = subscribed
  /\ pc["publisher"] = "write" => published' = published
  /\ reader' \in {"read", "publish", "stopped"} /\ path' \in 0..PathDepth
  /\ todo' \in Seq(Subscribers) /\ (reader' = "publish" => todo' # <<>>)
  /\ connUp' \in BOOLEAN /\ sharedMu' \in Requesters \cup {None}
  /\ UNCHANGED <<lockVars, control, handled, scope>>

\* Such a step keeps the invariant.
LEMMA CalmKeeps ==
  ASSUME ControlInv, Calm
  PROVE  ControlInv'
<1>1. TypeOK'
  BY DEF ControlInv, Calm, TypeOK, lockVars, Labels
<1>2. ASSUME NEW r \in Writers, pc[r] = "write"
      PROVE  frameOf(r)' = frameOf(r) /\ frameLen(r)' = frameLen(r)
  <2>1. CASE r = "subscriber"
    BY <1>2, <2>1 DEF Calm, frameOf, frameLen, bytesOf
  <2>2. CASE r = "publisher"
    BY <1>2, <2>2 DEF Calm, frameOf, frameLen, bytesOf
  <2>3. QED
    BY <2>1, <2>2 DEF Writers
<1>3. Places'
  <2>1. writeMu' = writeMu /\ written' = written
    BY DEF Calm, lockVars
  <2>2. ASSUME NEW r \in Writers PROVE (writeMu = r <=> pc[r] = "write")'
    BY <2>1 DEF ControlInv, Calm, Places
  <2>3. ASSUME NEW r \in Writers, pc'[r] = "write" PROVE (written[r] <= frameLen(r))'
    <3>1. pc[r] = "write"
      BY <2>3 DEF Calm
    <3>2. QED
      BY <1>2, <2>1, <3>1 DEF ControlInv, Places
  <2>4. QED
    BY <2>2, <2>3 DEF Calm, Places
<1>4. Stream'
  <2>1. SUFFICES ASSUME sessionUp'
                 PROVE \E off : (Layout(off, order, Len(handled), control) /\ InFlight(off))'
    BY DEF Stream
  <2>2. /\ sessionUp /\ order' = order /\ handled' = handled /\ control' = control
        /\ writeMu' = writeMu /\ written' = written
    BY <2>1 DEF Calm, lockVars
  <2>3. PICK off : Layout(off, order, Len(handled), control) /\ InFlight(off)
    BY <2>2 DEF ControlInv, Stream
  <2>4. writeMu # None => frameOf(writeMu)' = frameOf(writeMu)
    <3>1. ASSUME writeMu # None PROVE frameOf(writeMu)' = frameOf(writeMu)
      <4>0. PICK r : r = writeMu
        OBVIOUS
      <4>1. r \in Writers /\ pc[r] = "write"
        BY <3>1, <4>0 DEF ControlInv, TypeOK, Places
      <4>2. frameOf(r)' = frameOf(r)
        BY <1>2, <4>1
      <4>3. QED
        BY <2>2, <4>0, <4>2 DEF frameOf
    <3>2. QED
      BY <3>1
  <2>5. InFlight(off)'
    BY <2>2, <2>3, <2>4 DEF InFlight
  <2>6. Layout(off, order, Len(handled), control)'
    BY <2>2, <2>3
  <2>7. QED
    BY <2>5, <2>6
<1>5. HandledFirst'
  BY DEF ControlInv, Calm, HandledFirst, lockVars
<1>6. QED
  BY <1>1, <1>3, <1>4, <1>5 DEF ControlInv

\* The part of the types that calm steps are about.
LEMMA Bearings ==
  ASSUME ControlInv
  PROVE  /\ cancelled \in BOOLEAN /\ sessionUp \in BOOLEAN /\ errCh \subseteq Roles
         /\ run \in {"timer", "select", "drain", "nil", "err", "close", "exit"}
         /\ pc \in [Roles -> Labels]
         /\ subscribed \in 0..Len(Topics) /\ published \in 0..MaxCommands
         /\ reader \in {"read", "publish", "stopped"} /\ path \in 0..PathDepth
         /\ todo \in Seq(Subscribers) /\ connUp \in BOOLEAN
         /\ sharedMu \in Requesters \cup {None} /\ scope \in Scope
         /\ Len(Topics) = 2 /\ MaxCommands \in Nat /\ MaxCommands > 0 /\ PathDepth \in Nat
         /\ "subscriber" \in Roles /\ "publisher" \in Roles
         /\ "subscriber" \notin Requesters /\ "publisher" \notin Requesters
         /\ Requesters \subseteq Roles
         /\ Places
<1>1. Len(Topics) = 2 /\ MaxCommands \in Nat /\ MaxCommands > 0 /\ PathDepth \in Nat
  BY Parameters, SMT DEF Topics
<1>2. /\ "subscriber" \in Roles /\ "publisher" \in Roles
      /\ "subscriber" \notin Requesters /\ "publisher" \notin Requesters
      /\ Requesters \subseteq Roles
  BY Parameters DEF Roles, Writers
<1>3. QED
  BY <1>1, <1>2 DEF ControlInv, TypeOK, Labels

\* Mixed.Run, signals and the end of the session.
LEMMA RunIsCalm ==
  ASSUME ControlInv, Main \/ Cancel \/ SessionEnds \/ ConnDies
  PROVE  Calm
<1> USE Bearings DEF Places, Writing, lockVars, countVars, serverVars, connVars, runVars, Writers
<1>1. CASE StartRoles
  <2>1. /\ pc' \in [Roles -> Labels]
        /\ pc'["subscriber"] = pc["subscriber"] /\ pc'["publisher"] = "telemetry"
    BY <1>1 DEF StartRoles, Started, Labels, Calling
  <2>2. QED
    BY <1>1, <2>1 DEF StartRoles, Calm
<1>2. CASE SeesCancel \/ Drained
  BY <1>2 DEF SeesCancel, Drained, Calm
<1>3. CASE SeesError
  BY <1>3 DEF SeesError, Calm
<1>4. CASE ClosePubSub
  BY <1>4 DEF ClosePubSub, Calm
<1>x. CASE Exit
  <2>1. sharedMu' = sharedMu /\ scope' = scope /\ connUp' \in BOOLEAN
    BY <1>x DEF Exit
  <2>2. QED
    BY <1>x, <2>1 DEF Exit, Calm
<1>5. CASE Cancel
  BY <1>5 DEF Cancel, Calm
<1>6. CASE SessionEnds \/ ConnDies
  BY <1>6 DEF SessionEnds, ConnDies, Calm
<1>7. QED
  BY <1>1, <1>2, <1>3, <1>4, <1>x, <1>5, <1>6 DEF Main

\* The loops of the roles.
LEMMA LoopsAreCalm ==
  ASSUME ControlInv,
         \/ publishTelemetry \/ TelemetryTick \/ publishCommand
         \/ \E r \in Requesters : Request(r) \/ RequestTick(r)
         \/ \E r \in Roles : RoleStops(r)
         \/ Receive \/ SeesEnd
  PROVE  Calm
<1> USE Bearings
    DEF Places, Writing, lockVars, countVars, serverVars, connVars, runVars, Writers, Goto, Labels,
        Calling, Scope
<1>1. CASE publishTelemetry
  BY <1>1 DEF publishTelemetry, Calm
<1>2. CASE TelemetryTick
  BY <1>2 DEF TelemetryTick, Calm
<1>3. CASE publishCommand
  BY <1>3 DEF publishCommand, Calm
<1>4. ASSUME NEW r \in Requesters, Request(r) \/ RequestTick(r) PROVE Calm
  <2>1. CASE RequestReturns(r) \/ RequestTick(r)
    BY <1>4, <2>1 DEF RequestReturns, RequestTick, RequestFrame, Calm
  <2>2. CASE getSharedConn(r)
    BY <1>4, <2>2 DEF getSharedConn, RequestFrame, Calm
  <2>3. CASE DialFails(r)
    BY <1>4, <2>3 DEF DialFails, RequestFrame, Calm
  <2>4. CASE SettingsArrive(r)
    BY <1>4, <2>4 DEF SettingsArrive, RequestFrame, Calm
  <2>5. CASE SettingsFail(r)
    BY <1>4, <2>5 DEF SettingsFail, RequestFrame, Calm
  <2>6. QED
    BY <1>4, <2>1, <2>2, <2>3, <2>4, <2>5 DEF Request
<1>5. ASSUME NEW r \in Roles, RoleStops(r) PROVE Calm
  BY <1>5 DEF RoleStops, Calm
<1>6. CASE Receive
  BY <1>6 DEF Receive, Calm
<1>7. CASE SeesEnd
  BY <1>7 DEF SeesEnd, Calm
<1>8. QED
  BY <1>1, <1>2, <1>3, <1>4, <1>5, <1>6, <1>7

\* The broker's part.
LEMMA BrokerIsCalm ==
  ASSUME ControlInv, ReaderStops \/ OtherPublishes \/ \E q \in Subscribers : Publish(q)
  PROVE  Calm
<1> USE Bearings DEF Places, Writing, lockVars, countVars, serverVars, connVars, runVars, Writers
<1>1. ASSUME NEW q \in Subscribers, Publish(q) PROVE Calm
  <2>1. todo # <<>>
    BY <1>1 DEF Publish
  <2>2. Tail(todo) \in Seq(Subscribers)
    BY <2>1
  <2>3. QED
    BY <1>1, <2>2 DEF Publish, Calm
<1>2. CASE ReaderStops
  BY <1>2 DEF ReaderStops, Calm
<1>3. CASE OtherPublishes
  BY <1>3 DEF OtherPublishes, Calm
<1>4. QED
  BY <1>1, <1>2, <1>3

\* What Return does to the places of its caller and to the counts.
Returned(r) ==
  /\ cancelled' = cancelled /\ run' = run /\ errCh' \subseteq Roles
  /\ pc' \in [Roles -> Labels] /\ pc'[r] # "write"
  /\ \A q \in Roles \ {r} : pc'[q] = pc[q]
  /\ subscribed' \in 0..Len(Topics) /\ published' \in 0..MaxCommands
  /\ r # "subscriber" => subscribed' = subscribed
  /\ r # "publisher" => published' = published
  /\ pc'["subscriber"] \in Writing => subscribed' < Len(Topics)
  /\ pc'["publisher"] \in Writing => published' < MaxCommands

LEMMA ReturnReturns ==
  ASSUME ControlInv, NEW r \in Writers, pc[r] \in Writing, NEW ok \in BOOLEAN, Return(r, ok)
  PROVE  Returned(r)
<1> USE Bearings DEF Places, Writing, countVars, runVars, Goto, Labels
<1>1. CASE r = "publisher"
  BY <1>1 DEF Return, Returned
<1>2. CASE r = "subscriber" /\ ok
  <2>1. /\ subscribed' = subscribed + 1 /\ UNCHANGED <<cancelled, run, errCh, published>>
        /\ pc' = [pc EXCEPT !["subscriber"] = IF subscribed + 1 = 2 THEN "loop" ELSE "enter"]
    BY <1>2 DEF Return
  <2>2. subscribed + 1 \in 0..2 /\ (subscribed + 1 # 2 => subscribed + 1 < 2)
    <3>1. subscribed < 2 /\ subscribed \in 0..2
      BY <1>2
    <3>2. QED
      BY <3>1, SMT
  <2>3. /\ pc' \in [Roles -> Labels] /\ \A q \in Roles \ {r} : pc'[q] = pc[q]
        /\ pc'["subscriber"] = IF subscribed + 1 = 2 THEN "loop" ELSE "enter"
    BY <1>2, <2>1
  <2>4. QED
    BY <1>2, <2>1, <2>2, <2>3 DEF Returned
<1>3. CASE r = "subscriber" /\ ~ok
  BY <1>3 DEF Return, Fails, Returned
<1>4. QED
  BY <1>1, <1>2, <1>3 DEF Writers

\* writeControl before the mutex.
LEMMA EnterIsCalm ==
  ASSUME ControlInv, NEW r \in Writers, writeControl(r)
  PROVE  Calm
<1> USE Bearings DEF Places, Writing, lockVars, countVars, serverVars, connVars, runVars
<1>0. r \in Roles /\ pc[r] = "enter" /\ r \in {"subscriber", "publisher"}
  BY DEF writeControl, Roles, Writers
<1>1. CASE cancelled
  <2>1. Returned(r)
    BY <1>0, <1>1, ReturnReturns DEF writeControl
  <2>2. run = "timer" => r # "publisher"
    BY <1>0
  <2>3. \A q \in Writers : pc'[q] = "write" <=> pc[q] = "write"
    BY <1>0, <2>1 DEF Returned, Roles
  <2>4. QED
    BY <1>0, <2>1, <2>2, <2>3 DEF Returned, Calm, writeControl
<1>2. CASE ~cancelled
  BY <1>0, <1>2 DEF writeControl, Calm, Goto, Labels, Writers
<1>3. QED
  BY <1>1, <1>2

\* Taking the mutex.
LEMMA LockKeeps ==
  ASSUME ControlInv, NEW r \in Writers, Lock(r)
  PROVE  ControlInv'
<1>0. /\ r \in Roles /\ r \in {"subscriber", "publisher"} /\ r # None
      /\ pc[r] = "lock" /\ writeMu = None
  BY DEF Lock, Roles, Writers, None
<1>1. /\ writeMu' = r /\ written' = [written EXCEPT ![r] = 0]
      /\ pc' = [pc EXCEPT ![r] = "write"]
      /\ UNCHANGED <<cancelled, run, errCh, order, subscribed, published, sessionUp, control,
                     reader, handled, todo, path, connUp, sharedMu, scope>>
  BY DEF Lock, Goto, runVars, countVars, serverVars, connVars
<1>2. Window \in Nat /\ written \in [Writers -> 0..Window] /\ 0 \in 0..Window
  BY Parameters DEF ControlInv, TypeOK
<1>3. written' \in [Writers -> 0..Window] /\ written'[r] = 0
  BY <1>1, <1>2
<1>4. pc \in [Roles -> Labels] /\ pc' \in [Roles -> Labels] /\ pc'[r] = "write"
      /\ \A q \in Roles \ {r} : pc'[q] = pc[q]
  BY <1>0, <1>1, Bearings DEF Labels
<1>5. TypeOK'
  BY <1>1, <1>3, <1>4 DEF ControlInv, TypeOK, Labels
<1>6. Places'
  <2>1. \A q \in Writers : frameLen(q)' = frameLen(q)
    BY <1>1 DEF frameLen, bytesOf
  <2>2. frameLen(r) \in Nat
    BY <1>0, WritersFrame DEF ControlInv, Writing, frameLen, IsFrameBytes
  <2>3. ASSUME NEW q \in Writers PROVE (writeMu = q <=> pc[q] = "write")'
    BY <1>0, <1>1, <1>4 DEF ControlInv, Places, Writers, Roles, None
  <2>4. ASSUME NEW q \in Writers, pc'[q] = "write" PROVE (written[q] <= frameLen(q))'
    <3>1. q = r
      BY <1>1, <2>3, <2>4
    <3>2. QED
      BY <1>3, <2>1, <2>2, <3>1
  <2>5. (pc["subscriber"] \in Writing => subscribed < Len(Topics))'
    BY <1>0, <1>1, <1>4, Bearings DEF Places, Writing
  <2>6. (pc["publisher"] \in Writing => published < MaxCommands)'
    BY <1>0, <1>1, <1>4, Bearings DEF Places, Writing
  <2>7. (run = "timer" => pc["publisher"] = "off")'
    BY <1>0, <1>1, <1>4, Bearings DEF Places
  <2>8. (reader = "publish" => todo # <<>>)'
    BY <1>1 DEF ControlInv, Places
  <2>9. QED
    BY <2>3, <2>4, <2>5, <2>6, <2>7, <2>8 DEF Places
<1>7. Stream'
  <2>1. SUFFICES ASSUME sessionUp'
                 PROVE \E off : (Layout(off, order, Len(handled), control) /\ InFlight(off))'
    BY DEF Stream
  <2>2. PICK off : Layout(off, order, Len(handled), control) /\ InFlight(off)
    BY <1>1, <2>1 DEF ControlInv, Stream
  <2>3. InFlight(off)'
    <3>1. ~(written'[writeMu'] > 0)
      BY <1>1, <1>3
    <3>2. off[Len(handled)] + Len(control) = off[Len(order)]
      BY <1>0, <2>2 DEF InFlight
    <3>3. QED
      BY <1>1, <3>1, <3>2 DEF InFlight
  <2>4. Layout(off, order, Len(handled), control)'
    BY <1>1, <2>2
  <2>5. QED
    BY <2>3, <2>4
<1>8. HandledFirst'
  BY <1>1 DEF ControlInv, HandledFirst
<1>9. QED
  BY <1>5, <1>6, <1>7, <1>8 DEF ControlInv

\* Giving it back: while the session is up, the frame is complete.
LEMMA UnlockKeeps ==
  ASSUME ControlInv, NEW r \in Writers, Unlock(r)
  PROVE  ControlInv'
<1>0. r \in Roles /\ pc[r] = "write" /\ r \in {"subscriber", "publisher"} /\ writeMu = r /\ r # None
  BY DEF Unlock, Roles, Writers, None, ControlInv, Places
<1>1. /\ writeMu' = None
      /\ UNCHANGED <<written, order, sessionUp, control, reader, handled, todo, path,
                     connUp, sharedMu, scope>>
  BY DEF Unlock, serverVars, connVars
<1>2. Returned(r)
  <2>1. pc[r] \in Writing
    BY <1>0 DEF Writing
  <2>2. Return(r, TRUE) \/ Return(r, FALSE)
    BY DEF Unlock
  <2>3. QED
    BY <2>1, <2>2, ReturnReturns
<1>3. TypeOK'
  BY <1>1, <1>2 DEF ControlInv, TypeOK, Returned, Labels, None
<1>4. \A q \in Writers : pc'[q] # "write"
  <2>1. ASSUME NEW q \in Writers, q # r PROVE pc'[q] = pc[q] /\ pc[q] # "write"
    BY <1>0, <1>2, <2>1 DEF Returned, Roles, ControlInv, Places
  <2>2. QED
    BY <1>2, <2>1 DEF Returned
<1>5. Places'
  <2>1. ASSUME NEW q \in Writers PROVE (writeMu = q <=> pc[q] = "write")'
    BY <1>1, <1>4 DEF Writers, None
  <2>2. (run = "timer" => pc["publisher"] = "off")'
    BY <1>0, <1>2, Bearings DEF Returned, Places
  <2>3. (reader = "publish" => todo # <<>>)'
    BY <1>1 DEF ControlInv, Places
  <2>4. QED
    BY <1>2, <1>4, <2>1, <2>2, <2>3 DEF Places, Returned
<1>6. Stream'
  <2>1. SUFFICES ASSUME sessionUp'
                 PROVE \E off : (Layout(off, order, Len(handled), control) /\ InFlight(off))'
    BY DEF Stream
  <2>2. sessionUp /\ written[r] = frameLen(r)
    BY <1>1, <2>1 DEF Unlock
  <2>3. PICK off : Layout(off, order, Len(handled), control) /\ InFlight(off)
    BY <2>2 DEF ControlInv, Stream
  <2>4. frameLen(r) = Len(streamFrame(frameOf(r))) /\ frameLen(r) > 0
    BY <1>0, WritersFrame DEF ControlInv, Writing, frameLen, IsFrameBytes
  <2>5. /\ order # <<>> /\ order[Len(order)] = frameOf(r)
        /\ off[Len(handled)] + Len(control) = off[Len(order) - 1] + frameLen(r)
    BY <1>0, <2>2, <2>3, <2>4 DEF InFlight
  <2>6. off[Len(order)] = off[Len(order) - 1] + frameLen(r)
    <3>1. Len(order) \in 1..Len(order)
      BY <2>5 DEF ControlInv, TypeOK
    <3>2. QED
      BY <2>3, <2>4, <2>5, <3>1 DEF Layout
  <2>7. InFlight(off)'
    BY <1>1, <2>5, <2>6 DEF InFlight
  <2>8. Layout(off, order, Len(handled), control)'
    BY <1>1, <2>3
  <2>9. QED
    BY <2>7, <2>8
<1>7. HandledFirst'
  BY <1>1 DEF ControlInv, HandledFirst
<1>8. QED
  BY <1>3, <1>5, <1>6, <1>7 DEF ControlInv

\* The server reads the frame that was written next.
LEMMA ReadKeeps ==
  ASSUME ControlInv, ReadStreamFrame
  PROVE  ControlInv'
<1>h. PICK h : h = Len(handled)
  OBVIOUS
<1>1. /\ sessionUp /\ hasFrame(control) /\ handled' = Append(handled, readFrame(control))
      /\ control' = Drop(control, frameEnd(control))
      /\ reader' \in {"read", "publish", "stopped"}
      /\ UNCHANGED <<cancelled, run, errCh, pc, writeMu, written, order, subscribed, published,
                     path, connUp, sharedMu, scope>>
  BY DEF ReadStreamFrame, runVars, lockVars, countVars, connVars
<1>s. sessionUp' \in BOOLEAN
  BY Zenon DEF ReadStreamFrame
<1>t. todo' \in Seq(Subscribers) /\ (reader' = "publish" => todo' # <<>>)
  <2>1. todo \in Seq(Subscribers)
    BY DEF ControlInv, TypeOK
  <2>2. ASSUME NEW topic, NEW x \in Served(topic) PROVE x \in Seq(Subscribers) /\ x # <<>>
    <3>1. x \in {<<"own", "peer">>, <<"peer", "own">>, <<"peer">>}
      BY <2>2, Zenon DEF Served
    <3>2. "own" \in Subscribers /\ "peer" \in Subscribers
      BY DEF Subscribers
    <3>3. CASE x = <<"own", "peer">>
      BY <3>2, <3>3
    <3>4. CASE x = <<"peer", "own">>
      BY <3>2, <3>4
    <3>5. CASE x = <<"peer">>
      BY <3>2, <3>5
    <3>6. QED
      BY <3>1, <3>3, <3>4, <3>5
  <2>3. \/ reader' = "publish" /\ \E topic : todo' \in Served(topic)
        \/ reader' # "publish" /\ todo' = todo
    BY DEF ReadStreamFrame
  <2>4. QED
    BY <2>1, <2>2, <2>3
<1>2. order \in Seq(Frames) /\ handled \in Seq(Frames) /\ h \in Nat
  BY <1>h DEF ControlInv, TypeOK
<1>3. PICK off : Layout(off, order, h, control) /\ InFlight(off)
  BY <1>1, <1>h DEF ControlInv, Stream
<1>4. /\ h + 1 \in 1..Len(order) /\ readFrame(control) = order[h + 1]
      /\ Layout(off, order, h + 1, control')
      /\ off[h + 1] + Len(control') = off[h] + Len(control)
  <2>1. hasFrame(control) /\ control' = Drop(control, frameEnd(control))
    BY <1>1
  <2>2. hasFrame(control) /\ Layout(off, order, h, control)
    BY <1>3, <2>1
  <2>3. /\ h + 1 \in 1..Len(order) /\ readFrame(control) = order[h + 1]
        /\ Layout(off, order, h + 1, Drop(control, frameEnd(control)))
        /\ off[h + 1] + Len(Drop(control, frameEnd(control))) = off[h] + Len(control)
    BY <1>2, <2>2, LayoutRead
  <2>4. QED
    BY <2>1, <2>3, Zenon
<1>5. handled' \in Seq(Frames) /\ Len(handled') = h + 1
      /\ handled'[h + 1] = order[h + 1] /\ \A i \in 1..h : handled'[i] = handled[i]
  <2>1. order[h + 1] \in Frames
    BY <1>2, <1>4, ElementOfSeq
  <2>2. handled' = Append(handled, order[h + 1])
    BY <1>1, <1>4
  <2>3. QED
    BY <1>2, <1>h, <2>1, <2>2, AppendProperties
<1>6. control' \in Seq(Byte)
  BY <1>4 DEF Layout
<1>7. TypeOK'
  BY <1>1, <1>5, <1>6, <1>s, <1>t DEF ControlInv, TypeOK
<1>8. Places'
  BY <1>1, <1>t DEF ControlInv, Places, frameLen, bytesOf
<1>9. Stream'
  <2>1. frameOf(writeMu)' = frameOf(writeMu)
    BY <1>1 DEF frameOf
  <2>2. InFlight(off)'
    BY <1>1, <1>3, <1>4, <1>5, <1>h, <2>1 DEF InFlight
  <2>3. Layout(off, order, Len(handled), control)'
    BY <1>1, <1>4, <1>5
  <2>4. QED
    BY <2>2, <2>3 DEF Stream
<1>10. HandledFirst'
  <2>1. Len(handled') <= Len(order')
    BY <1>1, <1>2, <1>4, <1>5
  <2>2. ASSUME NEW i \in 1..(h + 1) PROVE handled'[i] = order[i]
    <3>1. CASE i = h + 1
      BY <1>5, <3>1
    <3>2. CASE i # h + 1
      <4>1. i \in 1..h
        BY <1>2, <3>2
      <4>2. QED
        BY <1>5, <1>h, <4>1 DEF ControlInv, HandledFirst
    <3>3. QED
      BY <3>1, <3>2
  <2>3. QED
    BY <1>1, <1>5, <2>1, <2>2 DEF HandledFirst
<1>11. QED
  BY <1>7, <1>8, <1>9, <1>10 DEF ControlInv

\* The smaller of two numbers.
LEMMA MinOfTwo ==
  ASSUME NEW a \in Int, NEW b \in Int
  PROVE  Min({a, b}) = IF a <= b THEN a ELSE b
<1>1. CASE a <= b
  BY <1>1 DEF Min
<1>2. CASE ~(a <= b)
  BY <1>2 DEF Min
<1>3. QED
  BY <1>1, <1>2

\* A writer puts the next bytes of its frame into the stream.
LEMMA WriteKeeps ==
  ASSUME ControlInv, NEW r \in Writers, WriteStreamFrame(r)
  PROVE  ControlInv'
<1>b. PICK w, f, from, n, h :
        /\ w = bytesOf(r) /\ f = frameOf(r) /\ from = written[r]
        /\ n = Len(order) /\ h = Len(handled)
  OBVIOUS
<1>0. r \in Roles /\ pc[r] = "write" /\ r \in {"subscriber", "publisher"} /\ writeMu = r /\ r # None
  BY DEF WriteStreamFrame, Roles, Writers, None, ControlInv, Places
<1>1. f \in Frames /\ w = streamFrame(f) /\ IsFrameBytes(w) /\ frameLen(r) = Len(w)
  BY <1>0, <1>b, WritersFrame DEF ControlInv, Writing, frameLen
<1>2. /\ w \in Seq(Byte) /\ Len(w) \in Nat /\ 0 < Len(w) /\ Len(w) <= Window
      /\ varintLen(w[1]) \in Nat /\ varintLen(w[1]) < Len(w)
  BY <1>1 DEF IsFrameBytes
<1>3. /\ order \in Seq(Frames) /\ handled \in Seq(Frames) /\ control \in Seq(Byte)
      /\ written \in [Writers -> 0..Window] /\ Window \in Nat
      /\ n \in Nat /\ h \in Nat /\ Len(control) \in Nat /\ from \in Nat
  <2>1. /\ order \in Seq(Frames) /\ handled \in Seq(Frames) /\ control \in Seq(Byte)
        /\ written \in [Writers -> 0..Window] /\ Window \in Nat
    BY Parameters DEF ControlInv, TypeOK
  <2>2. n \in Nat /\ h \in Nat /\ Len(control) \in Nat
    BY <1>b, <2>1, LenProperties
  <2>3. from \in 0..Window
    BY <1>b, <2>1
  <2>4. QED
    BY <2>1, <2>2, <2>3
<1>m. PICK to : to = Min({IF from < varintLen(w[1]) THEN varintLen(w[1]) ELSE Len(w),
                          from + Window - Len(control)})
  OBVIOUS
<1>4. /\ sessionUp /\ to > from
      /\ control' = control \o SubSeq(w, from + 1, to)
      /\ written' = [written EXCEPT ![r] = to]
      /\ order' = IF from = 0 THEN Append(order, f) ELSE order
      /\ UNCHANGED <<cancelled, run, errCh, pc, writeMu, subscribed, published, sessionUp,
                     reader, handled, todo, path, connUp, sharedMu, scope>>
  BY <1>b, <1>m, <1>1 DEF WriteStreamFrame, runVars, countVars, serverVars, connVars
<1>5. to \in Nat /\ to <= Len(w) /\ from < to
  <2>u. PICK u, v : /\ u = (IF from < varintLen(w[1]) THEN varintLen(w[1]) ELSE Len(w))
                    /\ v = from + Window - Len(control)
    OBVIOUS
  <2>1. u \in Int /\ v \in Int /\ u <= Len(w)
    BY <1>2, <1>3, <2>u
  <2>2. to = Min({u, v})
    BY <1>m, <2>u
  <2>3. to = IF u <= v THEN u ELSE v
    BY <2>1, <2>2, MinOfTwo
  <2>4. to \in Int /\ to <= Len(w)
    BY <1>2, <2>1, <2>3
  <2>5. QED
    BY <1>3, <1>4, <2>4
<1>6. PICK off : Layout(off, order, h, control) /\ InFlight(off)
  BY <1>4, <1>b DEF ControlInv, Stream
<1>g. PICK gs : gs = order'
  OBVIOUS
<1>7. \E o : /\ gs \in Seq(Frames) /\ Layout(o, gs, h, control) /\ h < Len(gs)
             /\ Len(gs) \in Nat /\ gs[Len(gs)] = f
             /\ o[h] + Len(control) = o[Len(gs) - 1] + from
  <2>1. CASE from = 0
    <3>1. off[h] + Len(control) = off[n]
      BY <1>0, <1>6, <1>b, <2>1 DEF InFlight
    <3>2. PICK o : Layout(o, Append(order, f), h, control) /\ o[h] + Len(control) = o[n]
      <4>1. order \in Seq(Frames) /\ f \in Frames /\ Layout(off, order, h, control)
        BY <1>1, <1>3, <1>6
      <4>2. n = Len(order) /\ off[h] + Len(control) = off[Len(order)]
        BY <1>b, <3>1
      <4>3. \E o : Layout(o, Append(order, f), h, control) /\ o[h] + Len(control) = o[Len(order)]
        BY <4>1, <4>2, LayoutNext
      <4>4. QED
        BY <4>2, <4>3
    <3>3. gs = Append(order, f)
      BY <1>4, <1>g, <2>1
    <3>4. gs \in Seq(Frames) /\ Len(gs) = n + 1 /\ gs[n + 1] = f
      BY <1>1, <1>3, <1>b, <3>3, AppendProperties
    <3>5. h \in 0..n
      BY <1>6, <1>b DEF Layout
    <3>6. Layout(o, gs, h, control)
      BY <3>2, <3>3
    <3>7. (n + 1) - 1 = n /\ h < n + 1 /\ n + 1 \in Nat
      BY <1>3, <3>5
    <3>8. o[n] \in Nat
      <4>1. o \in [0..Len(gs) -> Nat]
        BY <3>6 DEF Layout
      <4>2. n \in 0..Len(gs)
        BY <1>3, <3>4
      <4>3. QED
        BY <4>1, <4>2
    <3>9. o[h] + Len(control) = o[n] + from
      BY <2>1, <3>2, <3>8
    <3>10. QED
      BY <3>4, <3>6, <3>7, <3>9
  <2>2. CASE from # 0
    <3>1. gs = order /\ from > 0
      BY <1>3, <1>4, <1>g, <2>2
    <3>2. /\ order # <<>> /\ order[n] = f
          /\ off[h] + Len(control) = off[n - 1] + from
      BY <1>0, <1>6, <1>b, <3>1 DEF InFlight
    <3>3. h < n
      <4>1. /\ h \in 0..n /\ off \in [0..n -> Nat]
            /\ \A i \in 1..n : off[i] = off[i - 1] + Len(streamFrame(order[i]))
        BY <1>6, <1>b DEF Layout
      <4>2. n \in 1..n /\ n - 1 \in 0..n /\ n \in 0..n
        BY <1>3, <1>b, <3>2
      <4>3. off[n] = off[n - 1] + Len(w) /\ off[n - 1] \in Nat
        BY <1>1, <3>2, <4>1, <4>2
      <4>4. off[n - 1] + from < off[n]
        BY <1>2, <1>3, <1>5, <4>3
      <4>5. h # n
        BY <1>3, <3>2, <4>1, <4>2, <4>4, SMTT(30)
      <4>6. QED
        BY <1>3, <4>1, <4>5
    <3>4. QED
      BY <1>3, <1>6, <1>b, <3>1, <3>2, <3>3
  <2>3. QED
    BY <2>1, <2>2
<1>8. PICK o : /\ gs \in Seq(Frames) /\ Layout(o, gs, h, control) /\ h < Len(gs)
               /\ Len(gs) \in Nat /\ gs[Len(gs)] = f
               /\ o[h] + Len(control) = o[Len(gs) - 1] + from
  BY <1>7
<1>9. Layout(o, gs, h, control') /\ o[h] + Len(control') = o[Len(gs) - 1] + to
  <2>1. streamFrame(gs[Len(gs)]) = w
    BY <1>1, <1>8
  <2>2. from <= to /\ to <= Len(streamFrame(gs[Len(gs)]))
    BY <1>3, <1>5, <2>1
  <2>3. control' = control \o SubSeq(streamFrame(gs[Len(gs)]), from + 1, to)
    BY <1>4, <2>1
  <2>4. LET t == control \o SubSeq(streamFrame(gs[Len(gs)]), from + 1, to)
        IN  Layout(o, gs, h, t) /\ o[h] + Len(t) = o[Len(gs) - 1] + to
    BY <1>3, <1>5, <1>8, <2>2, LayoutGrows
  <2>5. QED
    BY <2>3, <2>4, Zenon
<1>10. written' \in [Writers -> 0..Window] /\ written'[r] = to
       /\ \A q \in Writers \ {r} : written'[q] = written[q]
  <2>1. to \in 0..Window
    BY <1>2, <1>3, <1>5
  <2>2. QED
    BY <1>3, <1>4, <2>1
<1>11. TypeOK'
  <2>1. control' \in Seq(Byte)
    BY <1>9 DEF Layout
  <2>2. order' \in Seq(Frames)
    BY <1>8, <1>g
  <2>3. QED
    BY <1>4, <1>10, <2>1, <2>2 DEF ControlInv, TypeOK
<1>12. Places'
  <2>1. \A q \in Writers : frameLen(q)' = frameLen(q)
    BY <1>4 DEF frameLen, bytesOf
  <2>2. \A q \in Writers : pc[q] = "write" => written'[q] <= frameLen(q)
    BY <1>1, <1>5, <1>10 DEF ControlInv, Places
  <2>3. QED
    BY <1>4, <2>1, <2>2 DEF ControlInv, Places
<1>13. Stream'
  <2>1. frameOf(writeMu)' = f
    BY <1>0, <1>4, <1>b DEF frameOf
  <2>2. writeMu' = r /\ written'[r] = to /\ to > 0 /\ handled' = handled /\ gs # <<>>
    BY <1>0, <1>3, <1>4, <1>5, <1>8, <1>10
  <2>3. InFlight(o)'
    BY <1>0, <1>8, <1>9, <1>b, <1>g, <2>1, <2>2 DEF InFlight
  <2>4. Layout(o, order, Len(handled), control)'
    BY <1>9, <1>b, <1>g, <2>2
  <2>5. QED
    BY <2>3, <2>4 DEF Stream
<1>14. HandledFirst'
  <2>1. h \in 0..n /\ n <= Len(gs) /\ \A i \in 1..n : gs[i] = order[i]
    BY <1>1, <1>3, <1>4, <1>6, <1>b, <1>g, AppendProperties DEF Layout
  <2>2. QED
    BY <1>3, <1>4, <1>8, <1>b, <1>g, <2>1 DEF ControlInv, HandledFirst
<1>15. QED
  BY <1>11, <1>12, <1>13, <1>14 DEF ControlInv

\* Init gives the invariant, and every step keeps it.
LEMMA ControlStarts == Init => ControlInv
<1> SUFFICES ASSUME Init PROVE ControlInv
  OBVIOUS
<1>1. /\ Len(Topics) = 2 /\ MaxCommands \in Nat /\ MaxCommands > 0
      /\ PathDepth \in Nat /\ Window \in Nat
  BY Parameters, SMT DEF Topics
<1>2. TypeOK
  <2>1. written \in [Writers -> 0..Window]
    BY <1>1 DEF Init
  <2>2. pc \in [Roles -> {"off", "enter", "lock", "write", "telemetry", "loop", "done"} \cup Calling]
    BY DEF Init
  <2>3. order \in Seq(Frames) /\ control \in Seq(Byte) /\ handled \in Seq(Frames)
    BY EmptySeq DEF Init
  <2>6. todo \in Seq(Subscribers)
    BY EmptySeq DEF Init
  <2>4. subscribed \in 0..Len(Topics) /\ published \in 0..MaxCommands /\ path \in 0..PathDepth
    BY <1>1 DEF Init
  <2>5. QED
    BY <2>1, <2>2, <2>3, <2>4, <2>6, Zenon DEF Init, TypeOK
<1>3. Places
  BY <1>1 DEF Init, Places, Writing, Writers, Roles, None
<1>4. Stream
  <2>o. PICK off : off = [i \in {0} |-> 0]
    OBVIOUS
  <2>1. Len(order) = 0 /\ Len(handled) = 0 /\ Len(control) = 0 /\ control \in Seq(Byte)
    BY EmptySeq DEF Init
  <2>2. off \in [0..0 -> Nat] /\ off[0] = 0 /\ 0..0 = {0} /\ 1..0 = {}
    BY <2>o
  <2>3. Layout(off, order, Len(handled), control)
    BY <2>1, <2>2 DEF Layout
  <2>4. InFlight(off)
    BY <2>1, <2>2 DEF InFlight, Init
  <2>5. QED
    BY <2>3, <2>4 DEF Stream
<1>5. HandledFirst
  BY DEF Init, HandledFirst
<1>6. QED
  BY <1>2, <1>3, <1>4, <1>5 DEF ControlInv

LEMMA ControlKeeps ==
  ASSUME ControlInv, [Next]_vars
  PROVE  ControlInv'
<1>1. ASSUME NEW r \in Writers, Write(r) PROVE ControlInv'
  BY <1>1, EnterIsCalm, CalmKeeps, LockKeeps, WriteKeeps, UnlockKeeps DEF Write
<1>2. CASE ReadStreamFrame
  BY <1>2, ReadKeeps
<1>3. CASE Main \/ Cancel \/ SessionEnds \/ ConnDies
  BY <1>3, RunIsCalm, CalmKeeps
<1>4. CASE \/ publishTelemetry \/ TelemetryTick \/ publishCommand
           \/ \E r \in Requesters : Request(r) \/ RequestTick(r)
           \/ \E r \in Roles : RoleStops(r)
           \/ Receive \/ SeesEnd
  BY <1>4, LoopsAreCalm, CalmKeeps
<1>5. CASE ReaderStops \/ OtherPublishes \/ \E q \in Subscribers : Publish(q)
  BY <1>5, BrokerIsCalm, CalmKeeps
<1>6. CASE UNCHANGED vars
  <2>1. Calm
    BY <1>6, Bearings DEF vars, runVars, lockVars, countVars, serverVars, connVars, Calm, Places
  <2>2. QED
    BY <2>1, CalmKeeps
<1>7. QED
  BY <1>1, <1>2, <1>3, <1>4, <1>5, <1>6 DEF Next, Server

LEMMA ControlHolds == Spec => []ControlInv
BY ControlStarts, ControlKeeps, PTL DEF Spec

LEMMA FramesValid == Invalid \notin Frames
<1>1. \A f \in Frames : f.kind # 0
  BY DEF Frames, SubFrame, PubFrame, KindSub, KindPub
<1>2. Invalid.kind = 0
  BY DEF Invalid
<1>3. QED
  BY <1>1, <1>2

\* For any frames, windows and capacities the variables keep their types; in particular
\* what readControl takes from the bytes of the control stream is always a frame that
\* this client sends, and never Invalid.
THEOREM MixedTypeCorrect == Spec => [](TypeOK /\ Invalid \notin Range(handled))
<1>1. ControlInv => TypeOK /\ Invalid \notin Range(handled)
  <2> SUFFICES ASSUME ControlInv PROVE TypeOK /\ Invalid \notin Range(handled)
    OBVIOUS
  <2>1. handled \in Seq(Frames)
    BY DEF ControlInv, TypeOK
  <2>2. Range(handled) \subseteq Frames
    BY <2>1 DEF Range
  <2>3. QED
    BY <2>2, FramesValid DEF ControlInv
<1>2. QED
  BY <1>1, ControlHolds, PTL

LEMMA PrefixOfOrder == ControlInv => ControlFramesWhole
<1> SUFFICES ASSUME ControlInv PROVE ControlFramesWhole
  OBVIOUS
<1>h. PICK h : h = Len(handled)
  OBVIOUS
<1>1. /\ order \in Seq(Frames) /\ handled \in Seq(Frames) /\ h \in Nat
      /\ h <= Len(order) /\ \A i \in 1..h : handled[i] = order[i]
  <2>1. order \in Seq(Frames) /\ handled \in Seq(Frames)
    BY DEF ControlInv, TypeOK
  <2>2. order \in Seq(Frames)
    BY <2>1
  <2>3. QED
    BY <1>h, <2>1, <2>2 DEF ControlInv, HandledFirst
<1>2. SubSeq(handled, 1, h) = SubSeq(order, 1, h)
  <2>1. SubSeq(handled, 0 + 1, 0 + Len(handled)) = handled
    BY <1>1, <1>h, SubSeqIs
  <2>2. SubSeq(order, 0 + 1, 0 + Len(handled)) = handled
    BY <1>1, <1>h, SubSeqIs
  <2>3. 0 + 1 = 1 /\ 0 + Len(handled) = h
    BY <1>1, <1>h
  <2>4. QED
    BY <2>1, <2>2, <2>3
<1>3. QED
  BY <1>1, <1>2, <1>h DEF ControlFramesWhole, IsPrefix

\* However the subscriber, the publisher and the server interleave, and in whatever
\* pieces flow control lets the bytes through, the server handles the frames that were
\* written, whole and in the order in which writeControl let them in.
THEOREM ControlStreamWhole == Spec => []ControlFramesWhole
BY PrefixOfOrder, ControlHolds, PTL
=============================================================================
