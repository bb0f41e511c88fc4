----------------------------- MODULE WireProofs -----------------------------
(***************************************************************************)
(* Theorems about module Wire, for all keys, names and payloads, both byte *)
(* orders on either side, and any number of packets and Packet objects.    *)
(***************************************************************************)
EXTENDS Wire, SequenceTheorems, FiniteSetTheorems, TLAPS

USE DEF senderVars, receiverVars, wireVars

-----------------------------------------------------------------------------
(* Byte order and header.                                                  *)

TypeNames == {Types[i] : i \in DOMAIN Types}

(* A number is a sequence of 8 bytes.                                      *)
LEMMA Uint64IsSeq ==
  ASSUME NEW k \in Uint64
  PROVE  k \in Seq(Byte) /\ Len(k) = 8
<1>1. k \in Seq(Byte)
  BY SeqDef DEF Uint64
<1>2. DOMAIN k = 1 .. Len(k) /\ Len(k) \in Nat
  BY <1>1, LenProperties
<1> QED
  BY <1>1, <1>2 DEF Uint64

(* Swapping the bytes of a number twice gives it back.                     *)
LEMMA SwapTwice ==
  ASSUME NEW k \in Uint64
  PROVE  byteswap(k) \in Uint64 /\ byteswap(byteswap(k)) = k
<1>1. Len(k) = 8
  BY Uint64IsSeq
<1>2. byteswap(k) = [i \in 1 .. 8 |-> k[9 - i]]
  BY <1>1 DEF byteswap
<1>3. byteswap(k) \in Uint64
  BY <1>2 DEF Uint64
<1>4. Len(byteswap(k)) = 8
  BY <1>3, Uint64IsSeq
<1> DEFINE s == byteswap(k)
<1>5. byteswap(s) = [i \in 1 .. 8 |-> s[9 - i]]
  <2>1. byteswap(s) = [i \in 1 .. Len(s) |-> s[Len(s) + 1 - i]]
    BY DEF byteswap
  <2> HIDE DEF s
  <2> QED
    BY <1>4, <2>1 DEF s
<1>6. \A i \in 1 .. 8 : byteswap(s)[i] = k[i]
  BY <1>2, <1>5
<1> QED
  BY <1>3, <1>5, <1>6 DEF Uint64

(* A key in network order lies in memory the same way on every host.       *)
LEMMA KeyOrder ==
  ASSUME NEW l \in BOOLEAN, NEW k \in Uint64
  PROVE  /\ InMemory(l, host_to_network64(l, k)) = k
         /\ network_to_host64(l, InMemory(l, k)) = k
BY SwapTwice DEF InMemory, host_to_network64, network_to_host64

(* The version in memory, as a host of the same or the other order reads it.*)
LEMMA VersionOrder ==
  ASSUME NEW l \in BOOLEAN, NEW m \in BOOLEAN
  PROVE  /\ VersionBytes(l) \in Seq(Byte) /\ Len(VersionBytes(l)) = 2
         /\ InMemory(m, VersionBytes(l)) = Version1 <=> l = m
<1>1. byteswap(<<0, 1>>) = <<1, 0>> /\ byteswap(<<1, 0>>) = <<0, 1>>
  BY DEF byteswap
<1>2. <<0, 1>> # <<1, 0>>
  OBVIOUS
<1>3. VersionBytes(l) = IF l THEN <<1, 0>> ELSE <<0, 1>>
  BY <1>1 DEF VersionBytes, InMemory, Version1
<1>4. InMemory(m, VersionBytes(l)) = IF l = m THEN <<0, 1>> ELSE <<1, 0>>
  BY <1>1, <1>3 DEF InMemory
<1>5. /\ <<0, 1>> \in Seq(Byte) /\ Len(<<0, 1>>) = 2
      /\ <<1, 0>> \in Seq(Byte) /\ Len(<<1, 0>>) = 2
  <2>1. 0 \in Byte /\ 1 \in Byte
    BY DEF Byte
  <2> QED
    BY <2>1
<1> QED
  BY <1>2, <1>3, <1>4, <1>5 DEF Version1

(* Joining byte sequences, by name: the provers match it more easily.      *)
Cat(s, t) == s \o t

LEMMA Joined ==
  ASSUME NEW s \in Seq(Byte), NEW t \in Seq(Byte)
  PROVE  /\ Cat(s, t) \in Seq(Byte) /\ Len(Cat(s, t)) = Len(s) + Len(t)
         /\ \A i \in 1 .. Len(s) + Len(t) :
              Cat(s, t)[i] = IF i <= Len(s) THEN s[i] ELSE t[i - Len(s)]
<1>2. /\ s \o t \in Seq(Byte) /\ Len(s \o t) = Len(s) + Len(t)
      /\ \A i \in 1 .. Len(s) + Len(t) :
           (s \o t)[i] = IF i <= Len(s) THEN s[i] ELSE t[i - Len(s)]
  BY ConcatProperties
<1> QED
  BY <1>2 DEF Cat

(* The single bytes: a name is read back from its code.                    *)
LEMMA Codes ==
  /\ \A name \in {"client", "server"} :
       CodeOf(Origins, name) \in Byte /\ NameOf(Origins, CodeOf(Origins, name)) = name
  /\ \A name \in TypeNames :
       CodeOf(Types, name) \in Byte /\ NameOf(Types, CodeOf(Types, name)) = name
<1>1. ASSUME NEW names, DOMAIN names \subseteq Byte, NEW name, \E code \in DOMAIN names : names[code] = name
      PROVE  CodeOf(names, name) \in Byte /\ NameOf(names, CodeOf(names, name)) = name
  BY <1>1 DEF CodeOf, NameOf
<1>2. DOMAIN Origins \subseteq Byte /\ DOMAIN Types \subseteq Byte
  BY DEF Origins, Types, Byte
<1>3. Origins[1] = "client" /\ Origins[2] = "server" /\ {1, 2} \subseteq DOMAIN Origins
  BY DEF Origins
<1> QED
  BY <1>1, <1>2, <1>3 DEF TypeNames

(* The four fields of a header in a row, and where each is found.          *)
Laid(z, v, c, k) == Cat(Cat(Cat(z, v), c), k)

LaidOut(h, v, c, k) ==
  /\ h \in Seq(Byte) /\ Len(h) = 16
  /\ h[5] = v[1] /\ h[6] = v[2]
  /\ h[7] = c[1] /\ h[8] = c[2]
  /\ \A i \in 9 .. 16 : h[i] = k[i - 8]

LEMMA FourParts ==
  ASSUME NEW z \in Seq(Byte), NEW v \in Seq(Byte), NEW c \in Seq(Byte), NEW k \in Seq(Byte),
         Len(z) = 4, Len(v) = 2, Len(c) = 2, Len(k) = 8
  PROVE  LaidOut(Laid(z, v, c, k), v, c, k)
<1> DEFINE a == Cat(z, v)
           b == Cat(a, c)
           h == Cat(b, k)
<1>1. /\ a \in Seq(Byte) /\ Len(a) = 6
      /\ a[5] = v[1] /\ a[6] = v[2]
  <2>1. /\ a \in Seq(Byte) /\ Len(a) = Len(z) + Len(v)
        /\ \A i \in 1 .. Len(z) + Len(v) : a[i] = IF i <= Len(z) THEN z[i] ELSE v[i - Len(z)]
    BY Joined
  <2> HIDE DEF a
  <2> QED
    BY <2>1
<1> HIDE DEF a
<1>2. /\ b \in Seq(Byte) /\ Len(b) = 8
      /\ \A i \in 1 .. 6 : b[i] = a[i]
      /\ b[7] = c[1] /\ b[8] = c[2]
  <2>1. /\ b \in Seq(Byte) /\ Len(b) = Len(a) + Len(c)
        /\ \A i \in 1 .. Len(a) + Len(c) : b[i] = IF i <= Len(a) THEN a[i] ELSE c[i - Len(a)]
    BY <1>1, Joined
  <2> HIDE DEF b
  <2> QED
    BY <1>1, <2>1
<1> HIDE DEF b
<1>4. /\ h \in Seq(Byte) /\ Len(h) = 16
      /\ \A i \in 1 .. 8 : h[i] = b[i]
      /\ \A i \in 9 .. 16 : h[i] = k[i - 8]
  <2>1. /\ h \in Seq(Byte) /\ Len(h) = Len(b) + Len(k)
        /\ \A i \in 1 .. Len(b) + Len(k) : h[i] = IF i <= Len(b) THEN b[i] ELSE k[i - Len(b)]
    BY <1>2, Joined
  <2> HIDE DEF h
  <2> QED
    BY <1>2, <2>1
<1> HIDE DEF h
<1>5. /\ h \in Seq(Byte) /\ Len(h) = 16
      /\ h[5] = v[1] /\ h[6] = v[2]
      /\ h[7] = c[1] /\ h[8] = c[2]
      /\ \A i \in 9 .. 16 : h[i] = k[i - 8]
  BY <1>1, <1>2, <1>4
<1>6. Laid(z, v, c, k) = h
  BY DEF Laid, h, b, a
<1> QED
  BY <1>5, <1>6 DEF LaidOut

(* What lies where in a header h.                                          *)
HeaderOf(h, l, o, t, k) ==
  /\ h \in Seq(Byte) /\ Len(h) = HeaderSize
  /\ SubSeq(h, 5, 6) = VersionBytes(l)
  /\ h[7] = CodeOf(Origins, o) /\ h[8] = CodeOf(Types, t)
  /\ SubSeq(h, 9, HeaderSize) = k

(* The bytes of a header lie there.                                        *)
LEMMA HeaderLayout ==
  ASSUME NEW l \in BOOLEAN, NEW o \in {"client", "server"}, NEW t \in TypeNames,
         NEW k \in Uint64
  PROVE  HeaderOf(HeaderBytes(l, o, t, k), l, o, t, k)
<1> DEFINE z == <<0, 0, 0, 0>>
           v == VersionBytes(l)
           c == <<CodeOf(Origins, o), CodeOf(Types, t)>>
           h == Laid(z, v, c, k)
<1>1. HeaderBytes(l, o, t, k) = h
  BY KeyOrder DEF HeaderBytes, Cat, Laid
<1>2. /\ z \in Seq(Byte) /\ Len(z) = 4
      /\ v \in Seq(Byte) /\ Len(v) = 2
      /\ c \in Seq(Byte) /\ Len(c) = 2
      /\ k \in Seq(Byte) /\ Len(k) = 8
  <2>1. z \in Seq(Byte) /\ Len(z) = 4
    <3>1. 0 \in Byte
      BY DEF Byte
    <3> QED
      BY <3>1
  <2>2. c \in Seq(Byte) /\ Len(c) = 2
    <3>1. CodeOf(Origins, o) \in Byte /\ CodeOf(Types, t) \in Byte
      BY Codes
    <3> QED
      BY <3>1
  <2> QED
    BY <2>1, <2>2, VersionOrder, Uint64IsSeq
<1>3. c[1] = CodeOf(Origins, o) /\ c[2] = CodeOf(Types, t)
  OBVIOUS
<1>4. PICK x \in Seq(Byte), y \in Seq(Byte), d \in Seq(Byte) :
        /\ Len(x) = 4 /\ Len(y) = 2 /\ Len(d) = 2
        /\ y = VersionBytes(l)
        /\ d[1] = CodeOf(Origins, o) /\ d[2] = CodeOf(Types, t)
        /\ HeaderBytes(l, o, t, k) = Laid(x, y, d, k)
  <2> HIDE DEF z, c
  <2> QED
    BY <1>1, <1>2, <1>3
<1> HIDE DEF z, v, c
<1>5. k \in Seq(Byte) /\ Len(k) = 8
  BY Uint64IsSeq
<1> DEFINE g == Laid(x, y, d, k)
<1>6. /\ g \in Seq(Byte) /\ Len(g) = 16
      /\ g[5] = y[1] /\ g[6] = y[2]
      /\ g[7] = d[1] /\ g[8] = d[2]
      /\ \A i \in 9 .. 16 : g[i] = k[i - 8]
  <2>1. LaidOut(Laid(x, y, d, k), y, d, k)
    BY <1>4, <1>5, FourParts
  <2> QED
    BY <2>1 DEF LaidOut
<1> HIDE DEF g
<1>7. \A i \in 1 .. 16 : g[i] \in Byte
  BY <1>6, ElementOfSeq
<1>8. SubSeq(g, 5, 6) = y
  <2>1. /\ SubSeq(g, 5, 6) \in Seq(Byte) /\ Len(SubSeq(g, 5, 6)) = 2
        /\ \A i \in 1 .. 2 : SubSeq(g, 5, 6)[i] = g[4 + i]
    BY <1>7, SubSeqProperties
  <2>2. \A i \in 1 .. 2 : SubSeq(g, 5, 6)[i] = y[i]
    <3>1. 1 \in 1 .. 2 /\ 2 \in 1 .. 2 /\ \A i \in 1 .. 2 : i = 1 \/ i = 2
      OBVIOUS
    <3>2. SubSeq(g, 5, 6)[1] = g[4 + 1] /\ SubSeq(g, 5, 6)[2] = g[4 + 2]
      BY <2>1, <3>1
    <3>3. SubSeq(g, 5, 6)[1] = y[1] /\ SubSeq(g, 5, 6)[2] = y[2]
      BY <1>6, <3>2
    <3> QED
      BY <3>1, <3>3
  <2> QED
    BY <1>4, <1>5, <2>1, <2>2, SeqEqual
<1>9. SubSeq(g, 9, 16) = k
  <2>1. /\ SubSeq(g, 9, 16) \in Seq(Byte) /\ Len(SubSeq(g, 9, 16)) = 8
        /\ \A i \in 1 .. 8 : SubSeq(g, 9, 16)[i] = g[8 + i]
    BY <1>7, SubSeqProperties
  <2>2. \A i \in 1 .. 8 : SubSeq(g, 9, 16)[i] = k[i]
    <3> SUFFICES ASSUME NEW i \in 1 .. 8 PROVE g[8 + i] = k[i]
      BY <2>1
    <3>1. PICK j \in 9 .. 16 : j = 8 + i /\ j - 8 = i
      OBVIOUS
    <3>2. g[j] = k[j - 8]
      BY <1>6
    <3> QED
      BY <3>1, <3>2
  <2>3. PICK s : s = SubSeq(g, 9, 16)
    OBVIOUS
  <2>4. s \in Seq(Byte) /\ Len(s) = 8 /\ \A i \in 1 .. 8 : s[i] = k[i]
    BY <2>1, <2>2, <2>3
  <2>5. s = k
    BY <1>5, <2>4, SeqEqual
  <2> QED
    BY <2>3, <2>5
<1> QED
  BY <1>4, <1>6, <1>8, <1>9 DEF g, HeaderOf, HeaderSize

(* A packet is a header and a payload: each is found where it was put.     *)
Split(b, h, p) ==
  /\ b \in Seq(Byte) /\ Len(b) = 16 + Len(p)
  /\ b[7] = h[7] /\ b[8] = h[8]
  /\ SubSeq(b, 5, 6) = SubSeq(h, 5, 6)
  /\ SubSeq(b, 9, 16) = SubSeq(h, 9, 16)
  /\ SubSeq(b, 17, Len(b)) = p

LEMMA PacketSplits ==
  ASSUME NEW h \in Seq(Byte), NEW p \in Seq(Byte), Len(h) = 16
  PROVE  Split(Cat(h, p), h, p)
<1> DEFINE b == Cat(h, p)
<1>1. Len(p) \in Nat
  BY LenProperties
<1>2. /\ b \in Seq(Byte) /\ Len(b) = 16 + Len(p)
      /\ b[7] = h[7] /\ b[8] = h[8]
      /\ \A i \in 17 .. 16 + Len(p) : b[i] = p[i - 16]
  <2>1. /\ b \in Seq(Byte) /\ Len(b) = Len(h) + Len(p)
        /\ \A i \in 1 .. Len(h) + Len(p) : b[i] = IF i <= Len(h) THEN h[i] ELSE p[i - Len(h)]
    BY Joined
  <2> HIDE DEF b
  <2> QED
    BY <1>1, <2>1
<1>3. /\ SubSeq(b, 5, 6) = SubSeq(h, 5, 6)
      /\ SubSeq(b, 9, 16) = SubSeq(h, 9, 16)
  <2>1. 5 \in 1 .. Len(h) /\ 6 \in 1 .. Len(h) /\ 9 \in 1 .. Len(h) /\ 16 \in 1 .. Len(h)
    OBVIOUS
  <2> QED
    BY <2>1, SubSeqOfConcat1, Zenon DEF Cat
<1> HIDE DEF b
<1>4. SubSeq(b, 17, Len(b)) = p
  <2>1. \A i \in 17 .. Len(b) : b[i] \in Byte
    BY <1>1, <1>2, ElementOfSeq
  <2>2. /\ SubSeq(b, 17, Len(b)) \in Seq(Byte)
        /\ Len(SubSeq(b, 17, Len(b))) = IF 17 <= Len(b) THEN Len(b) - 17 + 1 ELSE 0
        /\ \A i \in 1 .. Len(b) - 17 + 1 : SubSeq(b, 17, Len(b))[i] = b[17 + i - 1]
    BY <1>1, <1>2, <2>1, SubSeqProperties
  <2>3. Len(SubSeq(b, 17, Len(b))) = Len(p)
    BY <1>1, <1>2, <2>2
  <2>4. \A i \in 1 .. Len(p) : SubSeq(b, 17, Len(b))[i] = p[i]
    <3> SUFFICES ASSUME NEW i \in 1 .. Len(p) PROVE SubSeq(b, 17, Len(b))[i] = p[i]
      OBVIOUS
    <3>1. PICK j \in 17 .. 16 + Len(p) : j = 17 + i - 1 /\ j - 16 = i
      BY <1>1
    <3>2. b[j] = p[j - 16]
      BY <1>2
    <3>3. SubSeq(b, 17, Len(b))[i] = b[j]
      BY <1>1, <1>2, <2>2, <3>1
    <3> QED
      BY <3>1, <3>2, <3>3
  <2> QED
    BY <2>2, <2>3, <2>4, SeqEqual
<1> QED
  BY <1>2, <1>3, <1>4 DEF Split, b

-----------------------------------------------------------------------------
(* What a packet says.                                                     *)

(* What a construction call asks for, field by field.                      *)
LEMMA RequestShape ==
  ASSUME NEW r \in Requests
  PROVE  /\ r = Request(r.origin, r.type, r.topic_key, r.payload)
         /\ r.origin \in {"client", "server"} /\ r.type \in TypeNames
         /\ r.topic_key \in Uint64 /\ r.payload \in Seq(Byte)
<1>1. Zero \in Uint64 /\ <<>> \in Seq(Byte)
  BY DEF Zero, Uint64, Byte
<1>2. {"topic_request", "topic_response", "publish", "subscribe", "unsubscribe", "fanout"}
        \subseteq TypeNames
  <2>1. /\ Types[1] = "topic_request" /\ Types[2] = "topic_response" /\ Types[3] = "publish"
        /\ Types[4] = "subscribe" /\ Types[5] = "unsubscribe" /\ Types[6] = "fanout"
        /\ 1 .. 6 \subseteq DOMAIN Types
    BY DEF Types
  <2> QED
    BY <2>1 DEF TypeNames
<1>3. PICK o \in {"client", "server"},
           t \in {"topic_request", "topic_response", "publish", "subscribe", "unsubscribe", "fanout"},
           k \in Uint64, p \in Seq(Byte) : r = Request(o, t, k, p)
  <2>1. CASE \E n \in Names : r = topic_request(n)
    BY <1>1, <2>1, WireAssumption, Zenon DEF topic_request
  <2>2. CASE \E k \in Keys, n \in Names : r = topic_response(k, n)
    BY <2>2, WireAssumption, Zenon DEF topic_response
  <2>3. CASE \E k \in Keys, p \in Payloads : r = publish(k, p)
    BY <2>3, WireAssumption, Zenon DEF publish
  <2>4. CASE \E k \in Keys : r = subscribe(k)
    BY <1>1, <2>4, WireAssumption, Zenon DEF subscribe
  <2>5. CASE \E k \in Keys : r = unsubscribe(k)
    BY <1>1, <2>5, WireAssumption, Zenon DEF unsubscribe
  <2>6. CASE \E k \in Keys, p \in Payloads : r = fanout(k, p)
    BY <2>6, WireAssumption, Zenon DEF fanout
  <2> QED
    <3>1. \/ r \in {topic_request(n) : n \in Names}
          \/ r \in {topic_response(k, n) : k \in Keys, n \in Names}
          \/ r \in {publish(k, p) : k \in Keys, p \in Payloads}
          \/ r \in {subscribe(k) : k \in Keys}
          \/ r \in {unsubscribe(k) : k \in Keys}
          \/ r \in {fanout(k, p) : k \in Keys, p \in Payloads}
      BY DEF Requests
    <3> QED
      BY <2>1, <2>2, <2>3, <2>4, <2>5, <2>6, <3>1
<1> QED
  BY <1>2, <1>3 DEF Request

(* The bytes that construct leaves in the buffer.                          *)
BytesOf(l, r) == HeaderBytes(l, r.origin, r.type, r.topic_key) \o r.payload

(* A packet read on any host says what its sender was asked to build; the  *)
(* version arrives unharmed exactly between hosts of the same byte order.  *)
LEMMA RoundTrip ==
  ASSUME NEW l \in BOOLEAN, NEW m \in BOOLEAN, NEW r \in Requests
  PROVE  /\ BytesOf(l, r) \in Seq(Byte) /\ BytesOf(l, r) # <<>>
         /\ Message(m, BytesOf(l, r)) = r
         /\ version(m, BytesOf(l, r)) = Version1 <=> l = m
<1>1. /\ r = Request(r.origin, r.type, r.topic_key, r.payload)
      /\ r.origin \in {"client", "server"} /\ r.type \in TypeNames
      /\ r.topic_key \in Uint64 /\ r.payload \in Seq(Byte)
  BY RequestShape
<1>2. PICK o \in {"client", "server"}, t \in TypeNames, k \in Uint64, p \in Seq(Byte) :
        o = r.origin /\ t = r.type /\ k = r.topic_key /\ p = r.payload
  BY <1>1
<1>3. PICK h : h = HeaderBytes(l, o, t, k)
  OBVIOUS
<1>4. /\ h \in Seq(Byte) /\ Len(h) = HeaderSize
      /\ SubSeq(h, 5, 6) = VersionBytes(l)
      /\ h[7] = CodeOf(Origins, o) /\ h[8] = CodeOf(Types, t)
      /\ SubSeq(h, 9, HeaderSize) = k
  <2>1. HeaderOf(h, l, o, t, k)
    BY <1>3, HeaderLayout
  <2> QED
    BY <2>1 DEF HeaderOf
<1>5. PICK b : b = Cat(h, p)
  OBVIOUS
<1>6. Split(b, h, p)
  BY <1>4, <1>5, PacketSplits DEF HeaderSize
<1>7. BytesOf(l, r) = b
  BY <1>2, <1>3, <1>5, Zenon DEF BytesOf, Cat
<1>8. Len(p) \in Nat
  BY LenProperties
<1>9. LongEnough(b) /\ b \in Seq(Byte) /\ b # <<>>
  <2>1. b \in Seq(Byte) /\ Len(b) = 16 + Len(p)
    BY <1>6 DEF Split
  <2> QED
    BY <1>8, <2>1 DEF LongEnough, HeaderSize
<1>10. Message(m, b) = r
  <2>1. Message(m, b) = Request(NameOf(Origins, CodeOf(Origins, o)), NameOf(Types, CodeOf(Types, t)),
                                network_to_host64(m, InMemory(m, k)), p)
    <3>1. Message(m, b) = Request(NameOf(Origins, b[7]), NameOf(Types, b[8]),
                                  network_to_host64(m, InMemory(m, SubSeq(b, 9, 16))),
                                  SubSeq(b, 17, Len(b)))
      <4>1. HeaderSize = 16 /\ HeaderSize + 1 = 17
        BY DEF HeaderSize
      <4> QED
        BY <1>9, <4>1, Zenon DEF Message
    <3>2. /\ b[7] = CodeOf(Origins, o) /\ b[8] = CodeOf(Types, t)
          /\ SubSeq(b, 9, 16) = k /\ SubSeq(b, 17, Len(b)) = p
      BY <1>4, <1>6 DEF Split, HeaderSize
    <3> QED
      BY <3>1, <3>2
  <2> QED
    BY <1>1, <1>2, <2>1, Codes, KeyOrder
<1>11. version(m, b) = Version1 <=> l = m
  <2>1. version(m, b) = InMemory(m, VersionBytes(l))
    BY <1>4, <1>6 DEF version, Split
  <2> QED
    BY <2>1, VersionOrder
<1> QED
  BY <1>7, <1>9, <1>10, <1>11

(* Packets of other programs: too short, or of an unknown type.            *)
LEMMA ForeignSays ==
  ASSUME NEW m \in BOOLEAN, NEW n \in {0, HeaderSize - 1, HeaderSize}
  PROVE  /\ Foreign(n) \in Seq(Byte)
         /\ Message(m, Foreign(n)) = ForeignMeaning(n)
         /\ ForeignMeaning(n).type \notin TypeNames
<1>1. n \in Nat
  BY DEF HeaderSize
<1>2. Foreign(n) \in Seq(Byte) /\ Len(Foreign(n)) = n
  <2>1. Foreign(n) \in Seq(Byte)
    BY <1>1, SeqDef DEF Foreign, Byte
  <2> QED
    BY <1>1, <2>1, LenProperties DEF Foreign
<1>3. "short" \notin TypeNames /\ "unknown" \notin TypeNames
  BY DEF TypeNames, Types
<1>4. ForeignMeaning(n).type \notin TypeNames
  BY <1>3 DEF ForeignMeaning, TooShort, Request
<1>5. CASE n < HeaderSize
  BY <1>1, <1>2, <1>4, <1>5 DEF Message, LongEnough, ForeignMeaning, HeaderSize
<1>6. CASE n = HeaderSize
  <2> DEFINE f == Foreign(n)
  <2>1. LongEnough(f)
    BY <1>2, <1>6 DEF LongEnough, HeaderSize
  <2>2. \A i \in 1 .. 16 : f[i] = 0
    BY <1>6 DEF Foreign, HeaderSize
  <2>3. NameOf(Origins, f[7]) = "unknown" /\ NameOf(Types, f[8]) = "unknown"
    <3>1. 0 \notin DOMAIN Origins /\ 0 \notin DOMAIN Types
      BY DEF Origins, Types
    <3> QED
      BY <2>2, <3>1 DEF NameOf
  <2>4. SubSeq(f, 9, 16) = Zero
    <3> HIDE DEF f
    <3>1. \A i \in 9 .. 16 : f[i] \in Byte
      BY <2>2 DEF Byte
    <3>2. /\ SubSeq(f, 9, 16) \in Seq(Byte) /\ Len(SubSeq(f, 9, 16)) = 8
          /\ \A i \in 1 .. 8 : SubSeq(f, 9, 16)[i] = f[8 + i]
      BY <3>1, SubSeqProperties
    <3>3. \A i \in 1 .. 8 : SubSeq(f, 9, 16)[i] = Zero[i]
      BY <2>2, <3>2 DEF Zero
    <3>4. Zero \in Uint64
      BY DEF Zero, Uint64, Byte
    <3>5. Zero \in Seq(Byte) /\ Len(Zero) = 8
      BY <3>4, Uint64IsSeq
    <3> QED
      BY <3>2, <3>3, <3>5, SeqEqual
  <2>5. SubSeq(f, 17, 16) = <<>>
    BY SubSeqEmpty
  <2>6. Foreign(n - HeaderSize) = <<>>
    BY <1>6 DEF Foreign, HeaderSize
  <2>7. network_to_host64(m, InMemory(m, Zero)) = Zero
    <3>1. Zero \in Uint64
      BY DEF Zero, Uint64, Byte
    <3> QED
      BY <3>1, KeyOrder
  <2>8. Len(f) = 16
    BY <1>2, <1>6 DEF HeaderSize
  <2>9. Message(m, f) = Request("unknown", "unknown", Zero, <<>>)
    <3> HIDE DEF f
    <3>1. HeaderSize = 16 /\ HeaderSize + 1 = 17
      BY DEF HeaderSize
    <3> QED
      BY <2>1, <2>3, <2>4, <2>5, <2>7, <2>8, <3>1, Zenon DEF Message
  <2> QED
    BY <1>2, <1>4, <1>6, <2>6, <2>9 DEF ForeignMeaning, HeaderSize
<1> QED
  BY <1>5, <1>6 DEF HeaderSize

-----------------------------------------------------------------------------
(* The inductive invariant.                                                *)

(* Between hosts of byte orders l, the bytes say what was meant.           *)
Faithful(l, bytes, meaning) ==
  /\ Message(l.receiver, bytes) = meaning
  /\ meaning.type \in TypeNames =>
       (version(l.receiver, bytes) = Version1 <=> l.sender = l.receiver)

BufferFaithful == m_buffer # <<>> => built \in Requests /\ Faithful(little, m_buffer, built)
WireFaithful == \A i \in DOMAIN wire : Faithful(little, wire[i].bytes, wire[i].built)
ReceivedFaithful ==
  \A i \in DOMAIN received : Faithful(little, received[i].bytes, received[i].built)

(* No packet is destroyed twice; one not destroyed has an owner; an owner  *)
(* has a packet that is not destroyed; no two own the same one.            *)
Owned ==
  /\ \A p \in DOMAIN received : destroyed[p] \in {0, 1}
  /\ \A p \in DOMAIN received : destroyed[p] = 0 => \E w \in DOMAIN m_packet : m_packet[w] = p
  /\ \A w \in DOMAIN m_packet : m_packet[w] # 0 => destroyed[m_packet[w]] = 0
  /\ \A w, v \in DOMAIN m_packet : m_packet[w] = m_packet[v] /\ m_packet[w] # 0 => w = v

WireInv == WireTypeOK /\ BufferFaithful /\ WireFaithful /\ ReceivedFaithful /\ Owned

LEMMA InitWireInv == WireInit => WireInv
<1> SUFFICES ASSUME WireInit PROVE WireInv
  OBVIOUS
<1> USE DEF WireInit
<1>1. DOMAIN m_packet = {} /\ DOMAIN wire = {} /\ DOMAIN received = {} /\ Len(received) = 0
  OBVIOUS
<1>2. WireTypeOK
  <2>1. destroyed \in [1 .. Len(received) -> Nat]
    OBVIOUS
  <2> QED
    BY <1>1, <2>1, WireAssumption DEF WireTypeOK
<1> QED
  BY <1>1, <1>2 DEF WireInv, BufferFaithful, WireFaithful, ReceivedFaithful, Owned

(* The packets received are counted from 1, each with its own counter.     *)
LEMMA ReceivedTypes ==
  ASSUME WireTypeOK
  PROVE  /\ Len(received) \in Nat /\ DOMAIN received = 1 .. Len(received)
         /\ Len(destroyed) = Len(received) /\ destroyed \in Seq(Nat)
<1>1. Len(received) \in Nat /\ DOMAIN received = 1 .. Len(received)
  BY LenProperties DEF WireTypeOK
<1>2. destroyed \in Seq(Nat)
  BY <1>1, SeqDef DEF WireTypeOK
<1>3. DOMAIN destroyed = 1 .. Len(destroyed) /\ Len(destroyed) \in Nat
  BY <1>2, LenProperties
<1> QED
  BY <1>1, <1>2, <1>3 DEF WireTypeOK

LEMMA TakeNextTypes ==
  ASSUME WireTypeOK, TakeNext
  PROVE  /\ wire' \in Seq(Carried) /\ received' \in Seq(Carried)
         /\ Len(received') = Len(received) + 1
         /\ \A i \in DOMAIN wire' : i + 1 \in DOMAIN wire /\ wire'[i] = wire[i + 1]
         /\ \A i \in DOMAIN received : received'[i] = received[i]
         /\ DOMAIN received' = DOMAIN received \cup {NextPacket}
         /\ 1 \in DOMAIN wire /\ received'[NextPacket] = wire[1]
<1> USE DEF TakeNext
<1>1. wire \in Seq(Carried) /\ received \in Seq(Carried) /\ wire # <<>>
  BY DEF WireTypeOK
<1>2. /\ Head(wire) \in Carried /\ Tail(wire) \in Seq(Carried)
      /\ Len(Tail(wire)) = Len(wire) - 1
      /\ \A i \in 1 .. Len(Tail(wire)) : Tail(wire)[i] = wire[i + 1]
  BY <1>1, HeadTailProperties
<1>3. Len(wire) \in Nat /\ DOMAIN wire = 1 .. Len(wire) /\ Len(received) \in Nat
      /\ DOMAIN received = 1 .. Len(received)
  BY <1>1, LenProperties
<1>4. DOMAIN Tail(wire) = 1 .. Len(Tail(wire))
  BY <1>2, LenProperties
<1>5. Len(wire) # 0 /\ Head(wire) = wire[1]
  BY <1>1, EmptySeq
<1>6. /\ received' \in Seq(Carried) /\ Len(received') = Len(received) + 1
      /\ \A i \in 1 .. Len(received) : received'[i] = received[i]
      /\ received'[Len(received) + 1] = Head(wire)
  BY <1>1, <1>2, AppendProperties
<1>7. DOMAIN received' = 1 .. Len(received')
  BY <1>6, LenProperties
<1> QED
  BY <1>2, <1>3, <1>4, <1>5, <1>6, <1>7 DEF NextPacket

(* One counter goes up, if there is a packet.                              *)
LEMMA DestroyTypes ==
  ASSUME WireTypeOK, NEW p \in 0 .. Len(received)
  PROVE  /\ DestroyPacket(p) \in [1 .. Len(received) -> Nat]
         /\ \A q \in 1 .. Len(received) :
              DestroyPacket(p)[q] = IF q = p THEN destroyed[q] + 1 ELSE destroyed[q]
BY ReceivedTypes DEF DestroyPacket, WireTypeOK

LEMMA MorePackets ==
  ASSUME NEW n \in Nat, NEW d \in [1 .. n -> Nat]
  PROVE  /\ Append(d, 0) \in [1 .. n + 1 -> Nat]
         /\ \A q \in 1 .. n : Append(d, 0)[q] = d[q]
         /\ Append(d, 0)[n + 1] = 0
<1>1. d \in Seq(Nat)
  BY SeqDef
<1>2. Len(d) = n
  <2>1. DOMAIN d = 1 .. Len(d) /\ Len(d) \in Nat
    BY <1>1, LenProperties
  <2> QED
    BY <2>1
<1>3. /\ Append(d, 0) \in Seq(Nat) /\ Len(Append(d, 0)) = Len(d) + 1
      /\ \A i \in 1 .. Len(d) : Append(d, 0)[i] = d[i]
      /\ Append(d, 0)[Len(d) + 1] = 0
  BY <1>1, AppendProperties
<1>4. Append(d, 0) \in [1 .. Len(Append(d, 0)) -> Nat]
  BY <1>3, LenProperties
<1> QED
  BY <1>2, <1>3, <1>4

LEMMA StepKeepsType ==
  ASSUME WireTypeOK, BufferFaithful, [WireNext]_wireVars
  PROVE  WireTypeOK'
<1>1. ASSUME NEW r \in Requests, construct(r)
      PROVE  WireTypeOK'
  <2>1. m_buffer' = BytesOf(little.sender, r)
    BY <1>1 DEF construct, Filled, BytesOf
  <2>2. little.sender \in BOOLEAN /\ TRUE \in BOOLEAN
    BY DEF WireTypeOK
  <2>3. m_buffer' \in Seq(Byte)
    BY <2>1, <2>2, RoundTrip
  <2> QED
    BY <1>1, <2>3 DEF construct, WireTypeOK
<1>2. ASSUME NEW bytes \in Seq(Byte), NEW meaning, PutOnWire(bytes, meaning),
             meaning \in Requests \cup {ForeignMeaning(n) : n \in 0 .. HeaderSize}
      PROVE  WireTypeOK'
  <2>1. [bytes |-> bytes, built |-> meaning] \in Carried
    BY <1>2 DEF Carried
  <2>2. wire' \in Seq(Carried)
    BY <1>2, <2>1, AppendProperties DEF PutOnWire, WireTypeOK
  <2>3. sends' \in 0 .. MaxSends
    BY <1>2, WireAssumption DEF PutOnWire, WireTypeOK
  <2> QED
    BY <1>2, <2>2, <2>3 DEF PutOnWire, WireTypeOK
<1>3. ASSUME send
      PROVE  WireTypeOK'
  <2>1. m_buffer \in Seq(Byte) /\ built \in Requests
    BY <1>3 DEF send, BufferFaithful, WireTypeOK
  <2> QED
    BY <1>2, <1>3, <2>1 DEF send
<1>4. ASSUME NEW n \in {0, HeaderSize - 1, HeaderSize}, SendForeign(n)
      PROVE  WireTypeOK'
  <2>1. Foreign(n) \in Seq(Byte)
    BY ForeignSays
  <2>2. n \in 0 .. HeaderSize
    BY DEF HeaderSize
  <2> QED
    BY <1>2, <1>4, <2>1, <2>2 DEF SendForeign
<1>5. ASSUME TakeNext, NEW w \in Objects, m_packet' = Holding(w, NextPacket),
             NEW d \in [1 .. Len(received) -> Nat], destroyed' = Append(d, 0)
      PROVE  WireTypeOK'
  <2>1. Len(received) \in Nat
    BY ReceivedTypes
  <2>2. /\ wire' \in Seq(Carried) /\ received' \in Seq(Carried)
        /\ Len(received') = Len(received) + 1
    BY <1>5, TakeNextTypes
  <2>3. destroyed' \in [1 .. Len(received') -> Nat]
    BY <1>5, <2>1, <2>2, MorePackets
  <2>4. DOMAIN m_packet' \subseteq Objects
    BY <1>5 DEF Holding, WireTypeOK
  <2>5. \A v \in DOMAIN m_packet' : m_packet'[v] \in 0 .. Len(received')
    BY <1>5, <2>1, <2>2 DEF Holding, NextPacket, WireTypeOK
  <2> QED
    BY <1>5, <2>2, <2>3, <2>4, <2>5 DEF TakeNext, WireTypeOK
<1>6. ASSUME NEW packets, NEW d \in [1 .. Len(received) -> Nat], Local(packets, d),
             DOMAIN packets \subseteq Objects,
             \A v \in DOMAIN packets : packets[v] \in 0 .. Len(received)
      PROVE  WireTypeOK'
  BY <1>6 DEF Local, WireTypeOK
<1>7. ASSUME NEW w \in Objects, recv(w) \/ process(w) \/ Default(w) \/ Destroy(w)
      PROVE  WireTypeOK'
  <2>1. CASE recv(w)
    BY <1>5, <2>1 DEF recv, WireTypeOK
  <2>2. CASE process(w)
    <3>1. DestroyPacket(m_packet[w]) \in [1 .. Len(received) -> Nat]
      BY <2>2, DestroyTypes DEF process, WireTypeOK
    <3> QED
      BY <1>5, <2>2, <3>1 DEF process
  <2>3. CASE Default(w)
    <3>1. /\ DOMAIN Holding(w, 0) \subseteq Objects
          /\ \A v \in DOMAIN Holding(w, 0) : Holding(w, 0)[v] \in 0 .. Len(received)
      BY ReceivedTypes DEF Holding, WireTypeOK
    <3> QED
      BY <1>6, <2>3, <3>1 DEF Default, WireTypeOK
  <2>4. CASE Destroy(w)
    <3> DEFINE packets == [v \in DOMAIN m_packet \ {w} |-> m_packet[v]]
    <3>1. DestroyPacket(m_packet[w]) \in [1 .. Len(received) -> Nat]
      BY <2>4, DestroyTypes DEF Destroy, WireTypeOK
    <3>2. /\ DOMAIN packets \subseteq Objects
          /\ \A v \in DOMAIN packets : packets[v] \in 0 .. Len(received)
      BY DEF WireTypeOK
    <3> QED
      BY <1>6, <2>4, <3>1, <3>2 DEF Destroy
  <2> QED
    BY <1>7, <2>1, <2>2, <2>3, <2>4
<1>8. ASSUME NEW w \in Objects, NEW v \in Objects, MoveConstruct(w, v) \/ MoveAssign(w, v)
      PROVE  WireTypeOK'
  <2>1. v \in DOMAIN m_packet
    BY <1>8 DEF MoveConstruct, MoveAssign
  <2>2. /\ DOMAIN Moved(w, v) \subseteq Objects
        /\ \A x \in DOMAIN Moved(w, v) : Moved(w, v)[x] \in 0 .. Len(received)
    BY <2>1, ReceivedTypes DEF Moved, Holding, WireTypeOK
  <2>3. CASE MoveConstruct(w, v)
    BY <1>6, <2>2, <2>3 DEF MoveConstruct, WireTypeOK
  <2>4. CASE MoveAssign(w, v)
    <3>1. DestroyPacket(m_packet[w]) \in [1 .. Len(received) -> Nat]
      BY <2>4, DestroyTypes DEF MoveAssign, WireTypeOK
    <3> QED
      BY <1>6, <2>2, <2>4, <3>1 DEF MoveAssign
  <2> QED
    BY <1>8, <2>3, <2>4
<1>9. CASE UNCHANGED wireVars
  BY <1>9 DEF WireTypeOK
<1> QED
  BY <1>1, <1>3, <1>4, <1>7, <1>8, <1>9 DEF WireNext

(* Every byte that is sent was built for what it says.                     *)
LEMMA StepKeepsFaithful ==
  ASSUME WireTypeOK, BufferFaithful, WireFaithful, ReceivedFaithful, [WireNext]_wireVars
  PROVE  BufferFaithful' /\ WireFaithful' /\ ReceivedFaithful'
<1> DEFINE All == BufferFaithful /\ WireFaithful /\ ReceivedFaithful
<1>l. little.sender \in BOOLEAN /\ little.receiver \in BOOLEAN
  BY DEF WireTypeOK
<1>1. ASSUME NEW r \in Requests, construct(r)
      PROVE  All'
  <2>1. m_buffer' = BytesOf(little.sender, r) /\ built' = r
        /\ UNCHANGED <<little, wire, received>>
    BY <1>1 DEF construct, Filled, BytesOf
  <2>2. Faithful(little, BytesOf(little.sender, r), r)
    BY <1>l, RoundTrip DEF Faithful
  <2>3. BufferFaithful'
    BY <2>1, <2>2 DEF BufferFaithful
  <2> QED
    BY <2>1, <2>3 DEF WireFaithful, ReceivedFaithful
<1>2. ASSUME NEW bytes, NEW meaning, PutOnWire(bytes, meaning), Faithful(little, bytes, meaning)
      PROVE  All'
  <2> DEFINE packet == [bytes |-> bytes, built |-> meaning]
  <2>1. wire' = Append(wire, packet) /\ UNCHANGED <<little, m_buffer, built, received>>
    BY <1>2 DEF PutOnWire
  <2>2. packet.bytes = bytes /\ packet.built = meaning
    OBVIOUS
  <2> HIDE DEF packet
  <2>3. \A i \in DOMAIN wire' : wire'[i] = packet \/ (i \in DOMAIN wire /\ wire'[i] = wire[i])
    BY <2>1 DEF WireTypeOK
  <2>4. WireFaithful'
    BY <1>2, <2>1, <2>2, <2>3 DEF WireFaithful
  <2> QED
    BY <2>1, <2>4 DEF BufferFaithful, ReceivedFaithful
<1>3. ASSUME send
      PROVE  All'
  BY <1>2, <1>3 DEF send, BufferFaithful
<1>4. ASSUME NEW n \in {0, HeaderSize - 1, HeaderSize}, SendForeign(n)
      PROVE  All'
  <2>1. Faithful(little, Foreign(n), ForeignMeaning(n))
    BY <1>l, ForeignSays DEF Faithful
  <2> QED
    BY <1>2, <1>4, <2>1 DEF SendForeign
<1>5. ASSUME TakeNext
      PROVE  All'
  <2>1. /\ \A i \in DOMAIN wire' : i + 1 \in DOMAIN wire /\ wire'[i] = wire[i + 1]
        /\ \A i \in DOMAIN received : received'[i] = received[i]
        /\ DOMAIN received' = DOMAIN received \cup {NextPacket}
        /\ 1 \in DOMAIN wire /\ received'[NextPacket] = wire[1]
    BY <1>5, TakeNextTypes
  <2>2. UNCHANGED <<little, m_buffer, built>>
    BY <1>5 DEF TakeNext
  <2>3. WireFaithful'
    BY <2>1, <2>2 DEF WireFaithful
  <2>4. ReceivedFaithful'
    BY <2>1, <2>2 DEF WireFaithful, ReceivedFaithful
  <2> QED
    BY <2>2, <2>3, <2>4 DEF BufferFaithful
<1>6. ASSUME UNCHANGED <<little, m_buffer, built, wire, received>>
      PROVE  All'
  BY <1>6 DEF BufferFaithful, WireFaithful, ReceivedFaithful
<1>7. ASSUME NEW w \in Objects, recv(w) \/ process(w) \/ Default(w) \/ Destroy(w)
      PROVE  All'
  BY <1>5, <1>6, <1>7 DEF recv, process, Default, Destroy, Local
<1>8. ASSUME NEW w \in Objects, NEW v \in Objects, MoveConstruct(w, v) \/ MoveAssign(w, v)
      PROVE  All'
  BY <1>6, <1>8 DEF MoveConstruct, MoveAssign, Local
<1>9. CASE UNCHANGED wireVars
  BY <1>6, <1>9
<1> QED
  BY <1>1, <1>3, <1>4, <1>7, <1>8, <1>9 DEF WireNext

(* Packets change hands: each way of taking, moving and dropping one.      *)
LEMMA StepKeepsOwned ==
  ASSUME WireTypeOK, Owned, [WireNext]_wireVars
  PROVE  Owned'
<1>r. /\ Len(received) \in Nat /\ DOMAIN received = 1 .. Len(received)
      /\ \A w \in DOMAIN m_packet : m_packet[w] \in 0 .. Len(received)
      /\ destroyed \in [1 .. Len(received) -> Nat]
  BY ReceivedTypes DEF WireTypeOK
<1>t. ASSUME TakeNext
      PROVE  DOMAIN received' = 1 .. Len(received) + 1 /\ NextPacket = Len(received) + 1
  BY <1>t, <1>r, TakeNextTypes DEF NextPacket
<1>1. ASSUME UNCHANGED <<received, destroyed, m_packet>>
      PROVE  Owned'
  BY <1>1 DEF Owned
<1>2. ASSUME NEW w \in Objects, recv(w)
      PROVE  Owned'
  <2>1. /\ m_packet' = Holding(w, Len(received) + 1)
        /\ w \notin DOMAIN m_packet
        /\ \A q \in 1 .. Len(received) : destroyed'[q] = destroyed[q]
        /\ destroyed'[Len(received) + 1] = 0
        /\ DOMAIN received' = 1 .. Len(received) + 1
    BY <1>2, <1>r, <1>t, MorePackets DEF recv
  <2> QED
    BY <1>r, <2>1 DEF Owned, Holding
<1>3. ASSUME NEW w \in Objects, process(w)
      PROVE  Owned'
  <2> DEFINE d == DestroyPacket(m_packet[w])
  <2>1. m_packet[w] \in 0 .. Len(received) /\ w \in DOMAIN m_packet
    BY <1>3, <1>r DEF process
  <2>2. /\ d \in [1 .. Len(received) -> Nat]
        /\ \A q \in 1 .. Len(received) :
             d[q] = IF q = m_packet[w] THEN destroyed[q] + 1 ELSE destroyed[q]
    BY <2>1, DestroyTypes
  <2>3. /\ m_packet' = Holding(w, Len(received) + 1)
        /\ destroyed' = Append(d, 0)
        /\ DOMAIN received' = 1 .. Len(received) + 1
    BY <1>3, <1>t DEF process
  <2> HIDE DEF d
  <2>4. /\ \A q \in 1 .. Len(received) : destroyed'[q] = d[q]
        /\ destroyed'[Len(received) + 1] = 0
    BY <1>r, <2>2, <2>3, MorePackets
  <2> QED
    <3>1. /\ DOMAIN m_packet' = DOMAIN m_packet
          /\ \A x \in DOMAIN m_packet' :
               m_packet'[x] = IF x = w THEN Len(received) + 1 ELSE m_packet[x]
      <4>1. DOMAIN m_packet \cup {w} = DOMAIN m_packet
        BY <2>1
      <4> QED
        BY <2>3, <4>1 DEF Holding
    <3>2. \A q \in 1 .. Len(received) :
            destroyed'[q] = IF q = m_packet[w] THEN destroyed[q] + 1 ELSE destroyed[q]
      BY <2>2, <2>4
    <3>3. \A p \in DOMAIN received' : destroyed'[p] \in {0, 1}
      <4> SUFFICES ASSUME NEW p \in 1 .. Len(received) + 1 PROVE destroyed'[p] \in {0, 1}
        BY <2>3
      <4>1. CASE p = Len(received) + 1
        BY <2>4, <4>1
      <4>2. CASE p \in 1 .. Len(received)
        <5>1. destroyed[p] \in {0, 1} /\ (p = m_packet[w] => destroyed[p] = 0)
          BY <1>r, <2>1, <4>2 DEF Owned
        <5> QED
          BY <3>2, <4>2, <5>1
      <4> QED
        BY <1>r, <4>1, <4>2
    <3>4. \A p \in DOMAIN received' : destroyed'[p] = 0 => \E x \in DOMAIN m_packet' : m_packet'[x] = p
      <4> SUFFICES ASSUME NEW p \in 1 .. Len(received) + 1, destroyed'[p] = 0
                   PROVE  \E x \in DOMAIN m_packet' : m_packet'[x] = p
        BY <2>3
      <4>1. CASE p = Len(received) + 1
        BY <2>1, <3>1, <4>1
      <4>2. CASE p \in 1 .. Len(received)
        <5>1. p # m_packet[w] /\ destroyed[p] = 0
          BY <1>r, <3>2, <4>2
        <5>2. PICK x \in DOMAIN m_packet : m_packet[x] = p
          BY <1>r, <4>2, <5>1 DEF Owned
        <5> QED
          BY <3>1, <5>1, <5>2
      <4> QED
        BY <1>r, <4>1, <4>2
    <3>5. \A x \in DOMAIN m_packet' : m_packet'[x] # 0 => destroyed'[m_packet'[x]] = 0
      <4> SUFFICES ASSUME NEW x \in DOMAIN m_packet', m_packet'[x] # 0
                   PROVE  destroyed'[m_packet'[x]] = 0
        OBVIOUS
      <4>1. CASE x = w
        BY <2>4, <3>1, <4>1
      <4>2. CASE x # w
        <5>1. x \in DOMAIN m_packet /\ m_packet'[x] = m_packet[x]
          BY <3>1, <4>2
        <5>2. m_packet[x] \in 1 .. Len(received) /\ m_packet[x] # m_packet[w]
          BY <1>r, <2>1, <4>2, <5>1 DEF Owned
        <5> QED
          BY <3>2, <5>1, <5>2 DEF Owned
      <4> QED
        BY <4>1, <4>2
    <3>6. \A x, y \in DOMAIN m_packet' : m_packet'[x] = m_packet'[y] /\ m_packet'[x] # 0 => x = y
      BY <1>r, <3>1 DEF Owned
    <3> QED
      BY <3>3, <3>4, <3>5, <3>6 DEF Owned
<1>4. ASSUME NEW w \in Objects, Default(w)
      PROVE  Owned'
  <2>1. UNCHANGED <<received, destroyed>> /\ m_packet' = Holding(w, 0) /\ w \notin DOMAIN m_packet
    BY <1>4 DEF Default, Local
  <2> QED
    BY <1>r, <2>1 DEF Owned, Holding
<1>5. ASSUME NEW w \in Objects, Destroy(w)
      PROVE  Owned'
  <2> DEFINE d == DestroyPacket(m_packet[w])
  <2>1. m_packet[w] \in 0 .. Len(received) /\ w \in DOMAIN m_packet
    BY <1>5, <1>r DEF Destroy
  <2>2. /\ d \in [1 .. Len(received) -> Nat]
        /\ \A q \in 1 .. Len(received) :
             d[q] = IF q = m_packet[w] THEN destroyed[q] + 1 ELSE destroyed[q]
    BY <2>1, DestroyTypes
  <2>3. /\ m_packet' = [v \in DOMAIN m_packet \ {w} |-> m_packet[v]]
        /\ destroyed' = d /\ received' = received
    BY <1>5 DEF Destroy, Local
  <2> HIDE DEF d
  <2>4. /\ DOMAIN m_packet' = DOMAIN m_packet \ {w} /\ DOMAIN received = 1 .. Len(received)
        /\ \A v \in DOMAIN m_packet' : m_packet'[v] = m_packet[v]
    BY <1>r, <2>3
  <2>5. \A q \in DOMAIN received' : destroyed'[q] \in {0, 1}
    BY <1>r, <2>1, <2>2, <2>3, <2>4 DEF Owned
  <2>6. \A q \in DOMAIN received' : destroyed'[q] = 0 => \E v \in DOMAIN m_packet' : m_packet'[v] = q
    BY <1>r, <2>1, <2>2, <2>3, <2>4 DEF Owned
  <2>7. \A v \in DOMAIN m_packet' : m_packet'[v] # 0 => destroyed'[m_packet'[v]] = 0
    BY <1>r, <2>1, <2>2, <2>3, <2>4 DEF Owned
  <2>8. \A v, x \in DOMAIN m_packet' : m_packet'[v] = m_packet'[x] /\ m_packet'[v] # 0 => v = x
    BY <1>r, <2>4 DEF Owned
  <2> QED
    BY <2>5, <2>6, <2>7, <2>8 DEF Owned
<1>6. ASSUME NEW w \in Objects, NEW v \in Objects, MoveConstruct(w, v)
      PROVE  Owned'
  <2>1. /\ m_packet' = Moved(w, v) /\ UNCHANGED <<received, destroyed>>
        /\ w \notin DOMAIN m_packet /\ v \in DOMAIN m_packet
    BY <1>6 DEF MoveConstruct, Local
  <2>2. /\ DOMAIN m_packet' = DOMAIN m_packet \cup {w}
        /\ \A x \in DOMAIN m_packet' :
             m_packet'[x] = IF x = v THEN 0 ELSE IF x = w THEN m_packet[v] ELSE m_packet[x]
    BY <2>1 DEF Moved, Holding
  <2> QED
    BY <1>r, <2>1, <2>2 DEF Owned
<1>7. ASSUME NEW w \in Objects, NEW v \in Objects, MoveAssign(w, v)
      PROVE  Owned'
  <2> DEFINE d == DestroyPacket(m_packet[w])
  <2>1. m_packet[w] \in 0 .. Len(received) /\ {w, v} \subseteq DOMAIN m_packet /\ w # v
    BY <1>7, <1>r DEF MoveAssign
  <2>2. /\ d \in [1 .. Len(received) -> Nat]
        /\ \A q \in 1 .. Len(received) :
             d[q] = IF q = m_packet[w] THEN destroyed[q] + 1 ELSE destroyed[q]
    BY <2>1, DestroyTypes
  <2>3. /\ m_packet' = Moved(w, v) /\ destroyed' = d /\ received' = received
    BY <1>7 DEF MoveAssign, Local
  <2>4. /\ DOMAIN m_packet' = DOMAIN m_packet
        /\ \A x \in DOMAIN m_packet' :
             m_packet'[x] = IF x = v THEN 0 ELSE IF x = w THEN m_packet[v] ELSE m_packet[x]
    <3>1. DOMAIN m_packet \cup {w} = DOMAIN m_packet
      BY <2>1
    <3>2. /\ DOMAIN m_packet' = DOMAIN m_packet \cup {w}
          /\ \A x \in DOMAIN m_packet' :
               m_packet'[x] = IF x = v THEN 0 ELSE IF x = w THEN m_packet[v] ELSE m_packet[x]
      BY <2>1, <2>3 DEF Moved, Holding
    <3> QED
      BY <3>1, <3>2
  <2> HIDE DEF d
  <2> QED
    BY <1>r, <2>1, <2>2, <2>3, <2>4 DEF Owned
<1>8. ASSUME NEW r \in Requests, construct(r)
      PROVE  Owned'
  BY <1>1, <1>8 DEF construct
<1>9. ASSUME send
      PROVE  Owned'
  BY <1>1, <1>9 DEF send, PutOnWire
<1>10. ASSUME NEW n \in {0, HeaderSize - 1, HeaderSize}, SendForeign(n)
       PROVE  Owned'
  BY <1>1, <1>10 DEF SendForeign, PutOnWire
<1> QED
  BY <1>1, <1>2, <1>3, <1>4, <1>5, <1>6, <1>7, <1>8, <1>9, <1>10 DEF WireNext

-----------------------------------------------------------------------------
(* Theorems.                                                               *)

(* The conjunction above holds throughout: what is in the buffer, on the   *)
(* wire and received says what was meant, and packets have one owner.      *)
THEOREM WireInvariant == WireSpec => []WireInv
<1>1. WireInit => WireInv
  BY InitWireInv
<1>2. WireInv /\ [WireNext]_wireVars => WireInv'
  BY StepKeepsType, StepKeepsFaithful, StepKeepsOwned DEF WireInv
<1> QED
  BY <1>1, <1>2, PTL DEF WireSpec

(* Types of Constructor, Packet objects, wire and destroy counters.        *)
THEOREM WireTypeCorrect == WireSpec => []WireTypeOK
<1>1. WireInv => WireTypeOK
  BY DEF WireInv
<1> QED
  BY <1>1, WireInvariant, PTL

(* For every key, name and payload and between hosts of any byte orders,   *)
(* Message reads from a packet what its construct was asked for, whatever  *)
(* was in the Constructor's buffer before; short packets are refused.      *)
THEOREM PacketsAreUnderstood == WireSpec => []Understood
<1>1. WireInv => Understood
  BY DEF WireInv, WireFaithful, ReceivedFaithful, Faithful, Understood
<1> QED
  BY <1>1, WireInvariant, PTL

(* The version field, the one Header copies in host order, is read as      *)
(* version 1 exactly when both hosts have the same byte order.             *)
THEOREM VersionNeedsSameOrder == WireSpec => []VersionAgrees
<1>1. WireInv => VersionAgrees
  BY DEF WireInv, WireFaithful, Faithful, VersionAgrees, TypeNames
<1> QED
  BY <1>1, WireInvariant, PTL

(* Every ENetPacket is owned by exactly one Packet object until it is      *)
(* destroyed, once: for any number of objects and any order of recv,       *)
(* process, moves, assignments and destructions.                           *)
THEOREM PacketsAreOwnedOnce == WireSpec => []OwnedOnce
<1>1. WireInv => OwnedOnce
  <2> SUFFICES ASSUME WireInv, NEW p \in DOMAIN received
               PROVE  Cardinality({w \in DOMAIN m_packet : m_packet[w] = p}) + destroyed[p] = 1
    BY DEF OwnedOnce
  <2> DEFINE owners == {w \in DOMAIN m_packet : m_packet[w] = p}
  <2>1. p # 0 /\ destroyed[p] \in {0, 1}
    BY ReceivedTypes DEF WireInv, Owned
  <2>2. CASE destroyed[p] = 0
    <3>1. PICK w \in DOMAIN m_packet : m_packet[w] = p
      BY <2>2 DEF WireInv, Owned
    <3>2. owners = {w}
      BY <2>1, <3>1 DEF WireInv, Owned
    <3>3. Cardinality(owners) = 1
      BY <3>2, FS_Singleton
    <3> QED
      BY <2>2, <3>3
  <2>3. CASE destroyed[p] = 1
    <3>1. owners = {}
      BY <2>1, <2>3 DEF WireInv, Owned
    <3>2. Cardinality(owners) = 0
      BY <3>1, FS_EmptySet
    <3> QED
      BY <2>3, <3>2
  <2> QED
    BY <2>1, <2>2, <2>3
<1> QED
  BY <1>1, WireInvariant, PTL
=============================================================================
