-------------------------------- MODULE Wire --------------------------------
(***************************************************************************)
(* The bytes under module Protocol: include/spraybus/networking/protocol.hpp*)
(* and the Packet wrapper of networking/client/client.hpp.                 *)
(*                                                                         *)
(* One program builds packets with a Constructor, whose single buffer is   *)
(* reused by every call, and sends the bytes it finds there, once or to    *)
(* several peers.  Another one, maybe on a host with the other byte order, *)
(* receives them as ENetPackets that Packet objects own, and reads them    *)
(* through Message views.  A uint64_t is the sequence of its 8 bytes, most *)
(* significant first: values beyond TLC's integers need no arithmetic.     *)
(***************************************************************************)
EXTENDS Naturals, Sequences, FiniteSets

CONSTANTS
  Keys,               \* topic keys, as 8-byte numbers
  Names,              \* topic names, as byte sequences
  Payloads,           \* user payloads, as byte sequences
  Objects,            \* objects of class Packet the receiving program may have
  MaxSends            \* bound: packets put on the wire

Byte == 0 .. 255
Uint64 == [1 .. 8 -> Byte]
Zero == [i \in 1 .. 8 |-> 0]

ASSUME WireAssumption ==
  /\ Keys \subseteq Uint64
  /\ Names \subseteq Seq(Byte) /\ Payloads \subseteq Seq(Byte)
  /\ IsFiniteSet(Objects)
  /\ MaxSends \in Nat

VARIABLES
  little,             \* is the sender's, is the receiver's byte order little-endian?
  m_buffer,           \* Constructor: the bytes of the last construction call
  built,              \* history: what that call was asked for
  wire,               \* the packets under way, each with what it was built for
  received,           \* the ENetPackets the receiver's ENet has handed out
  destroyed,          \* how often each of them went to enet_packet_destroy
  m_packet,           \* Packet objects alive -> the packet they own, 0 for nullptr
  sends               \* packets put on the wire so far

senderVars == <<m_buffer, built>>
receiverVars == <<received, destroyed, m_packet>>
wireVars == <<little, senderVars, wire, receiverVars, sends>>
-----------------------------------------------------------------------------
(* Byte order.                                                             *)

byteswap(value) == [i \in 1 .. Len(value) |-> value[Len(value) + 1 - i]]

(* How a number lies in memory, and the number that lies there.            *)
InMemory(isLittle, value) == IF isLittle THEN byteswap(value) ELSE value

host_to_network64(isLittle, value) == IF isLittle THEN byteswap(value) ELSE value
network_to_host64(isLittle, value) == IF isLittle THEN byteswap(value) ELSE value

-----------------------------------------------------------------------------
(* Packets.                                                                *)

Origins == <<"client", "server", "leaf">>
Types == <<"topic_request", "topic_response", "publish", "subscribe", "unsubscribe", "fanout">>
CodeOf(names, name) == CHOOSE code \in DOMAIN names : names[code] = name
NameOf(names, code) == IF code \in DOMAIN names THEN names[code] ELSE "unknown"

Version1 == <<0, 1>>
HeaderSize == 16

(* Mutant: the version is sent in network order, like the key.             *)
VersionBytes_Network(isLittle) == Version1

VersionBytes(isLittle) == InMemory(isLittle, Version1)

(* Header(origin, type, topic_key), as construct copies it from memory:    *)
(* a reserved word, the version in the host's own order, two single bytes, *)
(* and the key in network order.                                           *)
HeaderBytes(isLittle, origin, type, topic_key) ==
  <<0, 0, 0, 0>> \o VersionBytes(isLittle)
    \o <<CodeOf(Origins, origin), CodeOf(Types, type)>>
    \o InMemory(isLittle, host_to_network64(isLittle, topic_key))

(* What a call of the Constructor asks for.                                *)
Request(origin, type, topic_key, payload) ==
  [origin |-> origin, type |-> type, topic_key |-> topic_key, payload |-> payload]

topic_request(name) == Request("client", "topic_request", Zero, name)
topic_response(key, name) == Request("server", "topic_response", key, name)
publish(key, payload) == Request("client", "publish", key, payload)
subscribe(key) == Request("client", "subscribe", key, <<>>)
unsubscribe(key) == Request("client", "unsubscribe", key, <<>>)
fanout(key, payload) == Request("server", "fanout", key, payload)

Requests ==
  {topic_request(n) : n \in Names}
    \cup {topic_response(k, n) : k \in Keys, n \in Names}
    \cup {publish(k, p) : k \in Keys, p \in Payloads}
    \cup {subscribe(k) : k \in Keys} \cup {unsubscribe(k) : k \in Keys}
    \cup {fanout(k, p) : k \in Keys, p \in Payloads}

(* Packets no spraybus program builds: too short for a header, or with a   *)
(* type that has no name; all their bytes are 0.                           *)
Foreign(length) == [i \in 1 .. length |-> 0]
TooShort == Request("unknown", "short", Zero, <<>>)
ForeignMeaning(length) ==
  IF length < HeaderSize THEN TooShort
  ELSE Request("unknown", "unknown", Zero, Foreign(length - HeaderSize))

(* parse_header throws unless the bytes hold a header.                     *)
LongEnough(bytes) == Len(bytes) >= HeaderSize

(* What a Message over the bytes says: header().origin(), type() and       *)
(* topic_key(), and payload().                                             *)
Message(isLittle, bytes) ==
  IF ~LongEnough(bytes) THEN TooShort
  ELSE Request(NameOf(Origins, bytes[7]), NameOf(Types, bytes[8]),
               network_to_host64(isLittle, InMemory(isLittle, SubSeq(bytes, 9, HeaderSize))),
               SubSeq(bytes, HeaderSize + 1, Len(bytes)))

(* header().version(), which no code reads.                                *)
version(isLittle, bytes) == InMemory(isLittle, SubSeq(bytes, 5, 6))

-----------------------------------------------------------------------------
WireInit ==
  /\ little \in [sender: BOOLEAN, receiver: BOOLEAN]
  /\ m_buffer = <<>>
  /\ built = TooShort
  /\ wire = <<>>
  /\ received = <<>>
  /\ destroyed = <<>>
  /\ m_packet = [w \in {} |-> 0]
  /\ sends = 0

(* Mutant: the buffer is not cleared first.                                *)
Filled_NotCleared(buffer, header, payload) == buffer \o header \o payload

(* construct: the buffer is cleared, then header and payload go in.        *)
Filled(buffer, header, payload) == header \o payload

construct(request) ==
  /\ sends < MaxSends
  /\ m_buffer' = Filled(m_buffer,
                        HeaderBytes(little.sender, request.origin, request.type, request.topic_key),
                        request.payload)
  /\ built' = request
  /\ UNCHANGED <<little, wire, receiverVars, sends>>

PutOnWire(bytes, meaning) ==
  /\ sends < MaxSends
  /\ sends' = sends + 1
  /\ wire' = Append(wire, [bytes |-> bytes, built |-> meaning])
  /\ UNCHANGED <<little, senderVars, receiverVars>>

(* send: enet_packet_create copies the bytes of the span.  The server      *)
(* sends one fanout to many, so this may follow one construct repeatedly.  *)
send == m_buffer # <<>> /\ PutOnWire(m_buffer, built)

SendForeign(length) == PutOnWire(Foreign(length), ForeignMeaning(length))

-----------------------------------------------------------------------------
(* Class Packet.  (A function with object w added, or set, to packet p.)   *)

Holding(w, p) == [v \in DOMAIN m_packet \cup {w} |-> IF v = w THEN p ELSE m_packet[v]]

(* enet_packet_destroy, if there is a packet.                              *)
DestroyPacket(p) == IF p = 0 THEN destroyed ELSE [destroyed EXCEPT ![p] = @ + 1]

(* enet_host_service hands over the next packet, which object w will own.  *)
NextPacket == Len(received) + 1
TakeNext ==
  /\ wire # <<>>
  /\ wire' = Tail(wire)
  /\ received' = Append(received, Head(wire))
  /\ UNCHANGED <<little, senderVars, sends>>

(* recv(): the packet is returned in a new object.  The server's           *)
(* PacketGuard takes the packet of an event in the same way.               *)
recv(w) ==
  /\ w \notin DOMAIN m_packet
  /\ TakeNext
  /\ m_packet' = Holding(w, NextPacket)
  /\ destroyed' = Append(destroyed, 0)

(* process(packet): packet = Packet(m_event.packet) into an object that    *)
(* may own a packet already; the temporary is left with nullptr.           *)
process(w) ==
  /\ w \in DOMAIN m_packet
  /\ TakeNext
  /\ m_packet' = Holding(w, NextPacket)
  /\ destroyed' = Append(DestroyPacket(m_packet[w]), 0)

Local(packets, counts) ==
  /\ m_packet' = packets
  /\ destroyed' = counts
  /\ UNCHANGED <<little, senderVars, wire, received, sends>>

(* Mutant: without its initializer the pointer points anywhere.            *)
Default_Uninitialized(w) ==
  w \notin DOMAIN m_packet /\ Local(Holding(w, NextPacket), destroyed)

(* Packet().                                                               *)
Default(w) == w \notin DOMAIN m_packet /\ Local(Holding(w, 0), destroyed)

(* Mutant: the object moved from keeps its pointer.                        *)
Moved_Kept(w, v) == Holding(w, m_packet[v])

(* m_packet = other.m_packet, other.m_packet = nullptr.                    *)
Moved(w, v) == [Holding(w, m_packet[v]) EXCEPT ![v] = 0]

(* Packet(Packet&&).                                                       *)
MoveConstruct(w, v) ==
  /\ w \notin DOMAIN m_packet /\ v \in DOMAIN m_packet
  /\ Local(Moved(w, v), destroyed)

(* operator=(Packet&&), of which assigning an object to itself is exempt.  *)
MoveAssign(w, v) ==
  /\ {w, v} \subseteq DOMAIN m_packet
  /\ w # v
  /\ Local(Moved(w, v), DestroyPacket(m_packet[w]))

(* ~Packet, at the end of the scope or when Message() throws.              *)
Destroy(w) ==
  /\ w \in DOMAIN m_packet
  /\ Local([v \in DOMAIN m_packet \ {w} |-> m_packet[v]], DestroyPacket(m_packet[w]))

-----------------------------------------------------------------------------
WireNext ==
  \/ \E request \in Requests : construct(request)
  \/ send
  \/ \E length \in {0, HeaderSize - 1, HeaderSize} : SendForeign(length)
  \/ \E w \in Objects : recv(w) \/ process(w) \/ Default(w) \/ Destroy(w)
  \/ \E w, v \in Objects : MoveConstruct(w, v) \/ MoveAssign(w, v)

WireSpec == WireInit /\ [][WireNext]_wireVars

-----------------------------------------------------------------------------
Carried == [bytes: Seq(Byte), built: Requests \cup {ForeignMeaning(n) : n \in 0 .. HeaderSize}]

WireTypeOK ==
  /\ little \in [sender: BOOLEAN, receiver: BOOLEAN]
  /\ m_buffer \in Seq(Byte)
  /\ built \in Requests \cup {TooShort}
  /\ wire \in Seq(Carried)
  /\ received \in Seq(Carried)
  /\ destroyed \in [1 .. Len(received) -> Nat]
  /\ DOMAIN m_packet \subseteq Objects
  /\ \A w \in DOMAIN m_packet : m_packet[w] \in 0 .. Len(received)
  /\ sends \in 0 .. MaxSends

(* What a packet says to the receiver is what the last construction call   *)
(* before the send was asked for, whatever the buffer held before, however *)
(* long the payload is, and whether or not the two hosts have the same     *)
(* byte order; a packet without room for a header is refused.              *)
Understood ==
  \A packet \in {wire[i] : i \in DOMAIN wire} \cup {received[i] : i \in DOMAIN received} :
    Message(little.receiver, packet.bytes) = packet.built

(* The version is the one field that is not converted: the two ends agree  *)
(* on it exactly when they have the same byte order ("assumes compatible   *)
(* endianness", README.md of the repository).                              *)
VersionAgrees ==
  \A packet \in {wire[i] : i \in DOMAIN wire} :
    packet.built.type \in {Types[i] : i \in DOMAIN Types} =>
      (version(little.receiver, packet.bytes) = Version1 <=> little.sender = little.receiver)

(* Unique ownership: a packet that ENet handed out is owned by exactly one *)
(* Packet object and not destroyed, or was destroyed once and is owned by  *)
(* none.  No moves, reassignments or exceptions leak it, free it twice or  *)
(* leave an object with a packet that is gone.                             *)
OwnedOnce ==
  \A p \in DOMAIN received :
    Cardinality({w \in DOMAIN m_packet : m_packet[w] = p}) + destroyed[p] = 1
=============================================================================
