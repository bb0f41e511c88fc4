-------------------------------- MODULE Bus ---------------------------------
(***************************************************************************)
(* The whole message bus: the server of module Server and applications     *)
(* that use the C++ client library (spraybus::client::Client on top of     *)
(* networking::client::Client).  An application thread owns its Client and *)
(* makes one call at a time; the calls of different applications, the      *)
(* server and the network interleave.                                      *)
(*                                                                         *)
(* A call that names a topic the client has not seen opens a second,       *)
(* temporary connection, asks for the key there, closes it and goes on     *)
(* over the main connection.  Each of these steps is an action of its own. *)
(***************************************************************************)
EXTENDS Server

CONSTANTS
  Clients,            \* applications, each with at most one Client at a time
  Resolvers,          \* the ones that call get_topic_key,
  Subscribers,        \*   subscribe,
  Publishers,         \*   publish,
  Leavers,            \*   and destroy their Client
  NoTopic,            \* the label "unknown", and the topic of no call
  Timeouts,           \* may the library's waits time out although the server runs?
  MaxOps              \* bound: publish, subscribe and get_topic_key calls

ASSUME BusAssumption ==
  /\ Peers \subseteq Nat /\ Endpoints \subseteq Nat /\ Payloads \subseteq Nat
  /\ Resolvers \cup Subscribers \cup Publishers \cup Leavers \subseteq Clients
  /\ NoTopic \notin Topics
  /\ Timeouts \in BOOLEAN
  /\ MaxOps \in Nat

VARIABLES
  pc,                 \* where the application thread is in the library
  op,                 \* the call in progress
  main,               \* endpoint of m_client
  temporary,          \* endpoint of temporary_client in get_topic_key
  m_topic_map,        \* the client's cache: name -> key
  m_inverse_topic_map,\* key -> name
  ops,                \* calls so far
  intended,           \* history: payload -> the topic name it was published to
  wanted,             \* history: client -> the topic names it subscribed to
  delivered           \* history: client -> the fanouts its callback was given

clientVars == <<pc, op, main, temporary, m_topic_map, m_inverse_topic_map>>
ghostVars == <<ops, intended, wanted, delivered>>
busVars == <<serverVars, clientVars, ghostVars>>

Kinds == {"get_topic_key", "subscribe", "publish"}
NoOp == [kind |-> "get_topic_key", topic |-> NoTopic, payload |-> Empty, key |-> 0]

(* The map f with f[x] = y added or overwritten: operator[] of the code.   *)
Put(f, x, y) == [z \in DOMAIN f \cup {x} |-> IF z = x THEN y ELSE f[z]]

BusInit ==
  /\ ServerInit
  /\ pc = [c \in Clients |-> "none"]
  /\ op = [c \in Clients |-> NoOp]
  /\ main = [c \in Clients |-> NoEndpoint]
  /\ temporary = [c \in Clients |-> NoEndpoint]
  /\ m_topic_map = [c \in Clients |-> NoTopics]
  /\ m_inverse_topic_map = [c \in Clients |-> [k \in {} |-> NoTopic]]
  /\ ops = 0
  /\ intended = [m \in Payloads |-> NoTopic]
  /\ wanted = [c \in Clients |-> {}]
  /\ delivered = [c \in Clients |-> <<>>]

Goto(c, from, to) == pc[c] = from /\ pc' = [pc EXCEPT ![c] = to]

(* enet_host_create and enet_host_connect: a host that was never used, and *)
(* the first free slot of the server, which is the one ENet takes.         *)
NextHost(e) == \A d \in Endpoints : d < e => endpoint[d] # "new"
FirstFree(p) == \A q \in Peers : q < p => peer_state[q] # "free"

(* The constructor of networking::client::Client succeeds with host e.     *)
Connected(e) ==
  NextHost(e) /\ \E p \in Peers : FirstFree(p) /\ Connect(p, e)

(* It throws: 5 seconds pass without a CONNECT event, because no slot is   *)
(* free, because no packet gets through, or because the answer to the      *)
(* handshake is late and the server has taken a slot for nothing.          *)
ConnectFails ==
  \/ /\ Timeouts \/ \A p \in Peers : peer_state[p] # "free"
     /\ UNCHANGED serverVars
  \/ /\ Timeouts
     /\ \E e \in Endpoints, p \in Peers :
          NextHost(e) /\ FirstFree(p) /\ ConnectLate(p, e)

-----------------------------------------------------------------------------
(* Construction and destruction of a Client.                               *)

Construct(c) ==
  /\ Goto(c, "none", "idle")
  /\ \E e \in Endpoints : Connected(e) /\ main' = [main EXCEPT ![c] = e]
  /\ UNCHANGED <<op, temporary, m_topic_map, m_inverse_topic_map, ghostVars>>

ConstructFails(c) ==
  /\ pc[c] = "none"
  /\ ConnectFails
  /\ UNCHANGED <<clientVars, ghostVars>>

(* ~Client: enet_peer_disconnect drops whatever was not yet acknowledged.  *)
Destroy(c) ==
  /\ c \in Leavers
  /\ Goto(c, "idle", "gone")
  /\ Close(main[c])
  /\ UNCHANGED <<op, main, temporary, m_topic_map, m_inverse_topic_map, ghostVars>>

-----------------------------------------------------------------------------
(* publish, subscribe and get_topic_key.                                   *)

(* Mutant: the publish goes out with the type of a fanout.                 *)
Perform_WrongType(c, kind, key, payload) ==
  \/ kind = "get_topic_key" /\ UNCHANGED serverVars
  \/ kind = "subscribe" /\ Send(main[c], subscribe(key))
  \/ kind = "publish" /\ Send(main[c], fanout(key, payload))

(* What the call does with the key: one send on the main connection.       *)
Perform(c, kind, key, payload) ==
  \/ kind = "get_topic_key" /\ UNCHANGED serverVars
  \/ kind = "subscribe" /\ Send(main[c], subscribe(key))
  \/ kind = "publish" /\ Send(main[c], publish(key, payload))

(* The call, and the lookup that opens get_topic_key: with the key in the  *)
(* cache the call is over after its send.                                  *)
Call(c, kind, topic, payload) ==
  /\ pc[c] = "idle"
  /\ ops < MaxOps
  /\ ops' = ops + 1
  /\ \/ /\ topic \in DOMAIN m_topic_map[c]
        /\ Perform(c, kind, m_topic_map[c][topic], payload)
        /\ UNCHANGED <<pc, op>>
     \/ /\ topic \notin DOMAIN m_topic_map[c]
        /\ Goto(c, "idle", "connect")
        /\ op' = [op EXCEPT ![c] =
             [kind |-> kind, topic |-> topic, payload |-> payload, key |-> 0]]
        /\ UNCHANGED serverVars
  /\ UNCHANGED <<main, temporary, m_topic_map, m_inverse_topic_map, delivered>>

CallGetTopicKey(c, topic) ==
  /\ c \in Resolvers
  /\ Call(c, "get_topic_key", topic, Empty)
  /\ UNCHANGED <<intended, wanted>>

CallSubscribe(c, topic) ==
  /\ c \in Subscribers
  /\ Call(c, "subscribe", topic, Empty)
  /\ wanted' = [wanted EXCEPT ![c] = @ \cup {topic}]
  /\ UNCHANGED intended

(* Payloads are numbered in the order of the publish calls.                *)
CallPublish(c, topic, m) ==
  /\ c \in Publishers
  /\ \A n \in Payloads : intended[n] = NoTopic <=> n >= m
  /\ Call(c, "publish", topic, m)
  /\ intended' = [intended EXCEPT ![m] = topic]
  /\ UNCHANGED wanted

(* publish by key, with a key get_topic_key has returned earlier.          *)
CallPublishKey(c, topic, m) ==
  /\ topic \in DOMAIN m_topic_map[c]
  /\ CallPublish(c, topic, m)

(* An exception leaves the call.                                           *)
Throw(c, from) ==
  /\ Goto(c, from, "idle")
  /\ op' = [op EXCEPT ![c] = NoOp]
  /\ temporary' = [temporary EXCEPT ![c] = NoEndpoint]
  /\ UNCHANGED <<main, m_topic_map, m_inverse_topic_map, ghostVars>>

(* The constructor of temporary_client.                                    *)
TmpConnect(c) ==
  /\ Goto(c, "connect", "request")
  /\ \E e \in Endpoints :
       Connected(e) /\ temporary' = [temporary EXCEPT ![c] = e]
  /\ UNCHANGED <<op, main, m_topic_map, m_inverse_topic_map, ghostVars>>

TmpConnectFails(c) == ConnectFails /\ Throw(c, "connect")

(* temporary_client.send(msg).                                             *)
TmpRequest(c) ==
  /\ Goto(c, "request", "await")
  /\ Send(temporary[c], topic_request(op[c].topic))
  /\ UNCHANGED <<op, main, temporary, m_topic_map, m_inverse_topic_map, ghostVars>>

Response(c) == Head(inq[temporary[c]])

(* The two caches after the response msg.                                  *)
NamesWith(names, msg) == Put(names, msg.payload, msg.topic_key)

(* Mutants: filled like the other map; not filled at all.                  *)
InverseWith_Swapped(inverse, msg) == Put(inverse, msg.payload, msg.topic_key)
InverseWith_Forgotten(inverse, msg) == inverse

InverseWith(inverse, msg) == Put(inverse, msg.topic_key, msg.payload)

(* Mutant: the key is not handed back to the caller.                       *)
KeyReturned_Zero(msg) == 0

KeyReturned(msg) == msg.topic_key

(* temporary_client.recv() returns a topic_response; the name it carries,  *)
(* not the one that was asked for, goes into the caches.  The destructor   *)
(* of temporary_client closes the connection on return.                    *)
TmpReceive(c) ==
  /\ Goto(c, "await", "use")
  /\ inq[temporary[c]] # <<>>
  /\ Response(c).type = "topic_response"
  /\ m_topic_map' = [m_topic_map EXCEPT ![c] = NamesWith(@, Response(c))]
  /\ m_inverse_topic_map' = [m_inverse_topic_map EXCEPT ![c] = InverseWith(@, Response(c))]
  /\ op' = [op EXCEPT ![c].key = KeyReturned(Response(c))]
  /\ Close(temporary[c])
  /\ temporary' = [temporary EXCEPT ![c] = NoEndpoint]
  /\ UNCHANGED <<main, ghostVars>>

(* recv() throws, after a second or on DISCONNECT, or the packet is not a  *)
(* topic_response; the destructor closes the connection.                   *)
TmpReceiveFails(c) ==
  /\ Throw(c, "await")
  /\ (Timeouts \/ ~Linked(temporary[c])
       \/ (inq[temporary[c]] # <<>> /\ Response(c).type # "topic_response"))
  /\ Close(temporary[c])

(* The rest of the call once the key is known.                             *)
Use(c) ==
  /\ Goto(c, "use", "idle")
  /\ Perform(c, op[c].kind, op[c].key, op[c].payload)
  /\ op' = [op EXCEPT ![c] = NoOp]
  /\ UNCHANGED <<main, temporary, m_topic_map, m_inverse_topic_map, ghostVars>>

-----------------------------------------------------------------------------
(* process and poll.                                                       *)

(* Mutant: the name is not looked up.                                      *)
Label_Unknown(c, key) == NoTopic

(* The name the client has on record for a key, or "unknown".              *)
Label(c, key) ==
  IF key \in DOMAIN m_inverse_topic_map[c] THEN m_inverse_topic_map[c][key] ELSE NoTopic

(* A packet is ready: only a fanout reaches the callback, under the name   *)
(* the client has on record for its key.                                   *)
PollMessage(c) ==
  /\ pc[c] = "idle"
  /\ Poll(main[c])
  /\ LET msg == Head(inq[main[c]])
     IN  delivered' = IF msg.type = "fanout"
                      THEN [delivered EXCEPT ![c] =
                              Append(@, [payload |-> msg.payload,
                                         topic |-> Label(c, msg.topic_key)])]
                      ELSE delivered
  /\ UNCHANGED <<clientVars, ops, intended, wanted>>

(* DISCONNECT: poll throws "Disconnected from server."  The Client object  *)
(* stays as it is and its later sends go nowhere.                          *)
PollDisconnected(c) ==
  /\ pc[c] = "idle"
  /\ Lose(main[c])
  /\ UNCHANGED <<clientVars, ghostVars>>

-----------------------------------------------------------------------------
(* What the library does by itself once a call has begun.                  *)
LibraryStep(c) ==
  \/ TmpConnect(c) \/ TmpConnectFails(c) \/ TmpRequest(c)
  \/ TmpReceive(c) \/ TmpReceiveFails(c) \/ Use(c)

(* What the application decides.                                           *)
Application(c) ==
  \/ Construct(c) \/ ConstructFails(c) \/ Destroy(c)
  \/ \E t \in Topics :
       \/ CallGetTopicKey(c, t) \/ CallSubscribe(c, t)
       \/ \E m \in Payloads : CallPublish(c, t, m) \/ CallPublishKey(c, t, m)

Receive(c) == PollMessage(c) \/ PollDisconnected(c)

ServerStep == (process \/ Restart) /\ UNCHANGED <<clientVars, ghostVars>>

BusNext ==
  \/ ServerStep
  \/ \E c \in Clients : Application(c) \/ LibraryStep(c) \/ Receive(c)

BusSpec == BusInit /\ [][BusNext]_busVars

(* The server polls in a tight loop and ENet reports the events of every   *)
(* peer in turn; a library call, once begun, runs on; an application that  *)
(* subscribed keeps calling process or poll between its other calls.       *)
FairBusSpec ==
  /\ BusSpec
  /\ \A p \in Peers :
       /\ WF_busVars(OnConnect(p) /\ UNCHANGED <<clientVars, ghostVars>>)
       /\ WF_busVars(OnDisconnect(p) /\ UNCHANGED <<clientVars, ghostVars>>)
       /\ WF_busVars(OnAbandoned(p) /\ UNCHANGED <<clientVars, ghostVars>>)
       /\ WF_busVars((OnTopicRequest(p) \/ OnSubscribe(p) \/ OnPublish(p))
                        /\ UNCHANGED <<clientVars, ghostVars>>)
  /\ \A c \in Clients : WF_busVars(LibraryStep(c)) /\ WF_busVars(PollMessage(c))
-----------------------------------------------------------------------------
PcStates == {"none", "idle", "connect", "request", "await", "use", "gone"}

BusTypeOK ==
  /\ ServerTypeOK
  /\ pc \in [Clients -> PcStates]
  /\ op \in [Clients -> [kind: Kinds, topic: Topics \cup {NoTopic},
                         payload: Payloads \cup {Empty}, key: Nat]]
  /\ main \in [Clients -> Endpoints \cup {NoEndpoint}]
  /\ temporary \in [Clients -> Endpoints \cup {NoEndpoint}]
  /\ DOMAIN m_topic_map = Clients /\ DOMAIN m_inverse_topic_map = Clients
  /\ \A c \in Clients :
       /\ DOMAIN m_topic_map[c] \subseteq Topics
       /\ \A t \in DOMAIN m_topic_map[c] : m_topic_map[c][t] \in Nat
       /\ DOMAIN m_inverse_topic_map[c] \subseteq Nat
       /\ \A k \in DOMAIN m_inverse_topic_map[c] : m_inverse_topic_map[c][k] \in Topics
  /\ ops \in 0 .. MaxOps
  /\ intended \in [Payloads -> Topics \cup {NoTopic}]
  /\ wanted \in [Clients -> SUBSET Topics]
  /\ delivered \in [Clients -> Seq([payload: Payloads, topic: Topics \cup {NoTopic}])]

(* The keys of a packet that reaches a server are keys of that server: a   *)
(* publish waiting in a slot carries the key under which the server, as it *)
(* is now, knows the topic the application named, and a subscribe carries  *)
(* the key of some topic it knows.  Clients cache keys for ever and keys   *)
(* change with every restart, so this rests on the order of connecting,    *)
(* resolving and sending, and on links that do not survive a restart.      *)
KeysMeanTheirTopic ==
  \A p \in Peers : \A i \in DOMAIN rx[p] :
    LET msg == rx[p][i] IN
      /\ msg.type = "publish" =>
           /\ intended[msg.payload] \in DOMAIN m_map
           /\ m_map[intended[msg.payload]] = msg.topic_key
      /\ msg.type = "subscribe" => \E t \in DOMAIN m_map : m_map[t] = msg.topic_key

(* A client's callback gets only payloads that were published to a topic   *)
(* the client subscribed to, by another client, and each at most once.     *)
DeliverySound ==
  \A c \in Clients : \A i \in DOMAIN delivered[c] :
    LET m == delivered[c][i].payload IN
      /\ intended[m] \in wanted[c]
      /\ author[m] # NoEndpoint /\ author[m] # main[c]
      /\ \A j \in DOMAIN delivered[c] : delivered[c][j].payload = m => i = j

(* Publishes of one client to one topic arrive in the order of its calls   *)
(* and without gaps, although each may have resolved the topic on the way. *)
DeliveryOrdered ==
  \A c \in Clients : \A i, j \in DOMAIN delivered[c] :
    LET m == delivered[c][i].payload
        n == delivered[c][j].payload
    IN  i < j /\ author[m] = author[n] /\ intended[m] = intended[n] =>
          /\ m < n
          /\ \A l \in Payloads \cap (m .. n) :
               author[l] = author[m] /\ intended[l] = intended[m] =>
                 \E k \in i .. j : delivered[c][k].payload = l

(* The name a fanout is given to the callback with is the name it was      *)
(* published to; in particular it is never "unknown" (client.hpp:          *)
(* "Resolved topic name, or "unknown" if the client has not resolved the   *)
(* key").                                                                  *)
LabelsTrue ==
  \A c \in Clients : \A i \in DOMAIN delivered[c] :
    delivered[c][i].topic = intended[delivered[c][i].payload]

(* As long as the server that filled a client's caches is the one that     *)
(* runs, the name a fanout is given to the callback with is the one it was *)
(* published to: process() looks a key up that get_topic_key has put there *)
(* before the subscribe went out, so "unknown" never shows either.         *)
LabelsTrueSinceStart == restarts = 0 => LabelsTrue

(* The two caches of a client are inverse to each other and agree with the *)
(* server that is running, as long as it is the one that filled them.      *)
CachesCoherent ==
  restarts = 0 =>
    \A c \in Clients :
      /\ \A t \in DOMAIN m_topic_map[c] :
           /\ t \in DOMAIN m_map /\ m_map[t] = m_topic_map[c][t]
           /\ m_topic_map[c][t] \in DOMAIN m_inverse_topic_map[c]
           /\ m_inverse_topic_map[c][m_topic_map[c][t]] = t
      /\ \A k \in DOMAIN m_inverse_topic_map[c] :
           /\ m_inverse_topic_map[c][k] \in DOMAIN m_topic_map[c]
           /\ m_topic_map[c][m_inverse_topic_map[c][k]] = k

(* The clients are one possible environment of the server, so everything   *)
(* shown of module Server holds here too.                                  *)
UsesServer == ServerSpec

(* What the applications see of all this.  A client sits in the slot whose *)
(* far end is its main connection; its packets may outlive the link.       *)
SlotsOf(c) == {p \in Peers : remote[p] = main[c] /\ main[c] # NoEndpoint}
Up == {c \in Clients : SlotsOf(c) # {}}
SubscribedTo(c) ==
  {t \in DOMAIN m_map : \E p \in SlotsOf(c) :
     /\ peer_state[p] = "connected"
     /\ m_map[t] \in client[peer_data[p]].subscribed_topics}
PublishedTo(m) == IF author[m] = NoEndpoint THEN NoTopic ELSE intended[m]

(* The payloads of the packets of this type in queue q; queue q holds a    *)
(* publish of endpoint e.                                                  *)
PayloadsOf(q, type) ==
  LET upTo[i \in 0 .. Len(q)] ==
        IF i = 0 THEN <<>>
        ELSE IF q[i].type = type THEN Append(upTo[i - 1], q[i].payload) ELSE upTo[i - 1]
  IN  upTo[Len(q)]
QueuedBy(q, writer, e) ==
  \E i \in DOMAIN q : q[i].type = "publish" /\ writer[q[i].payload] = e
Outbox(c) ==
  IF \E p \in Peers : QueuedBy(rx[p], author, main[c])
  THEN PayloadsOf(rx[CHOOSE p \in Peers : QueuedBy(rx[p], author, main[c])], "publish")
  ELSE <<>>
Mailbox(c) == IF main[c] = NoEndpoint THEN <<>> ELSE PayloadsOf(inq[main[c]], "fanout")
ReadBy(c) == [i \in DOMAIN delivered[c] |-> delivered[c][i].payload]

PubSub == INSTANCE PubSub WITH
  up <- Up,
  subscribed <- [c \in Clients |-> SubscribedTo(c)],
  topic <- [m \in Payloads |-> PublishedTo(m)],
  outbox <- [c \in Clients |-> Outbox(c)],
  mailbox <- [c \in Clients |-> Mailbox(c)],
  delivered <- [c \in Clients |-> ReadBy(c)]

(* The bus keeps the promise of module PubSub: keys, caches, slots and     *)
(* temporary connections never show.  In particular no subscriber is       *)
(* forgotten, and nothing is lost while the connections stay up.           *)
ImplementsPubSub == PubSub!Spec

-----------------------------------------------------------------------------
(* Liveness, on a network that loses no link and a server that keeps going.*)

Got(c, m) == \E i \in DOMAIN delivered[c] : delivered[c][i].payload = m
Publisher(m) == {d \in Clients : main[d] = author[m]}

(* Payload m is at the server and client c, another one, is subscribed to  *)
(* its key.                                                                *)
Owed(c, m) ==
  /\ main[c] # author[m]
  /\ \E p, q \in Peers :
       /\ \E i \in DOMAIN rx[p] :
            /\ rx[p][i].type = "publish" /\ rx[p][i].payload = m
            /\ peer_state[q] = "connected" /\ remote[q] = main[c]
            /\ rx[p][i].topic_key \in client[peer_data[q]].subscribed_topics

(* What is owed to a client is given to it, unless it or the publisher     *)
(* destroys its Client first.                                              *)
EventualDelivery ==
  \A c \in Clients, m \in Payloads :
    Owed(c, m) ~> \/ Got(c, m)
                  \/ \E d \in {c} \cup Publisher(m) : pc[d] = "gone"

(* The same without the second exception: "Send bytes to the connected     *)
(* peer reliably" (networking/client/client.hpp).                          *)
SendIsReliable ==
  \A c \in Clients, m \in Payloads : Owed(c, m) ~> Got(c, m) \/ pc[c] = "gone"

(* A call that has begun comes back to the application, without help from  *)
(* the timeouts: the server answers every request of a temporary           *)
(* connection, or has no slot for it.                                      *)
CallsReturn == \A c \in Clients :
  pc[c] \in {"connect", "request", "await", "use"} ~> pc[c] = "idle"

(* With more slots than clients there is, again and again, a free slot for *)
(* a temporary connection, however often clients resolve topics and leave: *)
(* the slots of closed connections come back.                              *)
SlotAvailable == []<>(\E p \in Peers : peer_state[p] = "free")
=============================================================================
