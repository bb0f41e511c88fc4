------------------------------- MODULE Server -------------------------------
(***************************************************************************)
(* The spraybus server: networking::server::Server, which keeps one Client *)
(* record per connected peer and dispatches ENet events, and server::Server*)
(* on top of it, which resolves topics, keeps subscriptions and forwards   *)
(* publishes.  The server is single-threaded: process() takes one event    *)
(* from enet_host_service, runs its handler to the end, and takes the next *)
(* one, so each handler is one action.                                     *)
(*                                                                         *)
(* The clients are the environment: any endpoint may connect, send any     *)
(* packet in any order, stop reading, close or lose its link.  Module Bus  *)
(* puts the real client library in their place.                            *)
(***************************************************************************)
EXTENDS ENet, TopicMap

CONSTANTS
  Addrs,              \* heap addresses of Client records (nodes of m_client_map)
  NoAddr,             \* the null pointer
  NoPeer,             \* the peer of no record
  Keys,               \* the topic keys clients may name, handed out or not
  MaxClientId,        \* bound: client ids handed out by one server process
  MaxRestarts         \* bound: server restarts

ASSUME ServerAssumption ==
  /\ NoAddr \notin Addrs
  /\ NoPeer \notin Peers
  /\ Keys \subseteq Nat
  /\ MaxClientId \in Nat
  /\ MaxRestarts \in Nat

VARIABLES
  m_next_client_id,
  m_client_map,       \* client id -> address of its record, NoAddr when not mapped
  m_clients,          \* the elements of the vector of Client*
  live,               \* addresses that hold a Client record
  client,             \* address -> the record there, meaningful while it is live
  peer_data,          \* slot -> event.peer->data, never cleared by the code
  restarts,
  asked,              \* history: endpoint -> keys it has sent a subscribe for
  author              \* history: payload -> the endpoint that published it

registryVars == <<m_next_client_id, m_client_map, m_clients, live, client, peer_data>>
historyVars == <<asked, author>>
serverVars == <<enetVars, topicMapVars, registryVars, restarts, historyVars>>

Ids == 1 .. MaxClientId

ClientRecords ==
  [m_id: Nat, m_peer: Peers \cup {NoPeer}, subscribed_topics: SUBSET Nat]

-----------------------------------------------------------------------------
(* The server process: constructor, registry and event handlers.           *)

(* Memory that holds no Client record, an empty id map, null pointers.  An *)
(* address that is not live has arbitrary contents, which nobody may read  *)
(* (RegistryConsistent); one record stands for all of them.                *)
NoRecord ==
  [m_id |-> 0, m_peer |-> NoPeer, subscribed_topics |-> {}]
FreshMemory ==
  [a \in Addrs |-> NoRecord]
NoClients == [i \in Ids |-> NoAddr]
NullData == [p \in Peers |-> NoAddr]

(* Member initialisers of a new Server.                                    *)
RegistryInit ==
  /\ m_next_client_id = 1
  /\ m_client_map = NoClients
  /\ m_clients = {}
  /\ live = {}
  /\ client = FreshMemory
  /\ peer_data = NullData

ServerInit ==
  /\ ENetInit
  /\ TopicMapInit
  /\ RegistryInit
  /\ restarts = 0
  /\ asked = [e \in Endpoints |-> {}]
  /\ author = [m \in Payloads |-> NoEndpoint]

(* create_client: the new node may reuse any address that was freed.       *)
create_client(p) ==
  \E a \in Addrs \ live :
    /\ m_client_map[m_next_client_id] = NoAddr
    /\ m_next_client_id' = m_next_client_id + 1
    /\ m_client_map' = [m_client_map EXCEPT ![m_next_client_id] = a]
    /\ m_clients' = m_clients \cup {a}
    /\ live' = live \cup {a}
    /\ client' = [client EXCEPT ![a] =
         [m_id |-> m_next_client_id, m_peer |-> p, subscribed_topics |-> {}]]
    /\ peer_data' = [peer_data EXCEPT ![p] = a]

(* Mutant: the pointer stays in the vector.                                *)
destroy_client_KeepsPointer(a) ==
  /\ m_client_map' = [m_client_map EXCEPT ![client[a].m_id] = NoAddr]
  /\ live' = live \ {m_client_map[client[a].m_id]}
  /\ client' = [client EXCEPT ![m_client_map[client[a].m_id]] = NoRecord]
  /\ UNCHANGED <<m_clients, m_next_client_id, peer_data>>

(* destroy_client: the record is found through its own id; the vector is   *)
(* then searched for the pointer value.                                    *)
destroy_client(a) ==
  /\ m_client_map' = [m_client_map EXCEPT ![client[a].m_id] = NoAddr]
  /\ live' = live \ {m_client_map[client[a].m_id]}
  /\ client' = [client EXCEPT ![m_client_map[client[a].m_id]] = NoRecord]
  /\ m_clients' = m_clients \ {a}
  /\ UNCHANGED <<m_next_client_id, peer_data>>

(* process(), case ENET_EVENT_TYPE_CONNECT.                                *)
OnConnect(p) ==
  /\ m_next_client_id <= MaxClientId
  /\ ReportConnect(p)
  /\ create_client(p)
  /\ UNCHANGED <<topicMapVars, restarts, historyVars>>

(* process(), case ENET_EVENT_TYPE_DISCONNECT.                             *)
OnDisconnect(p) ==
  /\ ReportDisconnect(p)
  /\ destroy_client(peer_data[p])
  /\ UNCHANGED <<topicMapVars, restarts, historyVars>>

(* process(), case ENET_EVENT_TYPE_RECEIVE with a packet of this type.     *)
Receiving(p, type) ==
  /\ peer_state[p] = "connected"
  /\ rx[p] # <<>>
  /\ Head(rx[p]).type = type

(* Mutant: only the request that creates the topic is answered.            *)
OnTopicRequest_FirstOnly(p) ==
  /\ Receiving(p, "topic_request")
  /\ LET topic == Head(rx[p]).payload
         c == client[peer_data[p]]
     IN  /\ get_or_create(topic)
         /\ ReportReceive(p, {c.m_peer} \ {q \in Peers : topic \in DOMAIN m_map},
                          topic_response(KeyOf(topic), topic))
  /\ UNCHANGED <<registryVars, restarts, historyVars>>

(* on_message, case topic_request: the answer goes to the asking client.   *)
OnTopicRequest(p) ==
  /\ Receiving(p, "topic_request")
  /\ LET topic == Head(rx[p]).payload
         c == client[peer_data[p]]
     IN  /\ get_or_create(topic)
         /\ ReportReceive(p, {c.m_peer}, topic_response(KeyOf(topic), topic))
  /\ UNCHANGED <<registryVars, restarts, historyVars>>

SetSubscriptions(p, keys) ==
  /\ client' = [client EXCEPT ![peer_data[p]].subscribed_topics = keys]
  /\ ReportReceive(p, {}, Head(rx[p]))
  /\ UNCHANGED <<topicMapVars, m_next_client_id, m_client_map, m_clients, live,
                 peer_data, restarts, historyVars>>

(* on_message, case subscribe: any key is accepted, known or not.          *)
OnSubscribe(p) ==
  /\ Receiving(p, "subscribe")
  /\ SetSubscriptions(p, client[peer_data[p]].subscribed_topics
                           \cup {Head(rx[p]).topic_key})

(* on_message, case unsubscribe.                                           *)
OnUnsubscribe(p) ==
  /\ Receiving(p, "unsubscribe")
  /\ SetSubscriptions(p, client[peer_data[p]].subscribed_topics
                           \ {Head(rx[p]).topic_key})

(* Mutants: the publisher is not skipped; the key is not compared; older   *)
(* clients are skipped too.                                                *)
FanoutTargets_Echo(sender, key) ==
  {a \in m_clients : key \in client[a].subscribed_topics}
FanoutTargets_AnyKey(sender, key) ==
  {a \in m_clients : client[a].m_id # client[sender].m_id}
FanoutTargets_Newer(sender, key) ==
  {a \in m_clients : /\ client[a].m_id > client[sender].m_id
                     /\ key \in client[a].subscribed_topics}

(* The loop over clients(): all subscribers of the key but the publisher.  *)
FanoutTargets(sender, key) ==
  {a \in m_clients : /\ client[a].m_id # client[sender].m_id
                     /\ key \in client[a].subscribed_topics}

(* on_message, case publish.                                               *)
OnPublish(p) ==
  /\ Receiving(p, "publish")
  /\ LET msg == Head(rx[p])
         targets == FanoutTargets(peer_data[p], msg.topic_key)
     IN  ReportReceive(p, {client[a].m_peer : a \in targets},
                       fanout(msg.topic_key, msg.payload))
  /\ UNCHANGED <<topicMapVars, registryVars, restarts, historyVars>>

(* on_message: a packet shorter than the header, and the default case.     *)
OnIgnored(p) ==
  /\ \E type \in {"short", "unknown", "topic_response", "fanout"} : Receiving(p, type)
  /\ ReportReceive(p, {}, Head(rx[p]))
  /\ UNCHANGED <<topicMapVars, registryVars, restarts, historyVars>>

(* A handshake given up before its CONNECT event: the server code is not   *)
(* called at all.                                                          *)
OnAbandoned(p) ==
  /\ AbandonPending(p)
  /\ UNCHANGED <<topicMapVars, registryVars, restarts, historyVars>>

(* ~Server or a crash, and a new process on the same port: nothing is      *)
(* persisted.                                                              *)
Restart ==
  /\ restarts < MaxRestarts
  /\ restarts' = restarts + 1
  /\ ServerHostReplaced
  /\ m_map' = NoTopics /\ m_next_key' = 1
  /\ m_next_client_id' = 1 /\ m_client_map' = NoClients
  /\ m_clients' = {} /\ live' = {}
  /\ client' = FreshMemory /\ peer_data' = NullData
  /\ UNCHANGED historyVars

process ==
  \E p \in Peers :
    \/ OnConnect(p) \/ OnDisconnect(p) \/ OnAbandoned(p)
    \/ OnTopicRequest(p) \/ OnSubscribe(p) \/ OnUnsubscribe(p)
    \/ OnPublish(p) \/ OnIgnored(p)

-----------------------------------------------------------------------------
(* The environment of the server.                                          *)

Untouched == <<topicMapVars, registryVars, restarts>>

Connect(p, e) ==
  HostConnect(p, e) /\ UNCHANGED <<Untouched, historyVars>>

ConnectLate(p, e) ==
  HostConnectLate(p, e) /\ UNCHANGED <<Untouched, historyVars>>

(* The ghost variables note who asked for which key and who wrote what; a  *)
(* payload is published at most once, so that it names its publish.        *)
Send(e, packet) ==
  /\ HostSend(e, packet)
  /\ asked' = IF packet.type = "subscribe"
              THEN [asked EXCEPT ![e] = @ \cup {packet.topic_key}] ELSE asked
  /\ IF packet.type = "publish"
     THEN /\ author[packet.payload] = NoEndpoint
          /\ author' = [author EXCEPT ![packet.payload] = e]
     ELSE UNCHANGED author
  /\ UNCHANGED Untouched

Poll(e) == HostReceive(e) /\ UNCHANGED <<Untouched, historyVars>>
Lose(e) == HostDisconnected(e) /\ UNCHANGED <<Untouched, historyVars>>
Close(e) == HostDestroy(e) /\ UNCHANGED <<Untouched, historyVars>>

(* What an endpoint may send: any request, for any key, whether the server *)
(* has handed it out or not, and packets the server has no case for.       *)
ClientPackets ==
  {topic_request(t) : t \in Topics} \cup {publish(k, m) : k \in Keys, m \in Payloads}
    \cup {subscribe(k) : k \in Keys} \cup {unsubscribe(k) : k \in Keys}
    \cup {construct(type, 0, Empty) : type \in {"short", "unknown"}}

Environment ==
  \E e \in Endpoints :
    \/ \E p \in Peers : Connect(p, e) \/ ConnectLate(p, e)
    \/ \E packet \in ClientPackets : Send(e, packet)
    \/ Poll(e) \/ Lose(e) \/ Close(e)

ServerNext == process \/ Environment \/ Restart

ServerSpec == ServerInit /\ [][ServerNext]_serverVars

-----------------------------------------------------------------------------
ServerTypeOK ==
  /\ ENetTypeOK
  /\ TopicMapTypeOK
  /\ m_next_client_id \in Nat \ {0}
  /\ m_client_map \in [Ids -> Addrs \cup {NoAddr}]
  /\ m_clients \subseteq Addrs
  /\ live \subseteq Addrs
  /\ client \in [Addrs -> ClientRecords]
  /\ peer_data \in [Peers -> Addrs \cup {NoAddr}]
  /\ restarts \in Nat
  /\ asked \in [Endpoints -> SUBSET Nat]
  /\ author \in [Payloads -> Endpoints \cup {NoEndpoint}]

(* No handler ever follows a stale pointer.  The data pointer of every     *)
(* connected slot leads to a live record of that very slot, the vector the *)
(* fanout loop walks holds exactly the live records, and the id map leads  *)
(* from the id of each live record back to it.                             *)
RegistryConsistent ==
  /\ \A p \in Peers : peer_state[p] = "connected" =>
       peer_data[p] \in live /\ client[peer_data[p]].m_peer = p
  /\ \A a \in live : LET c == client[a] IN
       /\ c.m_peer \in Peers /\ peer_state[c.m_peer] = "connected"
       /\ peer_data[c.m_peer] = a
       /\ c.m_id \in Ids /\ c.m_id < m_next_client_id
       /\ m_client_map[c.m_id] = a
  /\ m_clients = live
  /\ \A i \in Ids : m_client_map[i] # NoAddr =>
       m_client_map[i] \in live /\ client[m_client_map[i]].m_id = i

(* A fanout only ever reaches an endpoint that asked for its key on this   *)
(* connection and that is not the one that published it, although slots    *)
(* and record addresses are reused by later connections.                   *)
FanoutWanted ==
  \A e \in Endpoints : \A i \in DOMAIN inq[e] :
    inq[e][i].type = "fanout" =>
      /\ inq[e][i].topic_key \in asked[e]
      /\ author[inq[e][i].payload] # e

(* Within one server process a key, once handed out, stays the key of its  *)
(* topic ("stable numeric keys", topic_map.hpp).                           *)
KeysStable ==
  [][restarts' = restarts =>
       \A t \in DOMAIN m_map : t \in DOMAIN m_map' /\ m_map'[t] = m_map[t]]_serverVars
=============================================================================
