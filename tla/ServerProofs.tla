---------------------------- MODULE ServerProofs ----------------------------
(***************************************************************************)
(* Theorems about module Server, for every number of slots, hosts, topics, *)
(* records and restarts.                                                   *)
(***************************************************************************)
EXTENDS Server, TLAPS

USE DEF enetVars, topicMapVars, registryVars, historyVars, serverVars

(* The server with endpoints that send any well-formed packet at all, also *)
(* the ones no client builds: the step lemmas hold even then, so that they *)
(* serve ServerSpec and module Bus alike.                                  *)
OpenEnvironment ==
  \E e \in Endpoints :
    \/ \E p \in Peers : Connect(p, e) \/ ConnectLate(p, e)
    \/ \E packet \in Packets : Send(e, packet)
    \/ Poll(e) \/ Lose(e) \/ Close(e)

OpenNext == process \/ OpenEnvironment \/ Restart

-----------------------------------------------------------------------------
(* Every packet a client or the server builds is well formed.              *)
LEMMA PacketsTyped ==
  /\ \A packet \in ClientPackets : packet \in Packets
  /\ \A t \in Topics : topic_request(t) \in Packets
  /\ \A k \in Nat, m \in Payloads : publish(k, m) \in Packets
  /\ \A k \in Nat : subscribe(k) \in Packets
  /\ \A k \in Nat, t \in Topics : topic_response(k, t) \in Packets
  /\ \A k \in Nat, m \in Payloads : fanout(k, m) \in Packets
BY ServerAssumption
   DEF ClientPackets, Packets, construct, topic_request, topic_response, publish,
       subscribe, unsubscribe, fanout

(* The environment of ServerSpec is one of these.                          *)
LEMMA ServerStepsAreOpen ==
  ASSUME [ServerNext]_serverVars
  PROVE  [OpenNext]_serverVars
BY PacketsTyped DEF ServerNext, Environment, OpenNext, OpenEnvironment

(* What a packet of a given type carries.                                  *)
LEMMA PacketFields ==
  ASSUME NEW packet \in Packets
  PROVE  /\ packet.topic_key \in Nat
         /\ packet.type = "topic_request" => packet.payload \in Topics
         /\ packet.type = "publish" => packet.payload \in Payloads
BY DEF Packets

(* The initial state is well typed.                                        *)
LEMMA InitTyped == ServerInit => ServerTypeOK
BY ENetAssumption, ServerAssumption
   DEF ServerInit, ENetInit, TopicMapInit, RegistryInit, ServerTypeOK, ENetTypeOK,
       TopicMapTypeOK, NoTopics, NoClients, FreshMemory, NullData, NoRecord,
       ClientRecords, Ids

(* The ENet variables stay well typed when a RECEIVE event is handled and  *)
(* a well-formed packet, or none, is sent.                                 *)
LEMMA ReceiveTyped ==
  ASSUME ENetTypeOK, NEW p \in Peers, NEW Q, NEW packet \in Packets,
         ReportReceive(p, Q, packet)
  PROVE  ENetTypeOK'
BY DEF ENetTypeOK, ReportReceive

LEMMA TopicMapTyped ==
  ASSUME TopicMapTypeOK, NEW topic \in Topics, get_or_create(topic)
  PROVE  /\ TopicMapTypeOK'
         /\ KeyOf(topic) \in Nat
BY DEF TopicMapTypeOK, get_or_create, KeyOf

(* A packet that an endpoint sends leaves the transport well typed.        *)
LEMMA SendTyped ==
  ASSUME ENetTypeOK, NEW e \in Endpoints, NEW packet \in Packets, HostSend(e, packet)
  PROVE  ENetTypeOK'
BY DEF ENetTypeOK, HostSend

(* The head of a slot's queue is a well-formed packet.                     *)
LEMMA HeadTyped ==
  ASSUME ENetTypeOK, NEW p \in Peers, rx[p] # <<>>
  PROVE  Head(rx[p]) \in Packets
BY DEF ENetTypeOK

(* Every step keeps the state well typed.                                  *)
LEMMA StepTyped ==
  ASSUME ServerTypeOK, [OpenNext]_serverVars
  PROVE  ServerTypeOK'
<1> USE ServerAssumption, ENetAssumption
<1>1. CASE UNCHANGED serverVars
  BY <1>1 DEF ServerTypeOK, ENetTypeOK, TopicMapTypeOK, Ids
<1>2. CASE Restart
  BY <1>2 DEF Restart, ServerHostReplaced, NoTopics, NoClients, FreshMemory, NullData,
              NoRecord, ClientRecords, Ids, ServerTypeOK, ENetTypeOK, TopicMapTypeOK
<1>3. ASSUME NEW p \in Peers, OnConnect(p) PROVE ServerTypeOK'
  <2>1. PICK a \in Addrs \ live :
          /\ m_next_client_id' = m_next_client_id + 1
          /\ m_client_map' = [m_client_map EXCEPT ![m_next_client_id] = a]
          /\ m_clients' = m_clients \cup {a}
          /\ live' = live \cup {a}
          /\ client' = [client EXCEPT ![a] =
               [m_id |-> m_next_client_id, m_peer |-> p, subscribed_topics |-> {}]]
          /\ peer_data' = [peer_data EXCEPT ![p] = a]
    BY <1>3 DEF OnConnect, create_client
  <2>2. ENetTypeOK'
    BY <1>3 DEF OnConnect, ReportConnect, ServerTypeOK, ENetTypeOK
  <2>3. client' \in [Addrs -> ClientRecords]
    BY <2>1 DEF ServerTypeOK, ClientRecords
  <2> QED
    BY <1>3, <2>1, <2>2, <2>3 DEF OnConnect, ServerTypeOK, TopicMapTypeOK, Ids
<1>4. ASSUME NEW p \in Peers, OnDisconnect(p) PROVE ServerTypeOK'
  <2>1. ENetTypeOK'
    BY <1>4 DEF OnDisconnect, ReportDisconnect, ReleaseSlot, ServerTypeOK, ENetTypeOK
  <2>2. client' \in [Addrs -> ClientRecords]
    BY <1>4 DEF OnDisconnect, destroy_client, NoRecord, ServerTypeOK, ClientRecords
  <2> QED
    BY <1>4, <2>1, <2>2 DEF OnDisconnect, destroy_client, ServerTypeOK, TopicMapTypeOK, Ids
<1>5. ASSUME NEW p \in Peers, OnAbandoned(p) PROVE ServerTypeOK'
  BY <1>5 DEF OnAbandoned, AbandonPending, ReleaseSlot, ServerTypeOK, ENetTypeOK,
              TopicMapTypeOK
<1>6. ASSUME NEW p \in Peers, OnTopicRequest(p) PROVE ServerTypeOK'
  <2> DEFINE topic == Head(rx[p]).payload
  <2>1. topic \in Topics
    BY <1>6, HeadTyped, PacketFields DEF OnTopicRequest, Receiving, ServerTypeOK
  <2>2. TopicMapTypeOK' /\ KeyOf(topic) \in Nat
    BY <1>6, <2>1, TopicMapTyped DEF OnTopicRequest, ServerTypeOK
  <2>3. topic_response(KeyOf(topic), topic) \in Packets
    BY <2>1, <2>2, PacketsTyped
  <2>4. ENetTypeOK'
    BY <1>6, <2>3, ReceiveTyped DEF OnTopicRequest, ServerTypeOK
  <2> QED
    BY <1>6, <2>2, <2>4 DEF OnTopicRequest, ServerTypeOK, Ids
<1>7. ASSUME NEW p \in Peers, NEW keys, peer_data[p] \in Addrs => keys \in SUBSET Nat,
             rx[p] # <<>>, SetSubscriptions(p, keys)
      PROVE  ServerTypeOK'
  <2>1. ENetTypeOK'
    BY <1>7, HeadTyped, ReceiveTyped DEF SetSubscriptions, ServerTypeOK
  <2>2. client' \in [Addrs -> ClientRecords]
    <3>1. /\ client' = [client EXCEPT ![peer_data[p]].subscribed_topics = keys]
          /\ client \in [Addrs -> ClientRecords]
      BY <1>7 DEF SetSubscriptions, ServerTypeOK
    <3>2. CASE peer_data[p] \in Addrs
      BY <1>7, <3>1, <3>2 DEF ClientRecords
    <3>3. CASE peer_data[p] \notin Addrs
      BY <3>1, <3>3
    <3> QED
      BY <3>2, <3>3
  <2> QED
    BY <1>7, <2>1, <2>2 DEF SetSubscriptions, ServerTypeOK, TopicMapTypeOK, Ids
<1>8. ASSUME NEW p \in Peers, OnSubscribe(p) PROVE ServerTypeOK'
  <2> DEFINE keys == client[peer_data[p]].subscribed_topics \cup {Head(rx[p]).topic_key}
  <2>1. peer_data[p] \in Addrs => keys \in SUBSET Nat
    BY <1>8, HeadTyped, PacketFields
       DEF OnSubscribe, Receiving, ServerTypeOK, ClientRecords
  <2> QED
    BY <1>7, <1>8, <2>1 DEF OnSubscribe, Receiving
<1>9. ASSUME NEW p \in Peers, OnUnsubscribe(p) PROVE ServerTypeOK'
  <2> DEFINE keys == client[peer_data[p]].subscribed_topics \ {Head(rx[p]).topic_key}
  <2>1. peer_data[p] \in Addrs => keys \in SUBSET Nat
    BY DEF ServerTypeOK, ClientRecords
  <2> QED
    BY <1>7, <1>9, <2>1 DEF OnUnsubscribe, Receiving
<1>10. ASSUME NEW p \in Peers, OnPublish(p) PROVE ServerTypeOK'
  <2>1. fanout(Head(rx[p]).topic_key, Head(rx[p]).payload) \in Packets
    BY <1>10, HeadTyped, PacketFields, PacketsTyped DEF OnPublish, Receiving, ServerTypeOK
  <2>2. ENetTypeOK'
    BY <1>10, <2>1, ReceiveTyped DEF OnPublish, ServerTypeOK
  <2> QED
    BY <1>10, <2>2 DEF OnPublish, ServerTypeOK, TopicMapTypeOK, Ids
<1>11. ASSUME NEW p \in Peers, OnIgnored(p) PROVE ServerTypeOK'
  <2>1. ENetTypeOK'
    BY <1>11, HeadTyped, ReceiveTyped DEF OnIgnored, Receiving, ServerTypeOK
  <2> QED
    BY <1>11, <2>1 DEF OnIgnored, ServerTypeOK, TopicMapTypeOK, Ids
<1>12. ASSUME NEW e \in Endpoints, NEW packet \in Packets, Send(e, packet)
       PROVE  ServerTypeOK'
  <2>1. ENetTypeOK'
    BY <1>12, SendTyped DEF Send, ServerTypeOK
  <2>2. asked' \in [Endpoints -> SUBSET Nat]
    BY <1>12, PacketFields DEF Send, ServerTypeOK
  <2>3. author' \in [Payloads -> Endpoints \cup {NoEndpoint}]
    BY <1>12, PacketFields DEF Send, ServerTypeOK
  <2> QED
    BY <1>12, <2>1, <2>2, <2>3 DEF Send, Untouched, ServerTypeOK, TopicMapTypeOK, Ids
<1>13. ASSUME NEW e \in Endpoints, NEW p \in Peers, Connect(p, e) \/ ConnectLate(p, e)
       PROVE  ServerTypeOK'
  <2>1. CASE Connect(p, e)
    BY <2>1 DEF Connect, HostConnect, Untouched, ServerTypeOK, ENetTypeOK, TopicMapTypeOK
  <2>2. CASE ConnectLate(p, e)
    BY <2>2 DEF ConnectLate, HostConnectLate, Untouched, ServerTypeOK, ENetTypeOK,
                TopicMapTypeOK
  <2> QED
    BY <1>13, <2>1, <2>2
<1>14. ASSUME NEW e \in Endpoints, Poll(e) \/ Lose(e) \/ Close(e) PROVE ServerTypeOK'
  <2>1. ENetTypeOK'
    <3>1. CASE Poll(e)
      BY <3>1 DEF Poll, HostReceive, ServerTypeOK, ENetTypeOK
    <3>2. CASE Lose(e)
      BY <3>2 DEF Lose, HostDisconnected, Unlink, ServerTypeOK, ENetTypeOK
    <3>3. CASE Close(e)
      BY <3>3 DEF Close, HostDestroy, Unlink, ServerTypeOK, ENetTypeOK
    <3> QED
      BY <1>14, <3>1, <3>2, <3>3
  <2> QED
    BY <1>14, <2>1 DEF Poll, Lose, Close, Untouched, ServerTypeOK, TopicMapTypeOK
<1> QED
  BY <1>1, <1>2, <1>3, <1>4, <1>5, <1>6, <1>8, <1>9, <1>10, <1>11, <1>12, <1>13, <1>14
     DEF OpenNext, process, OpenEnvironment

(* The server's state is well typed in every reachable state.              *)
THEOREM TypeCorrect == ServerSpec => []ServerTypeOK
BY InitTyped, StepTyped, ServerStepsAreOpen, PTL DEF ServerSpec

-----------------------------------------------------------------------------
(* The topic map.                                                          *)

(* Only a topic_request and a restart touch the topic map.                 *)
LEMMA TopicMapSteps ==
  ASSUME [OpenNext]_serverVars
  PROVE  \/ UNCHANGED topicMapVars
         \/ restarts' = restarts /\ \E topic : get_or_create(topic)
         \/ restarts' = restarts + 1 /\ m_map' = NoTopics /\ m_next_key' = 1
<1>1. CASE Restart
  BY <1>1 DEF Restart
<1>2. CASE process
  BY <1>2 DEF process, OnConnect, OnDisconnect, OnAbandoned, OnTopicRequest, OnSubscribe,
              OnUnsubscribe, SetSubscriptions, OnPublish, OnIgnored
<1>3. CASE OpenEnvironment
  BY <1>3 DEF OpenEnvironment, Connect, ConnectLate, Send, Poll, Lose, Close, Untouched
<1> QED
  BY <1>1, <1>2, <1>3 DEF OpenNext

(* get_or_create keeps keys unique and the keys of known topics.           *)
LEMMA GetOrCreateKeepsKeys ==
  ASSUME TopicMapTypeOK, KeysUnique, NEW topic, get_or_create(topic)
  PROVE  /\ KeysUnique'
         /\ \A t \in DOMAIN m_map : t \in DOMAIN m_map' /\ m_map'[t] = m_map[t]
<1>1. CASE topic \in DOMAIN m_map
  BY <1>1 DEF get_or_create, KeysUnique
<1>2. CASE topic \notin DOMAIN m_map
  <2>1. /\ m_next_key' = m_next_key + 1
        /\ DOMAIN m_map' = DOMAIN m_map \cup {topic}
        /\ m_map'[topic] = m_next_key
        /\ \A t \in DOMAIN m_map : m_map'[t] = m_map[t]
    BY <1>2 DEF get_or_create
  <2> QED
    BY <1>2, <2>1 DEF KeysUnique, TopicMapTypeOK
<1> QED
  BY <1>1, <1>2

(* Every step keeps keys unique and, but for a restart, the keys of the    *)
(* topics that have one.                                                   *)
LEMMA StepKeepsKeys ==
  ASSUME ServerTypeOK, KeysUnique, [OpenNext]_serverVars
  PROVE  /\ KeysUnique'
         /\ restarts' = restarts =>
              \A t \in DOMAIN m_map : t \in DOMAIN m_map' /\ m_map'[t] = m_map[t]
<1>1. CASE UNCHANGED topicMapVars
  BY <1>1 DEF KeysUnique
<1>2. ASSUME NEW topic, get_or_create(topic)
      PROVE  /\ KeysUnique'
             /\ \A t \in DOMAIN m_map : t \in DOMAIN m_map' /\ m_map'[t] = m_map[t]
  BY <1>2, GetOrCreateKeepsKeys DEF ServerTypeOK
<1>3. CASE restarts' = restarts + 1 /\ m_map' = NoTopics /\ m_next_key' = 1
  BY <1>3 DEF NoTopics, KeysUnique, ServerTypeOK
<1> QED
  BY <1>1, <1>2, <1>3, TopicMapSteps

(* Keys are unique in every reachable state: no key ever stands for two    *)
(* topics and none is the 0 of topic_request headers, for any number of    *)
(* topics, requests and restarts.                                          *)
THEOREM KeysAreUnique == ServerSpec => []KeysUnique
<1>1. ServerInit => KeysUnique
  BY DEF ServerInit, TopicMapInit, NoTopics, KeysUnique
<1> QED
  BY <1>1, StepKeepsKeys, ServerStepsAreOpen, TypeCorrect, PTL DEF ServerSpec

(* Within one server process a key, once handed out, stays the key of its  *)
(* topic.                                                                  *)
THEOREM KeysAreStable == ServerSpec => KeysStable
<1>1. ASSUME ServerTypeOK, KeysUnique, [ServerNext]_serverVars
      PROVE  [restarts' = restarts =>
                \A t \in DOMAIN m_map :
                  t \in DOMAIN m_map' /\ m_map'[t] = m_map[t]]_serverVars
  BY <1>1, StepKeepsKeys, ServerStepsAreOpen
<1> QED
  BY <1>1, TypeCorrect, KeysAreUnique, PTL DEF ServerSpec, KeysStable

-----------------------------------------------------------------------------
(* The client registry.                                                    *)

(* A CONNECT event files the new record everywhere at once.                *)
LEMMA ConnectKeepsRegistry ==
  ASSUME ServerTypeOK, RegistryConsistent, NEW p \in Peers, OnConnect(p)
  PROVE  RegistryConsistent'
<1> USE ServerAssumption
<1>1. /\ peer_state[p] = "pending"
      /\ peer_state' = [peer_state EXCEPT ![p] = "connected"]
      /\ m_next_client_id \in Ids
  BY DEF OnConnect, ReportConnect, ServerTypeOK, Ids
<1>2. PICK a \in Addrs \ live :
        /\ m_client_map[m_next_client_id] = NoAddr
        /\ m_next_client_id' = m_next_client_id + 1
        /\ m_client_map' = [m_client_map EXCEPT ![m_next_client_id] = a]
        /\ m_clients' = m_clients \cup {a}
        /\ live' = live \cup {a}
        /\ client' = [client EXCEPT ![a] =
             [m_id |-> m_next_client_id, m_peer |-> p, subscribed_topics |-> {}]]
        /\ peer_data' = [peer_data EXCEPT ![p] = a]
  BY DEF OnConnect, create_client
<1>3. /\ client'[a].m_id = m_next_client_id
      /\ client'[a].m_peer = p
      /\ \A b \in live : b # a /\ client'[b] = client[b]
      /\ peer_data'[p] = a
      /\ \A q \in Peers \ {p} : peer_data'[q] = peer_data[q]
      /\ m_client_map'[m_next_client_id] = a
      /\ \A i \in Ids \ {m_next_client_id} : m_client_map'[i] = m_client_map[i]
  BY <1>1, <1>2 DEF ServerTypeOK
<1>4. \A b \in live : client[b].m_peer # p /\ client[b].m_peer \in Peers
  BY <1>1 DEF RegistryConsistent, ServerTypeOK, ClientRecords, ENetTypeOK
<1>5. \A q \in Peers : peer_state'[q] = "connected" =>
        peer_data'[q] \in live' /\ client'[peer_data'[q]].m_peer = q
  BY <1>1, <1>2, <1>3 DEF RegistryConsistent, ServerTypeOK, ENetTypeOK
<1>6. \A b \in live' :
        /\ client'[b].m_peer \in Peers /\ peer_state'[client'[b].m_peer] = "connected"
        /\ peer_data'[client'[b].m_peer] = b
        /\ client'[b].m_id \in Ids /\ client'[b].m_id < m_next_client_id'
        /\ m_client_map'[client'[b].m_id] = b
  <2>1. TAKE b \in live'
  <2>2. CASE b = a
    BY <1>1, <1>2, <1>3, <2>2 DEF ServerTypeOK, ENetTypeOK, Ids
  <2>3. CASE b \in live
    BY <1>1, <1>2, <1>3, <1>4, <2>3 DEF RegistryConsistent, ServerTypeOK, ENetTypeOK, Ids
  <2> QED
    BY <1>2, <2>1, <2>2, <2>3
<1>7. \A i \in Ids : m_client_map'[i] # NoAddr =>
        m_client_map'[i] \in live' /\ client'[m_client_map'[i]].m_id = i
  BY <1>2, <1>3 DEF RegistryConsistent
<1> QED
  BY <1>2, <1>5, <1>6, <1>7 DEF RegistryConsistent, Ids

(* A DISCONNECT event removes exactly the record of its slot.              *)
LEMMA DisconnectKeepsRegistry ==
  ASSUME ServerTypeOK, RegistryConsistent, NEW p \in Peers, OnDisconnect(p)
  PROVE  RegistryConsistent'
<1> DEFINE a == peer_data[p]
           i == client[a].m_id
<1>1. /\ peer_state[p] = "connected"
      /\ peer_state' = [peer_state EXCEPT ![p] = "free"]
      /\ m_client_map' = [m_client_map EXCEPT ![i] = NoAddr]
      /\ live' = live \ {m_client_map[i]}
      /\ client' = [client EXCEPT ![m_client_map[i]] = NoRecord]
      /\ m_clients' = m_clients \ {a}
      /\ UNCHANGED <<m_next_client_id, peer_data>>
  BY DEF OnDisconnect, ReportDisconnect, ReleaseSlot, destroy_client
<1>2. a \in live /\ i \in Ids /\ m_client_map[i] = a /\ client[a].m_peer = p
  BY <1>1 DEF RegistryConsistent
<1>3. /\ live' = live \ {a}
      /\ \A b \in live' : b \in live /\ client'[b] = client[b]
  BY <1>1, <1>2 DEF ServerTypeOK
<1>4. \A b \in live' : client[b].m_peer # p /\ client[b].m_id # i
  BY <1>2, <1>3 DEF RegistryConsistent
<1>5. \A q \in Peers : peer_state'[q] = "connected" =>
        peer_data'[q] \in live' /\ client'[peer_data'[q]].m_peer = q
  BY <1>1, <1>2, <1>3 DEF RegistryConsistent, ServerTypeOK, ENetTypeOK
<1>6. \A b \in live' :
        /\ client'[b].m_peer \in Peers /\ peer_state'[client'[b].m_peer] = "connected"
        /\ peer_data'[client'[b].m_peer] = b
        /\ client'[b].m_id \in Ids /\ client'[b].m_id < m_next_client_id'
        /\ m_client_map'[client'[b].m_id] = b
  BY <1>1, <1>3, <1>4 DEF RegistryConsistent, ServerTypeOK, ENetTypeOK, ClientRecords
<1>7. \A j \in Ids : m_client_map'[j] # NoAddr =>
        m_client_map'[j] \in live' /\ client'[m_client_map'[j]].m_id = j
  BY <1>1, <1>2, <1>3 DEF RegistryConsistent, ServerTypeOK
<1> QED
  BY <1>1, <1>2, <1>3, <1>5, <1>6, <1>7 DEF RegistryConsistent, Ids

(* Steps that leave the registry alone and open or close no slot, but for  *)
(* the subscriptions of one live record, leave it consistent.              *)
LEMMA OtherStepsKeepRegistry ==
  ASSUME ServerTypeOK, RegistryConsistent,
         UNCHANGED <<m_next_client_id, m_client_map, m_clients, live, peer_data>>,
         \A p \in Peers : peer_state'[p] = "connected" <=> peer_state[p] = "connected",
         \A a \in live : /\ client'[a].m_peer = client[a].m_peer
                        /\ client'[a].m_id = client[a].m_id
  PROVE  RegistryConsistent'
BY DEF RegistryConsistent, Ids

(* The step of every other handler and of the environment.                 *)
LEMMA StepKeepsRegistry ==
  ASSUME ServerTypeOK, RegistryConsistent, [OpenNext]_serverVars
  PROVE  RegistryConsistent'
<1>1. CASE UNCHANGED serverVars
  BY <1>1, OtherStepsKeepRegistry
<1>2. CASE Restart
  BY <1>2, ServerAssumption
     DEF Restart, ServerHostReplaced, NoClients, RegistryConsistent, Ids
<1>3. ASSUME NEW p \in Peers, OnAbandoned(p) PROVE RegistryConsistent'
  BY <1>3, OtherStepsKeepRegistry
     DEF OnAbandoned, AbandonPending, ReleaseSlot, ServerTypeOK, ENetTypeOK
<1>4. ASSUME NEW p \in Peers, OnTopicRequest(p) \/ OnPublish(p) \/ OnIgnored(p)
      PROVE  RegistryConsistent'
  BY <1>4, OtherStepsKeepRegistry DEF OnTopicRequest, OnPublish, OnIgnored, ReportReceive
<1>5. ASSUME NEW p \in Peers, NEW keys, peer_state[p] = "connected",
             SetSubscriptions(p, keys)
      PROVE  RegistryConsistent'
  <2>1. client' = [client EXCEPT ![peer_data[p]].subscribed_topics = keys]
    BY <1>5 DEF SetSubscriptions
  <2>2. \A a \in live : /\ client'[a].m_peer = client[a].m_peer
                       /\ client'[a].m_id = client[a].m_id
    BY <2>1 DEF ServerTypeOK, ClientRecords
  <2> QED
    BY <1>5, <2>2, OtherStepsKeepRegistry DEF SetSubscriptions, ReportReceive
<1>6. ASSUME NEW p \in Peers, OnSubscribe(p) \/ OnUnsubscribe(p)
      PROVE  RegistryConsistent'
  BY <1>5, <1>6 DEF OnSubscribe, OnUnsubscribe, Receiving
<1>7. ASSUME NEW p \in Peers, NEW e, Connect(p, e) \/ ConnectLate(p, e)
      PROVE  RegistryConsistent'
  BY <1>7, OtherStepsKeepRegistry
     DEF Connect, ConnectLate, HostConnect, HostConnectLate, Untouched, ServerTypeOK,
         ENetTypeOK
<1>8. ASSUME NEW e, NEW packet, Send(e, packet) \/ Poll(e) \/ Lose(e) \/ Close(e)
      PROVE  RegistryConsistent'
  BY <1>8, OtherStepsKeepRegistry
     DEF Send, Poll, Lose, Close, HostSend, HostReceive, HostDisconnected, HostDestroy,
         Untouched
<1> QED
  BY <1>1, <1>2, <1>3, <1>4, <1>6, <1>7, <1>8, ConnectKeepsRegistry,
     DisconnectKeepsRegistry
     DEF OpenNext, process, OpenEnvironment

(* No handler of the server ever follows a stale pointer, however often    *)
(* slots, record addresses and ids' owners change: the data pointers, the  *)
(* records, the vector and the id map always agree.                        *)
THEOREM RegistryIsConsistent == ServerSpec => []RegistryConsistent
<1>1. ServerInit => RegistryConsistent
  BY ServerAssumption
     DEF ServerInit, ENetInit, RegistryInit, NoClients, RegistryConsistent
<1> QED
  BY <1>1, StepKeepsRegistry, ServerStepsAreOpen, TypeCorrect, PTL DEF ServerSpec
-----------------------------------------------------------------------------
(* Fanouts.  FanoutWanted is not inductive: what ends up in an inbox was   *)
(* decided by the links, the queues and the records long before.           *)

(* A free slot is empty, an endpoint is at the far end of one slot only,   *)
(* and an endpoint that has not connected yet at none.                     *)
LinksSound ==
  /\ \A p \in Peers : peer_state[p] = "free" => remote[p] = NoEndpoint /\ rx[p] = <<>>
  /\ \A p, q \in Peers : remote[p] = remote[q] /\ remote[p] # NoEndpoint => p = q
  /\ \A p \in Peers : remote[p] # NoEndpoint => endpoint[remote[p]] # "new"

(* A subscribe in the queue of slot p was sent by its far end, if that is  *)
(* still there.  A publish was written by an endpoint that is at the far   *)
(* end of p or, having gone, of no slot, now or later.                     *)
PacketSound(p, packet) ==
  /\ packet.type = "subscribe" /\ remote[p] # NoEndpoint =>
       packet.topic_key \in asked[remote[p]]
  /\ packet.type = "publish" =>
       LET e == author[packet.payload] IN
         /\ e \in Endpoints
         /\ endpoint[e] # "new"
         /\ \A q \in Peers : remote[q] = e => q = p

QueuesSound == \A p \in Peers : \A i \in DOMAIN rx[p] : PacketSound(p, rx[p][i])

(* A record whose slot is linked holds only keys its far end asked for.    *)
RecordsSound ==
  \A a \in live : LET c == client[a] IN
    remote[c.m_peer] # NoEndpoint => c.subscribed_topics \subseteq asked[remote[c.m_peer]]

(* FanoutWanted, and that the payload of every fanout has an author.       *)
InboxSound(e, packet) ==
  packet.type = "fanout" =>
    /\ packet.topic_key \in asked[e]
    /\ author[packet.payload] \in Endpoints \ {e}
InboxesSound == \A e \in Endpoints : \A i \in DOMAIN inq[e] : InboxSound(e, inq[e][i])

FanoutInv == LinksSound /\ QueuesSound /\ RecordsSound /\ InboxesSound

(* The elements of a sequence after Tail and after Append.                 *)
LEMMA InTail ==
  ASSUME NEW S, NEW s \in Seq(S), s # <<>>, NEW i \in DOMAIN Tail(s)
  PROVE  /\ i \in Nat \ {0}
         /\ i + 1 \in DOMAIN s /\ Tail(s)[i] = s[i + 1]
OBVIOUS

LEMMA InAppend ==
  ASSUME NEW S, NEW s \in Seq(S), NEW x \in S, NEW i \in DOMAIN Append(s, x)
  PROVE  \/ i \in DOMAIN s /\ Append(s, x)[i] = s[i]
         \/ i = Len(s) + 1 /\ Append(s, x)[i] = x
OBVIOUS

(* Slots that are released.                                                *)
LEMMA ReleaseKeepsFanout ==
  ASSUME ServerTypeOK, RegistryConsistent, FanoutInv, NEW p \in Peers, ReleaseSlot(p),
         live' \subseteq live, \A a \in live' : client'[a] = client[a],
         UNCHANGED historyVars
  PROVE  FanoutInv'
<1> USE ENetAssumption DEF ServerTypeOK, ENetTypeOK, ReleaseSlot
<1>1. LinksSound'
  BY DEF FanoutInv, LinksSound
<1>2. QueuesSound'
  <2>1. SUFFICES ASSUME NEW q \in Peers, NEW i \in DOMAIN rx'[q]
                 PROVE  PacketSound(q, rx[q][i])'
    BY DEF QueuesSound
  <2>2. q # p /\ rx'[q] = rx[q] /\ remote'[q] = remote[q]
    BY <2>1
  <2>3. PacketSound(q, rx[q][i])
    BY <2>1, <2>2 DEF FanoutInv, QueuesSound
  <2> QED
    BY <2>2, <2>3 DEF PacketSound
<1>3. RecordsSound'
  BY DEF FanoutInv, RecordsSound, RegistryConsistent
<1>4. InboxesSound'
  BY DEF FanoutInv, InboxesSound, InboxSound
<1> QED
  BY <1>1, <1>2, <1>3, <1>4 DEF FanoutInv

(* A RECEIVE event whose answer the addressed endpoints may get.           *)
LEMMA ReceiveKeepsFanout ==
  ASSUME ServerTypeOK, FanoutInv, NEW p \in Peers, NEW Q, NEW packet \in Packets,
         ReportReceive(p, Q, packet),
         \A q \in Q : remote[q] \in Endpoints => InboxSound(remote[q], packet),
         UNCHANGED historyVars
  PROVE  LinksSound' /\ QueuesSound' /\ InboxesSound'
<1> USE ENetAssumption DEF ServerTypeOK, ENetTypeOK, ReportReceive
<1>1. LinksSound'
  BY DEF FanoutInv, LinksSound
<1>2. QueuesSound'
  <2>1. SUFFICES ASSUME NEW q \in Peers, NEW i \in DOMAIN rx'[q]
                 PROVE  PacketSound(q, rx[q][i])'
    BY DEF QueuesSound
  <2>2. PICK j \in DOMAIN rx[q] : rx'[q][i] = rx[q][j]
    BY <2>1, InTail
  <2>3. PacketSound(q, rx[q][j])
    BY <2>2 DEF FanoutInv, QueuesSound
  <2> QED
    BY <2>2, <2>3 DEF PacketSound
<1>3. InboxesSound'
  <2>1. SUFFICES ASSUME NEW e \in Endpoints, NEW i \in DOMAIN inq'[e]
                 PROVE  InboxSound(e, inq[e][i])'
    BY DEF InboxesSound
  <2>2. CASE i \in DOMAIN inq[e] /\ inq'[e][i] = inq[e][i]
    BY <2>2 DEF FanoutInv, InboxesSound, InboxSound
  <2>3. CASE inq'[e][i] = packet /\ \E q \in Q : remote[q] = e
    BY <2>3 DEF InboxSound
  <2>4. CASE \E q \in Q : remote[q] = e
    <3>1. inq'[e] = Append(inq[e], packet)
      BY <2>4
    <3> QED
      BY <2>1, <2>2, <2>3, <2>4, <3>1, InAppend
  <2>5. CASE ~ \E q \in Q : remote[q] = e
    BY <2>1, <2>2, <2>5
  <2> QED
    BY <2>4, <2>5
<1> QED
  BY <1>1, <1>2, <1>3

(* A link that is cut by its client end.                                   *)
LEMMA UnlinkKeepsFanout ==
  ASSUME ServerTypeOK, RegistryConsistent, FanoutInv, NEW e \in Endpoints,
         NEW state \in {"down", "closed"},
         endpoint' = [endpoint EXCEPT ![e] = state],
         inq' = [inq EXCEPT ![e] = <<>>],
         remote' = Unlink(e),
         UNCHANGED <<peer_state, rx, live, client, historyVars>>
  PROVE  FanoutInv'
<1> USE ENetAssumption DEF ServerTypeOK, ENetTypeOK, Unlink
<1>1. LinksSound'
  BY DEF FanoutInv, LinksSound
<1>2. QueuesSound'
  BY DEF FanoutInv, QueuesSound, PacketSound
<1>3. RecordsSound'
  BY DEF FanoutInv, RecordsSound, RegistryConsistent
<1>4. InboxesSound'
  BY DEF FanoutInv, InboxesSound, InboxSound
<1> QED
  BY <1>1, <1>2, <1>3, <1>4 DEF FanoutInv

(* A publish goes to other endpoints than its author, and only to those    *)
(* that asked for the key: the heart of FanoutWanted.                      *)
LEMMA PublishTargetsWanted ==
  ASSUME ServerTypeOK, RegistryConsistent, FanoutInv, NEW p \in Peers,
         Receiving(p, "publish"),
         NEW a \in FanoutTargets(peer_data[p], Head(rx[p]).topic_key),
         remote[client[a].m_peer] \in Endpoints
  PROVE  InboxSound(remote[client[a].m_peer],
                    fanout(Head(rx[p]).topic_key, Head(rx[p]).payload))
<1> DEFINE msg == Head(rx[p])
           q == client[a].m_peer
<1>1. a \in live /\ q \in Peers /\ peer_data[q] = a
  BY DEF FanoutTargets, RegistryConsistent
<1>2. q # p
  BY <1>1 DEF FanoutTargets
<1>3. PacketSound(p, msg)
  BY DEF Receiving, FanoutInv, QueuesSound, ServerTypeOK, ENetTypeOK
<1>4. author[msg.payload] \in Endpoints \ {remote[q]}
  BY <1>1, <1>2, <1>3 DEF PacketSound, Receiving
<1>5. msg.topic_key \in asked[remote[q]]
  BY <1>1, ENetAssumption DEF FanoutTargets, FanoutInv, RecordsSound
<1> QED
  BY <1>4, <1>5 DEF InboxSound, fanout, construct

(* A subscribe adds a key its endpoint asked for; an unsubscribe adds none.*)
LEMMA SubscriptionsKeepRecords ==
  ASSUME ServerTypeOK, RegistryConsistent, FanoutInv, NEW p \in Peers,
         Receiving(p, "subscribe") \/ Receiving(p, "unsubscribe"), NEW keys,
         keys \subseteq client[peer_data[p]].subscribed_topics
                   \cup {k \in {Head(rx[p]).topic_key} : Receiving(p, "subscribe")},
         SetSubscriptions(p, keys)
  PROVE  RecordsSound'
<1>1. peer_data[p] \in live /\ client[peer_data[p]].m_peer = p
  BY DEF RegistryConsistent, Receiving
<1>2. /\ client'[peer_data[p]].m_peer = p
      /\ client'[peer_data[p]].subscribed_topics = keys
      /\ \A a \in live \ {peer_data[p]} : client'[a] = client[a]
  BY <1>1 DEF SetSubscriptions, ServerTypeOK, ClientRecords
<1>3. remote' = remote /\ live' = live /\ asked' = asked
  BY DEF SetSubscriptions, ReportReceive
<1>4. PacketSound(p, Head(rx[p]))
  BY DEF Receiving, FanoutInv, QueuesSound, ServerTypeOK, ENetTypeOK
<1>5. remote[p] # NoEndpoint => keys \subseteq asked[remote[p]]
  BY <1>1, <1>4 DEF FanoutInv, RecordsSound, PacketSound, Receiving
<1> QED
  BY <1>1, <1>2, <1>3, <1>5 DEF RecordsSound, FanoutInv

(* A packet that is sent waits in the queue of its sender's slot.          *)
LEMMA SendKeepsFanout ==
  ASSUME ServerTypeOK, RegistryConsistent, FanoutInv, NEW e \in Endpoints,
         NEW packet \in Packets, Send(e, packet)
  PROVE  FanoutInv'
<1> USE ENetAssumption DEF ServerTypeOK, ENetTypeOK
<1>1. packet \in Packets
  OBVIOUS
<1>2. /\ endpoint[e] # "new"
      /\ rx' = [p \in Peers |-> IF remote[p] = e THEN Append(rx[p], packet) ELSE rx[p]]
      /\ UNCHANGED <<peer_state, remote, endpoint, inq, live, client>>
  BY DEF Send, HostSend, Untouched
<1>3. \A d \in Endpoints : asked[d] \subseteq asked'[d]
  BY DEF Send
<1>4. packet.type = "subscribe" => packet.topic_key \in asked'[e]
  BY DEF Send
<1>5. packet.type = "publish" => packet.payload \in Payloads /\ author'[packet.payload] = e
  BY <1>1, PacketFields DEF Send
<1>6. \A m \in Payloads : author[m] # NoEndpoint => author'[m] = author[m]
  BY <1>1, PacketFields DEF Send
<1>7. LinksSound'
  BY <1>2 DEF FanoutInv, LinksSound
<1>8. QueuesSound'
  <2>1. SUFFICES ASSUME NEW p \in Peers, NEW i \in DOMAIN rx'[p]
                 PROVE  PacketSound(p, rx[p][i])'
    BY DEF QueuesSound
  <2>2. CASE i \in DOMAIN rx[p] /\ rx'[p][i] = rx[p][i]
    <3>1. PacketSound(p, rx[p][i]) /\ rx[p][i] \in Packets
      BY <2>2 DEF FanoutInv, QueuesSound
    <3>2. rx[p][i].type = "publish" => rx[p][i].payload \in Payloads
      BY <3>1, PacketFields
    <3>3. CASE rx[p][i].type = "publish"
      <4>1. author[rx[p][i].payload] # NoEndpoint
        BY <3>1, <3>3 DEF PacketSound
      <4>2. author'[rx[p][i].payload] = author[rx[p][i].payload]
        BY <1>6, <3>2, <3>3, <4>1
      <4> QED
        BY <1>2, <2>2, <3>1, <3>3, <4>2 DEF PacketSound
    <3>4. CASE rx[p][i].type # "publish"
      BY <1>2, <1>3, <2>2, <3>1, <3>4 DEF PacketSound
    <3> QED
      BY <3>3, <3>4
  <2>3. CASE remote[p] = e /\ rx'[p][i] = packet
    BY <1>2, <1>4, <1>5, <2>3 DEF PacketSound, FanoutInv, LinksSound
  <2> QED
    BY <1>1, <1>2, <2>1, <2>2, <2>3, InAppend
<1>9. RecordsSound'
  BY <1>2, <1>3 DEF FanoutInv, RecordsSound, RegistryConsistent
<1>10. InboxesSound'
  <2>1. SUFFICES ASSUME NEW d \in Endpoints, NEW i \in DOMAIN inq[d],
                        inq[d][i].type = "fanout"
                 PROVE  InboxSound(d, inq[d][i])'
    BY <1>2 DEF InboxesSound, InboxSound
  <2>2. InboxSound(d, inq[d][i]) /\ inq[d][i] \in Packets
    BY <2>1 DEF FanoutInv, InboxesSound
  <2>3. inq[d][i].payload \in Payloads
    BY <2>1, <2>2 DEF Packets
  <2> QED
    BY <1>2, <1>3, <1>6, <2>1, <2>2, <2>3 DEF InboxSound
<1> QED
  BY <1>7, <1>8, <1>9, <1>10 DEF FanoutInv

(* A connection takes a free slot, which is empty and has no record.       *)
LEMMA ConnectKeepsFanout ==
  ASSUME ServerTypeOK, RegistryConsistent, FanoutInv, NEW e \in Endpoints, NEW p \in Peers,
         Connect(p, e) \/ ConnectLate(p, e)
  PROVE  FanoutInv'
<1> USE ENetAssumption DEF ServerTypeOK, ENetTypeOK
<1>1. /\ peer_state[p] = "free" /\ peer_state' = [peer_state EXCEPT ![p] = "pending"]
      /\ endpoint[e] = "new" /\ endpoint'[e] # "new"
      /\ \A d \in Endpoints \ {e} : endpoint'[d] = endpoint[d]
      /\ remote' = remote \/ remote' = [remote EXCEPT ![p] = e]
      /\ UNCHANGED <<rx, inq, live, client, historyVars>>
  BY DEF Connect, ConnectLate, HostConnect, HostConnectLate, Untouched
<1>2. rx[p] = <<>> /\ remote[p] = NoEndpoint
  BY <1>1 DEF FanoutInv, LinksSound
<1>3. \A q \in Peers : remote[q] # e
  BY <1>1 DEF FanoutInv, LinksSound
<1>4. LinksSound'
  <2>1. /\ remote'[p] = NoEndpoint \/ remote'[p] = e
        /\ \A q \in Peers \ {p} : remote'[q] = remote[q] /\ peer_state'[q] = peer_state[q]
        /\ peer_state'[p] = "pending"
    BY <1>1, <1>2
  <2>2. \A q \in Peers : peer_state'[q] = "free" => remote'[q] = NoEndpoint /\ rx'[q] = <<>>
    BY <1>1, <2>1 DEF FanoutInv, LinksSound
  <2>3. \A q, r \in Peers :
          remote'[q] = remote'[r] /\ remote'[q] # NoEndpoint => q = r
    <3>1. \A q, r \in Peers \ {p} :
            remote'[q] = remote'[r] /\ remote'[q] # NoEndpoint => q = r
      BY <2>1 DEF FanoutInv, LinksSound
    <3>2. \A r \in Peers \ {p} : remote'[p] # NoEndpoint => remote'[r] # remote'[p]
      BY <1>3, <2>1
    <3> QED
      BY <3>1, <3>2
  <2>4. \A q \in Peers : remote'[q] # NoEndpoint => endpoint'[remote'[q]] # "new"
    <3>1. TAKE q \in Peers
    <3>2. CASE q = p
      BY <1>1, <2>1, <3>2
    <3>3. CASE q # p
      <4>1. remote'[q] = remote[q] /\ remote[q] # e
        BY <1>3, <2>1, <3>3
      <4> QED
        BY <1>1, <3>1, <4>1 DEF FanoutInv, LinksSound
    <3> QED
      BY <3>2, <3>3
  <2> QED
    BY <2>2, <2>3, <2>4 DEF LinksSound
<1>5. QueuesSound'
  <2>1. SUFFICES ASSUME NEW q \in Peers, NEW i \in DOMAIN rx[q]
                 PROVE  PacketSound(q, rx[q][i])'
    BY <1>1 DEF QueuesSound
  <2>2. q # p /\ remote'[q] = remote[q] /\ PacketSound(q, rx[q][i])
    BY <1>1, <1>2, <2>1 DEF FanoutInv, QueuesSound
  <2> QED
    BY <1>1, <2>2 DEF PacketSound
<1>6. RecordsSound'
  <2>1. \A a \in live : client[a].m_peer \in Peers \ {p}
    BY <1>1 DEF RegistryConsistent
  <2>2. \A q \in Peers \ {p} : remote'[q] = remote[q]
    BY <1>1
  <2> QED
    BY <1>1, <2>1, <2>2 DEF FanoutInv, RecordsSound
<1>7. InboxesSound'
  BY <1>1 DEF FanoutInv, InboxesSound, InboxSound
<1> QED
  BY <1>4, <1>5, <1>6, <1>7 DEF FanoutInv

(* Every step keeps the invariant.                                         *)
LEMMA StepKeepsFanout ==
  ASSUME ServerTypeOK, RegistryConsistent, FanoutInv, [OpenNext]_serverVars
  PROVE  FanoutInv'
<1> USE ENetAssumption, ServerAssumption
<1>1. CASE UNCHANGED serverVars
  BY <1>1 DEF FanoutInv, LinksSound, QueuesSound, PacketSound, RecordsSound, InboxesSound,
              InboxSound
<1>2. CASE Restart
  <2>1. LinksSound' /\ QueuesSound' /\ RecordsSound'
    BY <1>2 DEF Restart, ServerHostReplaced, LinksSound, QueuesSound, RecordsSound
  <2>2. InboxesSound'
    BY <1>2 DEF Restart, ServerHostReplaced, FanoutInv, InboxesSound, InboxSound
  <2> QED
    BY <2>1, <2>2 DEF FanoutInv
<1>3. ASSUME NEW p \in Peers, OnConnect(p) PROVE FanoutInv'
  <2>1. /\ peer_state' = [peer_state EXCEPT ![p] = "connected"]
        /\ UNCHANGED <<remote, rx, endpoint, inq, historyVars>>
    BY <1>3 DEF OnConnect, ReportConnect
  <2>2. PICK a \in Addrs \ live :
          /\ live' = live \cup {a}
          /\ client' = [client EXCEPT ![a] =
               [m_id |-> m_next_client_id, m_peer |-> p, subscribed_topics |-> {}]]
    BY <1>3 DEF OnConnect, create_client
  <2>3. client'[a].subscribed_topics = {} /\ \A b \in live : client'[b] = client[b]
    BY <2>2 DEF ServerTypeOK
  <2>4. LinksSound'
    BY <2>1 DEF FanoutInv, LinksSound, ServerTypeOK, ENetTypeOK
  <2>5. QueuesSound' /\ InboxesSound'
    BY <2>1 DEF FanoutInv, QueuesSound, PacketSound, InboxesSound, InboxSound
  <2>6. RecordsSound'
    BY <2>1, <2>2, <2>3 DEF FanoutInv, RecordsSound
  <2> QED
    BY <2>4, <2>5, <2>6 DEF FanoutInv
<1>4. ASSUME NEW p \in Peers, OnDisconnect(p) PROVE FanoutInv'
  <2>1. ReleaseSlot(p) /\ UNCHANGED historyVars
    BY <1>4 DEF OnDisconnect, ReportDisconnect
  <2>2. live' \subseteq live /\ \A a \in live' : client'[a] = client[a]
    BY <1>4 DEF OnDisconnect, destroy_client, ServerTypeOK
  <2> QED
    BY <2>1, <2>2, ReleaseKeepsFanout
<1>5. ASSUME NEW p \in Peers, OnAbandoned(p) PROVE FanoutInv'
  BY <1>5, ReleaseKeepsFanout DEF OnAbandoned, AbandonPending
<1>6. ASSUME NEW p \in Peers, NEW Q, NEW packet \in Packets, ReportReceive(p, Q, packet),
             UNCHANGED <<registryVars, historyVars>>,
             \A q \in Q : remote[q] \in Endpoints => InboxSound(remote[q], packet)
      PROVE  FanoutInv'
  <2>1. LinksSound' /\ QueuesSound' /\ InboxesSound'
    BY <1>6, ReceiveKeepsFanout
  <2>2. RecordsSound'
    BY <1>6 DEF ReportReceive, FanoutInv, RecordsSound
  <2> QED
    BY <2>1, <2>2 DEF FanoutInv
<1>7. ASSUME NEW p \in Peers, OnTopicRequest(p) PROVE FanoutInv'
  <2> DEFINE topic == Head(rx[p]).payload
             answer == topic_response(KeyOf(topic), topic)
  <2>1. topic \in Topics
    BY <1>7, HeadTyped, PacketFields DEF OnTopicRequest, Receiving, ServerTypeOK
  <2>2. answer \in Packets
    BY <1>7, <2>1, TopicMapTyped, PacketsTyped DEF OnTopicRequest, ServerTypeOK
  <2>3. answer.type # "fanout"
    BY DEF topic_response, construct
  <2> QED
    BY <1>6, <1>7, <2>2, <2>3 DEF OnTopicRequest, InboxSound
<1>8. ASSUME NEW p \in Peers, OnPublish(p) PROVE FanoutInv'
  <2>1. fanout(Head(rx[p]).topic_key, Head(rx[p]).payload) \in Packets
    BY <1>8, HeadTyped, PacketFields, PacketsTyped DEF OnPublish, Receiving, ServerTypeOK
  <2> QED
    BY <1>6, <1>8, <2>1, PublishTargetsWanted DEF OnPublish
<1>9. ASSUME NEW p \in Peers, OnIgnored(p) PROVE FanoutInv'
  BY <1>6, <1>9, HeadTyped DEF OnIgnored, Receiving, ServerTypeOK
<1>10. ASSUME NEW p \in Peers, NEW keys, rx[p] # <<>>, SetSubscriptions(p, keys)
       PROVE  LinksSound' /\ QueuesSound' /\ InboxesSound'
  BY <1>10, HeadTyped, ReceiveKeepsFanout DEF SetSubscriptions, ServerTypeOK
<1>11. ASSUME NEW p \in Peers, OnSubscribe(p) \/ OnUnsubscribe(p) PROVE FanoutInv'
  <2>1. CASE OnSubscribe(p)
    BY <1>10, <2>1, SubscriptionsKeepRecords DEF OnSubscribe, Receiving, FanoutInv
  <2>2. CASE OnUnsubscribe(p)
    BY <1>10, <2>2, SubscriptionsKeepRecords DEF OnUnsubscribe, Receiving, FanoutInv
  <2> QED
    BY <1>11, <2>1, <2>2
<1>12. ASSUME NEW e \in Endpoints, Poll(e) PROVE FanoutInv'
  <2>1. /\ inq[e] # <<>> /\ inq' = [inq EXCEPT ![e] = Tail(@)]
        /\ UNCHANGED <<peer_state, remote, rx, endpoint, live, client, historyVars>>
    BY <1>12 DEF Poll, HostReceive, Untouched
  <2>2. LinksSound' /\ QueuesSound' /\ RecordsSound'
    BY <2>1 DEF FanoutInv, LinksSound, QueuesSound, PacketSound, RecordsSound
  <2>3. InboxesSound'
    <3>1. SUFFICES ASSUME NEW d \in Endpoints, NEW i \in DOMAIN inq'[d]
                   PROVE  InboxSound(d, inq[d][i])'
      BY DEF InboxesSound
    <3>2. PICK j \in DOMAIN inq[d] : inq'[d][i] = inq[d][j]
      BY <2>1, <3>1, InTail DEF ServerTypeOK, ENetTypeOK
    <3> QED
      BY <2>1, <3>2 DEF FanoutInv, InboxesSound, InboxSound
  <2> QED
    BY <2>2, <2>3 DEF FanoutInv
<1>13. ASSUME NEW e \in Endpoints, Lose(e) \/ Close(e) PROVE FanoutInv'
  BY <1>13, UnlinkKeepsFanout DEF Lose, Close, HostDisconnected, HostDestroy, Untouched
<1> QED
  BY <1>1, <1>2, <1>3, <1>4, <1>5, <1>7, <1>8, <1>9, <1>11, <1>12, <1>13,
     ConnectKeepsFanout, SendKeepsFanout
     DEF OpenNext, process, OpenEnvironment

LEMMA InitFanout == ServerInit => FanoutInv
BY DEF ServerInit, ENetInit, RegistryInit, FanoutInv, LinksSound, QueuesSound,
       RecordsSound, InboxesSound

(* A fanout only ever waits for an endpoint that asked for its key and did *)
(* not publish it, although slots, records and addresses are reused, links *)
(* are lost at any time and the server restarts.                           *)
THEOREM FanoutsAreWanted == ServerSpec => []FanoutWanted
<1>1. ServerInit => FanoutInv
  BY InitFanout
<1>2. FanoutInv => FanoutWanted
  BY DEF FanoutInv, InboxesSound, InboxSound, FanoutWanted
<1> QED
  BY <1>1, <1>2, StepKeepsFanout, ServerStepsAreOpen, TypeCorrect, RegistryIsConsistent, PTL
     DEF ServerSpec
-----------------------------------------------------------------------------
(* At most once.                                                           *)

IsPublish(packet, m) == packet.type = "publish" /\ packet.payload = m
IsFanout(packet, m) == packet.type = "fanout" /\ packet.payload = m

(* A publish waits in one place only, and no longer once it was forwarded; *)
(* an endpoint has at most one fanout of it.                               *)
PublishOnce(m) ==
  \A p, q \in Peers : \A i \in DOMAIN rx[p], j \in DOMAIN rx[q] :
    IsPublish(rx[p][i], m) /\ IsPublish(rx[q][j], m) => p = q /\ i = j
NotBoth(m) ==
  \A p \in Peers, e \in Endpoints : \A i \in DOMAIN rx[p], j \in DOMAIN inq[e] :
    ~(IsPublish(rx[p][i], m) /\ IsFanout(inq[e][j], m))
FanoutOnce(m) ==
  \A e \in Endpoints : \A i, j \in DOMAIN inq[e] :
    IsFanout(inq[e][i], m) /\ IsFanout(inq[e][j], m) => i = j
AtMostOnce == \A m \in Payloads : PublishOnce(m) /\ NotBoth(m) /\ FanoutOnce(m)

(* Packets that are dropped or handed over are not multiplied.             *)
LEMMA ShrinkingKeepsOnce ==
  ASSUME ServerTypeOK, AtMostOnce,
         \A p \in Peers :
           rx'[p] = rx[p] \/ rx'[p] = <<>> \/ (rx[p] # <<>> /\ rx'[p] = Tail(rx[p])),
         \A e \in Endpoints :
           inq'[e] = inq[e] \/ inq'[e] = <<>> \/ (inq[e] # <<>> /\ inq'[e] = Tail(inq[e]))
  PROVE  AtMostOnce'
<1> SUFFICES ASSUME NEW m \in Payloads
             PROVE  PublishOnce(m)' /\ NotBoth(m)' /\ FanoutOnce(m)'
  BY DEF AtMostOnce
<1> USE DEF IsPublish, IsFanout
<1>1. PublishOnce(m) /\ NotBoth(m) /\ FanoutOnce(m)
  BY DEF AtMostOnce
<1>2. \A p \in Peers : \E n \in Nat : \A i \in DOMAIN rx'[p] :
        i \in Nat /\ i + n \in DOMAIN rx[p] /\ rx'[p][i] = rx[p][i + n]
  <2>1. TAKE p \in Peers
  <2>2. rx[p] \in Seq(Packets)
    BY DEF ServerTypeOK, ENetTypeOK
  <2>3. CASE rx'[p] = rx[p]
    <3>1. \A i \in DOMAIN rx'[p] :
            i \in Nat /\ i + 0 \in DOMAIN rx[p] /\ rx'[p][i] = rx[p][i + 0]
      BY <2>2, <2>3
    <3> QED
      BY <3>1
  <2>4. CASE rx'[p] = <<>>
    BY <2>4
  <2>5. CASE rx[p] # <<>> /\ rx'[p] = Tail(rx[p])
    <3>1. \A i \in DOMAIN rx'[p] :
            i \in Nat /\ i + 1 \in DOMAIN rx[p] /\ rx'[p][i] = rx[p][i + 1]
      BY <2>2, <2>5, InTail
    <3> QED
      BY <3>1
  <2> QED
    BY <2>3, <2>4, <2>5
<1>3. \A e \in Endpoints : \E n \in Nat : \A i \in DOMAIN inq'[e] :
        i \in Nat /\ i + n \in DOMAIN inq[e] /\ inq'[e][i] = inq[e][i + n]
  <2>1. TAKE e \in Endpoints
  <2>2. inq[e] \in Seq(Packets)
    BY DEF ServerTypeOK, ENetTypeOK
  <2>3. CASE inq'[e] = inq[e]
    <3>1. \A i \in DOMAIN inq'[e] :
            i \in Nat /\ i + 0 \in DOMAIN inq[e] /\ inq'[e][i] = inq[e][i + 0]
      BY <2>2, <2>3
    <3> QED
      BY <3>1
  <2>4. CASE inq'[e] = <<>>
    BY <2>4
  <2>5. CASE inq[e] # <<>> /\ inq'[e] = Tail(inq[e])
    <3>1. \A i \in DOMAIN inq'[e] :
            i \in Nat /\ i + 1 \in DOMAIN inq[e] /\ inq'[e][i] = inq[e][i + 1]
      BY <2>2, <2>5, InTail
    <3> QED
      BY <3>1
  <2> QED
    BY <2>3, <2>4, <2>5
<1>4. PublishOnce(m)'
  <2>1. SUFFICES ASSUME NEW p \in Peers, NEW q \in Peers,
                        NEW i \in DOMAIN rx'[p], NEW j \in DOMAIN rx'[q],
                        IsPublish(rx'[p][i], m), IsPublish(rx'[q][j], m)
                 PROVE  p = q /\ i = j
    BY DEF PublishOnce
  <2>2. PICK n \in Nat : \A k \in DOMAIN rx'[p] :
          k \in Nat /\ k + n \in DOMAIN rx[p] /\ rx'[p][k] = rx[p][k + n]
    BY <1>2
  <2>3. p = q
    BY <1>1, <1>2, <2>1 DEF PublishOnce
  <2> QED
    BY <1>1, <2>1, <2>2, <2>3 DEF PublishOnce
<1>5. NotBoth(m)'
  BY <1>1, <1>2, <1>3 DEF NotBoth
<1>6. FanoutOnce(m)'
  <2>1. SUFFICES ASSUME NEW e \in Endpoints, NEW i \in DOMAIN inq'[e], NEW j \in DOMAIN inq'[e],
                        IsFanout(inq'[e][i], m), IsFanout(inq'[e][j], m)
                 PROVE  i = j
    BY DEF FanoutOnce
  <2>2. PICK n \in Nat : \A k \in DOMAIN inq'[e] :
          k \in Nat /\ k + n \in DOMAIN inq[e] /\ inq'[e][k] = inq[e][k + n]
    BY <1>3
  <2> QED
    BY <1>1, <2>1, <2>2 DEF FanoutOnce
<1> QED
  BY <1>4, <1>5, <1>6

(* A handler takes a packet from the queue of its slot and answers it: a   *)
(* fanout takes the place of its publish.                                  *)
LEMMA ReceiveKeepsOnce ==
  ASSUME ServerTypeOK, AtMostOnce, NEW p \in Peers, NEW Q,
         NEW packet \in Packets, ReportReceive(p, Q, packet),
         packet.type = "fanout" => IsPublish(Head(rx[p]), packet.payload)
  PROVE  AtMostOnce'
<1> SUFFICES ASSUME NEW m \in Payloads
             PROVE  PublishOnce(m)' /\ NotBoth(m)' /\ FanoutOnce(m)'
  BY DEF AtMostOnce
<1> USE DEF ServerTypeOK, ENetTypeOK, IsPublish, IsFanout
<1>1. PublishOnce(m) /\ NotBoth(m) /\ FanoutOnce(m)
  BY DEF AtMostOnce
<1>2. /\ rx[p] # <<>> /\ rx'[p] = Tail(rx[p])
      /\ \A q \in Peers \ {p} : rx'[q] = rx[q]
      /\ \A e \in Endpoints : inq'[e] = inq[e] \/ inq'[e] = Append(inq[e], packet)
  BY DEF ReportReceive
<1>3. \A q \in Peers : \A i \in DOMAIN rx'[q] :
        \/ q # p /\ i \in DOMAIN rx[q] /\ rx'[q][i] = rx[q][i]
        \/ q = p /\ i \in Nat \ {0} /\ i + 1 \in DOMAIN rx[q] /\ rx'[q][i] = rx[q][i + 1]
  <2>1. TAKE q \in Peers
  <2>2. rx[q] \in Seq(Packets)
    OBVIOUS
  <2>3. CASE q = p
    BY <1>2, <2>2, <2>3, InTail
  <2>4. CASE q # p
    BY <1>2, <2>4
  <2> QED
    BY <2>3, <2>4
<1>4. \A e \in Endpoints : \A i \in DOMAIN inq'[e] :
        \/ i \in DOMAIN inq[e] /\ inq'[e][i] = inq[e][i]
        \/ i = Len(inq[e]) + 1 /\ inq'[e][i] = packet
  <2>1. TAKE e \in Endpoints
  <2>2. inq[e] \in Seq(Packets)
    OBVIOUS
  <2>3. CASE inq'[e] = Append(inq[e], packet)
    BY <2>2, <2>3, InAppend
  <2> QED
    BY <1>2, <2>3
<1>5. IsFanout(packet, m) => 1 \in DOMAIN rx[p] /\ IsPublish(rx[p][1], m)
  BY <1>2
<1>6. PublishOnce(m)'
  BY <1>1, <1>3 DEF PublishOnce
<1>7. NotBoth(m)'
  <2>1. SUFFICES ASSUME NEW q \in Peers, NEW e \in Endpoints, NEW i \in DOMAIN rx'[q],
                        NEW j \in DOMAIN inq'[e],
                        IsPublish(rx'[q][i], m), IsFanout(inq'[e][j], m)
                 PROVE  FALSE
    BY DEF NotBoth
  <2>2. PICK k \in DOMAIN rx[q] : rx'[q][i] = rx[q][k] /\ (q = p => k # 1)
    <3>1. CASE q # p
      BY <1>3, <3>1
    <3>2. CASE q = p
      <4>1. i \in Nat \ {0} /\ i + 1 \in DOMAIN rx[q] /\ rx'[q][i] = rx[q][i + 1]
        BY <1>3, <3>2
      <4>2. i + 1 # 1
        BY <4>1
      <4> QED
        BY <4>1, <4>2
    <3> QED
      BY <3>1, <3>2
  <2>3. CASE j \in DOMAIN inq[e] /\ inq'[e][j] = inq[e][j]
    BY <1>1, <2>1, <2>2, <2>3 DEF NotBoth
  <2>4. CASE inq'[e][j] = packet
    BY <1>1, <1>5, <2>1, <2>2, <2>4 DEF PublishOnce
  <2> QED
    BY <1>4, <2>3, <2>4
<1>8. FanoutOnce(m)'
  <2>1. SUFFICES ASSUME NEW e \in Endpoints, NEW i \in DOMAIN inq'[e], NEW j \in DOMAIN inq'[e],
                        IsFanout(inq'[e][i], m), IsFanout(inq'[e][j], m)
                 PROVE  i = j
    BY DEF FanoutOnce
  <2>2. CASE inq'[e][i] = packet \/ inq'[e][j] = packet
    <3>1. \A k \in DOMAIN inq[e] : ~IsFanout(inq[e][k], m)
      BY <1>1, <1>5, <2>1, <2>2 DEF NotBoth
    <3> QED
      BY <1>4, <2>1, <3>1
  <2>3. CASE inq'[e][i] # packet /\ inq'[e][j] # packet
    BY <1>1, <1>4, <2>1, <2>3 DEF FanoutOnce
  <2> QED
    BY <2>2, <2>3
<1> QED
  BY <1>6, <1>7, <1>8

(* A publish that is sent has no author yet, so it is nowhere.             *)
LEMMA SendKeepsOnce ==
  ASSUME ServerTypeOK, FanoutInv, AtMostOnce, NEW e \in Endpoints,
         NEW packet \in Packets, Send(e, packet)
  PROVE  AtMostOnce'
<1> SUFFICES ASSUME NEW m \in Payloads
             PROVE  PublishOnce(m)' /\ NotBoth(m)' /\ FanoutOnce(m)'
  BY DEF AtMostOnce
<1> USE ENetAssumption DEF ServerTypeOK, ENetTypeOK, IsPublish, IsFanout
<1>1. PublishOnce(m) /\ NotBoth(m) /\ FanoutOnce(m)
  BY DEF AtMostOnce
<1>2. /\ rx' = [p \in Peers |-> IF remote[p] = e THEN Append(rx[p], packet) ELSE rx[p]]
      /\ inq' = inq
  BY DEF Send, HostSend
<1>3. \A p \in Peers : \A i \in DOMAIN rx'[p] :
        \/ i \in DOMAIN rx[p] /\ rx'[p][i] = rx[p][i]
        \/ i = Len(rx[p]) + 1 /\ rx'[p][i] = packet /\ remote[p] = e
  BY <1>2
<1>4. ASSUME IsPublish(packet, m)
      PROVE  /\ \A p \in Peers : \A i \in DOMAIN rx[p] : ~IsPublish(rx[p][i], m)
             /\ \A d \in Endpoints : \A i \in DOMAIN inq[d] : ~IsFanout(inq[d][i], m)
  <2>1. author[m] = NoEndpoint
    BY <1>4 DEF Send
  <2> QED
    BY <2>1 DEF FanoutInv, QueuesSound, PacketSound, InboxesSound, InboxSound
<1>5. \A p, q \in Peers : remote[p] = e /\ remote[q] = e => p = q
  BY DEF FanoutInv, LinksSound
<1>6. PublishOnce(m)'
  <2>1. SUFFICES ASSUME NEW p \in Peers, NEW q \in Peers,
                        NEW i \in DOMAIN rx'[p], NEW j \in DOMAIN rx'[q],
                        IsPublish(rx'[p][i], m), IsPublish(rx'[q][j], m)
                 PROVE  p = q /\ i = j
    BY DEF PublishOnce
  <2> HIDE DEF ServerTypeOK, ENetTypeOK, IsPublish, IsFanout
  <2>2. CASE IsPublish(packet, m)
    <3>1. \A r \in Peers : \A k \in DOMAIN rx[r] : ~IsPublish(rx[r][k], m)
      BY <1>4, <2>2
    <3>2. i = Len(rx[p]) + 1 /\ remote[p] = e
      BY <1>3, <2>1, <3>1
    <3>3. j = Len(rx[q]) + 1 /\ remote[q] = e
      BY <1>3, <2>1, <3>1
    <3>4. p = q
      BY <1>5, <3>2, <3>3
    <3> QED
      BY <3>2, <3>3, <3>4
  <2>3. CASE ~IsPublish(packet, m)
    <3>1. /\ i \in DOMAIN rx[p] /\ rx'[p][i] = rx[p][i]
          /\ j \in DOMAIN rx[q] /\ rx'[q][j] = rx[q][j]
      BY <1>3, <2>1, <2>3
    <3> QED
      BY <1>1, <2>1, <3>1 DEF PublishOnce
  <2> QED
    BY <2>2, <2>3
<1>7. NotBoth(m)'
  BY <1>1, <1>2, <1>3, <1>4 DEF NotBoth
<1>8. FanoutOnce(m)'
  BY <1>1, <1>2 DEF FanoutOnce
<1> QED
  BY <1>6, <1>7, <1>8

LEMMA StepKeepsOnce ==
  ASSUME ServerTypeOK, RegistryConsistent, FanoutInv, AtMostOnce, [OpenNext]_serverVars
  PROVE  AtMostOnce'
<1>1. CASE rx' = rx /\ inq' = inq
  BY <1>1, ShrinkingKeepsOnce
<1>2. CASE Restart
  BY <1>2, ShrinkingKeepsOnce DEF Restart, ServerHostReplaced
<1>3. ASSUME NEW p \in Peers, OnDisconnect(p) \/ OnAbandoned(p) PROVE AtMostOnce'
  <2>1. ReleaseSlot(p)
    BY <1>3 DEF OnDisconnect, ReportDisconnect, OnAbandoned, AbandonPending
  <2>2. inq' = inq /\ \A q \in Peers : rx'[q] = rx[q] \/ rx'[q] = <<>>
    BY <2>1 DEF ReleaseSlot, ServerTypeOK, ENetTypeOK
  <2> QED
    BY <2>2, ShrinkingKeepsOnce
<1>4. ASSUME NEW p \in Peers, OnTopicRequest(p) PROVE AtMostOnce'
  <2> DEFINE topic == Head(rx[p]).payload
             answer == topic_response(KeyOf(topic), topic)
  <2>1. topic \in Topics
    BY <1>4, HeadTyped, PacketFields DEF OnTopicRequest, Receiving, ServerTypeOK
  <2>2. answer \in Packets
    BY <1>4, <2>1, TopicMapTyped, PacketsTyped DEF OnTopicRequest, ServerTypeOK
  <2>3. answer.type # "fanout"
    BY DEF topic_response, construct
  <2>4. ReportReceive(p, {client[peer_data[p]].m_peer}, answer)
    BY <1>4 DEF OnTopicRequest
  <2> HIDE DEF answer
  <2> QED
    BY <2>2, <2>3, <2>4, ReceiveKeepsOnce
<1>5. ASSUME NEW p \in Peers, OnPublish(p) PROVE AtMostOnce'
  <2> DEFINE msg == Head(rx[p])
             copy == fanout(msg.topic_key, msg.payload)
  <2>1. copy \in Packets
    BY <1>5, HeadTyped, PacketFields, PacketsTyped DEF OnPublish, Receiving, ServerTypeOK
  <2>2. IsPublish(msg, copy.payload)
    BY <1>5 DEF OnPublish, Receiving, IsPublish, fanout, construct
  <2>3. PICK Q : ReportReceive(p, Q, copy)
    BY <1>5 DEF OnPublish
  <2> HIDE DEF copy
  <2> QED
    BY <2>1, <2>2, <2>3, ReceiveKeepsOnce
<1>6. ASSUME NEW p \in Peers, OnSubscribe(p) \/ OnUnsubscribe(p) \/ OnIgnored(p)
      PROVE  AtMostOnce'
  <2>1. ReportReceive(p, {}, Head(rx[p])) /\ rx[p] # <<>>
    BY <1>6 DEF OnSubscribe, OnUnsubscribe, OnIgnored, SetSubscriptions, Receiving
  <2>2. /\ \A e \in Endpoints : inq'[e] = inq[e]
        /\ \A q \in Peers : rx'[q] = rx[q] \/ (rx[q] # <<>> /\ rx'[q] = Tail(rx[q]))
    BY <2>1 DEF ReportReceive, ServerTypeOK, ENetTypeOK
  <2> QED
    BY <2>2, ShrinkingKeepsOnce
<1>7. ASSUME NEW e \in Endpoints, Poll(e) \/ Lose(e) \/ Close(e) PROVE AtMostOnce'
  <2>1. rx' = rx
    BY <1>7 DEF Poll, Lose, Close, HostReceive, HostDisconnected, HostDestroy
  <2>2. CASE Poll(e)
    BY <2>1, <2>2, ShrinkingKeepsOnce DEF Poll, HostReceive, ServerTypeOK, ENetTypeOK
  <2>3. CASE Lose(e) \/ Close(e)
    BY <2>1, <2>3, ShrinkingKeepsOnce
       DEF Lose, Close, HostDisconnected, HostDestroy, ServerTypeOK, ENetTypeOK
  <2> QED
    BY <1>7, <2>2, <2>3
<1> QED
  BY <1>1, <1>2, <1>3, <1>4, <1>5, <1>6, <1>7, SendKeepsOnce
     DEF OpenNext, process, OpenEnvironment, OnConnect, ReportConnect, Connect, ConnectLate,
         HostConnect, HostConnectLate

(* A publish is forwarded at most once to each endpoint: it never waits in *)
(* two places, nor beside a fanout of it, and no inbox holds two fanouts   *)
(* of one publish.                                                         *)
THEOREM ForwardedAtMostOnce == ServerSpec => []AtMostOnce
<1>1. ServerInit => AtMostOnce
  BY DEF ServerInit, ENetInit, AtMostOnce, PublishOnce, NotBoth, FanoutOnce
<1>2. ServerInit => FanoutInv
  BY InitFanout
<1> QED
  BY <1>1, <1>2, StepKeepsOnce, StepKeepsFanout, ServerStepsAreOpen, TypeCorrect,
     RegistryIsConsistent, PTL DEF ServerSpec
=============================================================================
