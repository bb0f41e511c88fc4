----------------------------- MODULE BusProofs ------------------------------
(***************************************************************************)
(* Theorems about module Bus, for every number of clients, topics, calls,  *)
(* slots, hosts and restarts, with links that fail and waits that time out.*)
(***************************************************************************)
EXTENDS Bus, ServerProofs

USE DEF enetVars, topicMapVars, registryVars, historyVars, serverVars,
        clientVars, ghostVars, busVars

-----------------------------------------------------------------------------
(* The inductive invariant.                                                *)

InCall(c) == pc[c] \in {"connect", "request", "await", "use"}

(* What the position of an application thread says of its variables.       *)
CallSound(c) ==
  /\ pc[c] = "none" <=> main[c] = NoEndpoint
  /\ pc[c] \in {"request", "await"} <=> temporary[c] # NoEndpoint
  /\ pc[c] = "none" =>
       /\ DOMAIN m_topic_map[c] = {} /\ DOMAIN m_inverse_topic_map[c] = {}
       /\ delivered[c] = <<>>
  /\ InCall(c) =>
       /\ op[c].topic \in Topics
       /\ op[c].kind = "subscribe" => op[c].topic \in wanted[c]
       /\ op[c].kind = "publish" =>
            op[c].payload \in Payloads /\ intended[op[c].payload] = op[c].topic

(* No two connections share a host, and a host that was never used has     *)
(* received nothing.                                                       *)
HostsSound ==
  /\ \A e \in Endpoints : endpoint[e] = "new" => inq[e] = <<>>
  /\ \A c \in Clients :
       /\ main[c] # NoEndpoint => endpoint[main[c]] # "new"
       /\ temporary[c] # NoEndpoint => endpoint[temporary[c]] # "new"
  /\ \A c, d \in Clients :
       /\ main[c] # NoEndpoint => main[c] # temporary[d] /\ (main[c] = main[d] => c = d)
       /\ temporary[c] # NoEndpoint /\ temporary[c] = temporary[d] => c = d

(* The server that runs is the one client c connected to: there was no     *)
(* other, or the link, which no restart survives, is still up.             *)
Fresh(c) == restarts = 0 \/ (main[c] # NoEndpoint /\ Linked(main[c]))

KnownAs(t, k) == t \in DOMAIN m_map /\ m_map[t] = k

(* While that is so the caches are right.                                  *)
CacheSound(c) ==
  Fresh(c) =>
    /\ \A t \in DOMAIN m_topic_map[c] :
         /\ KnownAs(t, m_topic_map[c][t])
         /\ m_topic_map[c][t] \in DOMAIN m_inverse_topic_map[c]
         /\ m_inverse_topic_map[c][m_topic_map[c][t]] = t
    /\ \A k \in DOMAIN m_inverse_topic_map[c] :
         /\ m_inverse_topic_map[c][k] \in DOMAIN m_topic_map[c]
         /\ m_topic_map[c][m_inverse_topic_map[c][k]] = k
    /\ pc[c] = "use" =>
         op[c].topic \in DOMAIN m_topic_map[c] /\ m_topic_map[c][op[c].topic] = op[c].key

(* A temporary connection asks for, and is told, the key of the topic of   *)
(* the call in progress.                                                   *)
QuestionSound(c) ==
  \A p \in Peers : temporary[c] # NoEndpoint /\ remote[p] = temporary[c] =>
    \A i \in DOMAIN rx[p] : rx[p][i].type = "topic_request" => rx[p][i].payload = op[c].topic
AnswerSound(c) ==
  temporary[c] # NoEndpoint => \A i \in DOMAIN inq[temporary[c]] :
    LET msg == inq[temporary[c]][i] IN
      msg.type = "topic_response" =>
        /\ msg.payload = op[c].topic
        /\ Fresh(c) => KnownAs(msg.payload, msg.topic_key)

(* Client c subscribed to the topic with this key and has it in its cache. *)
Wants(c, k) == \E t \in wanted[c] : KnownAs(t, k) /\ t \in DOMAIN m_topic_map[c]

KeySound(p, msg) ==
  /\ msg.type = "publish" => KnownAs(intended[msg.payload], msg.topic_key)
  /\ msg.type = "subscribe" =>
       /\ \E t \in DOMAIN m_map : m_map[t] = msg.topic_key
       /\ \A c \in Clients :
            main[c] # NoEndpoint /\ remote[p] = main[c] => Wants(c, msg.topic_key)
KeysSound == \A p \in Peers : \A i \in DOMAIN rx[p] : KeySound(p, rx[p][i])

SubscriptionsSound ==
  \A a \in live, c \in Clients :
    main[c] # NoEndpoint /\ remote[client[a].m_peer] = main[c] =>
      \A k \in client[a].subscribed_topics : Wants(c, k)

(* A fanout that waits for client c carries a payload of a topic it wants, *)
(* under the key it knows that topic by.                                   *)
FanoutSound(c, msg) ==
  msg.type = "fanout" =>
    /\ intended[msg.payload] \in wanted[c]
    /\ restarts = 0 =>
         /\ KnownAs(intended[msg.payload], msg.topic_key)
         /\ intended[msg.payload] \in DOMAIN m_topic_map[c]
FanoutsSound ==
  \A c \in Clients : main[c] # NoEndpoint =>
    \A i \in DOMAIN inq[main[c]] : FanoutSound(c, inq[main[c]][i])

(* What was delivered is not on its way any more.                          *)
DeliveredOnce ==
  \A c \in Clients : \A i \in DOMAIN delivered[c] :
    LET m == delivered[c][i].payload IN
      /\ \A p \in Peers : \A j \in DOMAIN rx[p] : ~IsPublish(rx[p][j], m)
      /\ main[c] # NoEndpoint => \A j \in DOMAIN inq[main[c]] : ~IsFanout(inq[main[c]][j], m)

ClientInv ==
  /\ \A c \in Clients : CallSound(c)
  /\ HostsSound
ResolveInv ==
  \A c \in Clients : CacheSound(c) /\ QuestionSound(c) /\ AnswerSound(c)
DeliveryInv ==
  /\ KeysSound /\ SubscriptionsSound /\ FanoutsSound
  /\ DeliverySound /\ DeliveredOnce /\ LabelsTrueSinceStart

-----------------------------------------------------------------------------
(* Every step of the bus is a step of the server in some environment.      *)

(* What the position of a thread says of the hosts and the call it uses.   *)
LEMMA InUse ==
  ASSUME BusTypeOK, ClientInv, NEW c \in Clients
  PROVE  /\ pc[c] # "none" => main[c] \in Endpoints
         /\ pc[c] \in {"request", "await"} => temporary[c] \in Endpoints
         /\ InCall(c) => op[c].topic \in Topics
         /\ InCall(c) /\ op[c].kind = "publish" => op[c].payload \in Payloads
         /\ op[c].key \in Nat /\ op[c].kind \in Kinds
BY DEF BusTypeOK, ClientInv, CallSound

(* The send at the end of a call.                                          *)
LEMMA PerformIsOpen ==
  ASSUME NEW c, main[c] \in Endpoints, NEW kind, NEW key \in Nat, NEW payload,
         kind = "publish" => payload \in Payloads, Perform(c, kind, key, payload)
  PROVE  [OpenNext]_serverVars
BY PacketsTyped DEF Perform, OpenNext, OpenEnvironment

LEMMA ConnectIsOpen ==
  /\ \A e \in Endpoints : Connected(e) => OpenNext
  /\ ConnectFails => [OpenNext]_serverVars
BY DEF Connected, ConnectFails, OpenNext, OpenEnvironment

LEMMA BusStepsAreOpen ==
  ASSUME BusTypeOK, ClientInv, [BusNext]_busVars
  PROVE  [OpenNext]_serverVars
<1>1. CASE UNCHANGED busVars
  BY <1>1
<1>2. CASE ServerStep
  BY <1>2 DEF ServerStep, OpenNext
<1>3. ASSUME NEW c \in Clients, Application(c) PROVE [OpenNext]_serverVars
  <2>1. CASE Construct(c) \/ ConstructFails(c)
    BY <2>1, ConnectIsOpen DEF Construct, ConstructFails
  <2>2. CASE Destroy(c)
    BY <2>2, InUse DEF Destroy, Goto, OpenNext, OpenEnvironment
  <2>3. ASSUME NEW kind, NEW t \in Topics, NEW payload,
               kind = "publish" => payload \in Payloads, Call(c, kind, t, payload)
        PROVE  [OpenNext]_serverVars
    <3>1. CASE UNCHANGED serverVars
      BY <3>1
    <3>2. CASE t \in DOMAIN m_topic_map[c] /\ Perform(c, kind, m_topic_map[c][t], payload)
      <4>1. m_topic_map[c][t] \in Nat /\ main[c] \in Endpoints
        BY <2>3, <3>2, InUse DEF BusTypeOK, Call
      <4> QED
        BY <2>3, <3>2, <4>1, PerformIsOpen
    <3> QED
      BY <2>3, <3>1, <3>2 DEF Call
  <2> QED
    BY <1>3, <2>1, <2>2, <2>3
       DEF Application, CallGetTopicKey, CallSubscribe, CallPublish, CallPublishKey
<1>4. ASSUME NEW c \in Clients, LibraryStep(c) PROVE [OpenNext]_serverVars
  <2>1. CASE TmpConnect(c) \/ TmpConnectFails(c)
    BY <2>1, ConnectIsOpen DEF TmpConnect, TmpConnectFails
  <2>2. CASE TmpRequest(c)
    <3>1. temporary[c] \in Endpoints /\ op[c].topic \in Topics
      BY <2>2, InUse DEF TmpRequest, Goto, InCall
    <3> QED
      BY <2>2, <3>1, PacketsTyped DEF TmpRequest, OpenNext, OpenEnvironment
  <2>3. CASE TmpReceive(c) \/ TmpReceiveFails(c)
    BY <2>3, InUse DEF TmpReceive, TmpReceiveFails, Throw, Goto, OpenNext, OpenEnvironment
  <2>4. CASE Use(c)
    <3>1. /\ main[c] \in Endpoints /\ op[c].key \in Nat
          /\ op[c].kind = "publish" => op[c].payload \in Payloads
      BY <2>4, InUse DEF Use, Goto, InCall
    <3> QED
      BY <2>4, <3>1, PerformIsOpen DEF Use
  <2> QED
    BY <1>4, <2>1, <2>2, <2>3, <2>4 DEF LibraryStep
<1>5. ASSUME NEW c \in Clients, Receive(c) PROVE [OpenNext]_serverVars
  BY <1>5, InUse DEF Receive, PollMessage, PollDisconnected, OpenNext, OpenEnvironment
<1> QED
  BY <1>1, <1>2, <1>3, <1>4, <1>5 DEF BusNext

-----------------------------------------------------------------------------
(* Types.                                                                  *)

(* A call of any kind, up to its history variables.                        *)
LEMMA CallTyped ==
  ASSUME BusTypeOK, ServerTypeOK', NEW c \in Clients, NEW kind \in Kinds, NEW t \in Topics,
         NEW payload \in Payloads \cup {Empty}, Call(c, kind, t, payload),
         intended' \in [Payloads -> Topics \cup {NoTopic}],
         wanted' \in [Clients -> SUBSET Topics]
  PROVE  BusTypeOK'
<1>1. pc' \in [Clients -> PcStates]
  BY DEF Call, Goto, BusTypeOK, PcStates
<1>2. op' \in [Clients -> [kind: Kinds, topic: Topics \cup {NoTopic},
                          payload: Payloads \cup {Empty}, key: Nat]]
  <2> DEFINE new == [kind |-> kind, topic |-> t, payload |-> payload, key |-> 0]
  <2>1. op' = op \/ op' = [op EXCEPT ![c] = new]
    BY DEF Call
  <2>2. new \in [kind: Kinds, topic: Topics \cup {NoTopic}, payload: Payloads \cup {Empty},
                key: Nat]
    OBVIOUS
  <2> HIDE DEF new
  <2> QED
    BY <2>1, <2>2 DEF BusTypeOK
<1>3. ops' \in 0 .. MaxOps
  BY BusAssumption DEF Call, BusTypeOK
<1> QED
  BY <1>1, <1>2, <1>3 DEF Call, BusTypeOK

(* The response that arrives on a temporary connection.                    *)
LEMMA ResponseTyped ==
  ASSUME BusTypeOK, ClientInv, NEW c \in Clients, TmpReceive(c)
  PROVE  /\ temporary[c] \in Endpoints
         /\ 1 \in DOMAIN inq[temporary[c]] /\ Response(c) = inq[temporary[c]][1]
         /\ Response(c).payload \in Topics /\ Response(c).topic_key \in Nat
<1>1. temporary[c] \in Endpoints
  BY InUse DEF TmpReceive, Goto
<1>2. inq[temporary[c]] \in Seq(Packets) /\ inq[temporary[c]] # <<>>
  BY <1>1 DEF BusTypeOK, ServerTypeOK, ENetTypeOK, TmpReceive
<1>3. Response(c) \in Packets /\ Response(c).type = "topic_response"
  BY <1>2 DEF Response, TmpReceive
<1> QED
  BY <1>1, <1>2, <1>3 DEF Response, Packets

LEMMA TmpReceiveTyped ==
  ASSUME BusTypeOK, ServerTypeOK', ClientInv, NEW c \in Clients, TmpReceive(c)
  PROVE  BusTypeOK'
<1> DEFINE t == Response(c).payload
           k == Response(c).topic_key
<1>1. t \in Topics /\ k \in Nat
  BY ResponseTyped
<1>2. pc' \in [Clients -> PcStates]
  BY DEF TmpReceive, Goto, BusTypeOK, PcStates
<1>3. op' \in [Clients -> [kind: Kinds, topic: Topics \cup {NoTopic},
                          payload: Payloads \cup {Empty}, key: Nat]]
  <2>1. op' = [op EXCEPT ![c].key = k]
    BY DEF TmpReceive, KeyReturned
  <2>2. op \in [Clients -> [kind: Kinds, topic: Topics \cup {NoTopic},
                           payload: Payloads \cup {Empty}, key: Nat]]
    BY DEF BusTypeOK
  <2> HIDE DEF k
  <2> QED
    BY <1>1, <2>1, <2>2
<1>4. /\ m_topic_map' = [m_topic_map EXCEPT ![c] = Put(@, t, k)]
      /\ m_inverse_topic_map' = [m_inverse_topic_map EXCEPT ![c] = Put(@, k, t)]
  BY DEF TmpReceive, NamesWith, InverseWith
<1> HIDE DEF t, k
<1>5. /\ DOMAIN m_topic_map' = Clients /\ DOMAIN m_inverse_topic_map' = Clients
      /\ \A d \in Clients :
           /\ DOMAIN m_topic_map'[d] \subseteq Topics
           /\ \A u \in DOMAIN m_topic_map'[d] : m_topic_map'[d][u] \in Nat
           /\ DOMAIN m_inverse_topic_map'[d] \subseteq Nat
           /\ \A l \in DOMAIN m_inverse_topic_map'[d] : m_inverse_topic_map'[d][l] \in Topics
  BY <1>1, <1>4 DEF Put, BusTypeOK
<1> QED
  BY <1>2, <1>3, <1>5 DEF TmpReceive, BusTypeOK

LEMMA PollTyped ==
  ASSUME BusTypeOK, ServerTypeOK', ClientInv, NEW c \in Clients, PollMessage(c)
  PROVE  BusTypeOK'
<1> DEFINE msg == Head(inq[main[c]])
<1>1. main[c] \in Endpoints
  BY InUse DEF PollMessage
<1>2. inq[main[c]] \in Seq(Packets) /\ inq[main[c]] # <<>>
  BY <1>1 DEF BusTypeOK, ServerTypeOK, ENetTypeOK, PollMessage, Poll, HostReceive
<1>3. msg \in Packets
  BY <1>2
<1>4. msg.type = "fanout" => msg.payload \in Payloads /\ msg.topic_key \in Nat
  BY <1>3 DEF Packets
<1>5. Label(c, msg.topic_key) \in Topics \cup {NoTopic}
  BY DEF Label, BusTypeOK
<1>6. delivered' \in [Clients -> Seq([payload: Payloads, topic: Topics \cup {NoTopic}])]
  <2>1. CASE msg.type = "fanout"
    <3> DEFINE new == [payload |-> msg.payload, topic |-> Label(c, msg.topic_key)]
               Deliveries == [payload: Payloads, topic: Topics \cup {NoTopic}]
    <3>1. delivered' = [delivered EXCEPT ![c] = Append(@, new)]
      BY <2>1 DEF PollMessage
    <3>2. new \in Deliveries
      BY <1>4, <1>5, <2>1
    <3>3. delivered \in [Clients -> Seq(Deliveries)]
      BY DEF BusTypeOK
    <3> HIDE DEF new, Deliveries
    <3>4. delivered' \in [Clients -> Seq(Deliveries)]
      BY <3>1, <3>2, <3>3
    <3> QED
      BY <3>4 DEF Deliveries
  <2>2. CASE msg.type # "fanout"
    BY <2>2 DEF PollMessage, BusTypeOK
  <2> QED
    BY <2>1, <2>2
<1> QED
  BY <1>6 DEF PollMessage, BusTypeOK

LEMMA BusStepTyped ==
  ASSUME BusTypeOK, ClientInv, [BusNext]_busVars
  PROVE  BusTypeOK'
<1> USE BusAssumption
<1>1. ServerTypeOK'
  BY BusStepsAreOpen, StepTyped DEF BusTypeOK
<1>2. CASE UNCHANGED <<clientVars, ghostVars>>
  BY <1>1, <1>2 DEF BusTypeOK
<1>3. ASSUME NEW c \in Clients, Construct(c) \/ Destroy(c) PROVE BusTypeOK'
  <2>1. CASE Construct(c)
    <3>1. PICK e \in Endpoints : main' = [main EXCEPT ![c] = e]
      BY <2>1 DEF Construct
    <3>2. main' \in [Clients -> Endpoints \cup {NoEndpoint}]
      BY <3>1 DEF BusTypeOK
    <3>3. /\ pc' \in [Clients -> PcStates]
          /\ UNCHANGED <<op, temporary, m_topic_map, m_inverse_topic_map, ghostVars>>
      BY <2>1 DEF Construct, Goto, BusTypeOK, PcStates
    <3> QED
      BY <1>1, <3>2, <3>3 DEF BusTypeOK
  <2>2. CASE Destroy(c)
    BY <1>1, <2>2 DEF Destroy, Goto, BusTypeOK, PcStates
  <2> QED
    BY <1>3, <2>1, <2>2
<1>4. ASSUME NEW c \in Clients, NEW t \in Topics,
             \/ CallGetTopicKey(c, t) \/ CallSubscribe(c, t)
             \/ \E m \in Payloads : CallPublish(c, t, m)
      PROVE  BusTypeOK'
  <2>1. CASE CallGetTopicKey(c, t)
    <3>1. /\ intended' \in [Payloads -> Topics \cup {NoTopic}]
          /\ wanted' \in [Clients -> SUBSET Topics]
      BY <2>1 DEF CallGetTopicKey, BusTypeOK
    <3> QED
      BY <1>1, <2>1, <3>1, CallTyped DEF CallGetTopicKey, Kinds
  <2>2. CASE CallSubscribe(c, t)
    <3>1. /\ intended' \in [Payloads -> Topics \cup {NoTopic}]
          /\ wanted' \in [Clients -> SUBSET Topics]
      BY <2>2 DEF CallSubscribe, BusTypeOK
    <3> QED
      BY <1>1, <2>2, <3>1, CallTyped DEF CallSubscribe, Kinds
  <2>3. ASSUME NEW m \in Payloads, CallPublish(c, t, m) PROVE BusTypeOK'
    <3>1. /\ intended' \in [Payloads -> Topics \cup {NoTopic}]
          /\ wanted' \in [Clients -> SUBSET Topics]
      BY <2>3 DEF CallPublish, BusTypeOK
    <3> QED
      BY <1>1, <2>3, <3>1, CallTyped DEF CallPublish, Kinds
  <2> QED
    BY <1>4, <2>1, <2>2, <2>3
<1>5. ASSUME NEW c \in Clients, NEW from, Throw(c, from) PROVE BusTypeOK'
  BY <1>1, <1>5 DEF Throw, Goto, NoOp, Kinds, BusTypeOK, PcStates
<1>6. ASSUME NEW c \in Clients, TmpConnect(c) \/ TmpRequest(c) PROVE BusTypeOK'
  <2>1. CASE TmpConnect(c)
    <3>1. PICK e \in Endpoints : temporary' = [temporary EXCEPT ![c] = e]
      BY <2>1 DEF TmpConnect
    <3>2. temporary' \in [Clients -> Endpoints \cup {NoEndpoint}]
      BY <3>1 DEF BusTypeOK
    <3>3. /\ pc' \in [Clients -> PcStates]
          /\ UNCHANGED <<op, main, m_topic_map, m_inverse_topic_map, ghostVars>>
      BY <2>1 DEF TmpConnect, Goto, BusTypeOK, PcStates
    <3> QED
      BY <1>1, <3>2, <3>3 DEF BusTypeOK
  <2>2. CASE TmpRequest(c)
    BY <1>1, <2>2 DEF TmpRequest, Goto, BusTypeOK, PcStates
  <2> QED
    BY <1>6, <2>1, <2>2
<1>7. ASSUME NEW c \in Clients, Use(c) PROVE BusTypeOK'
  BY <1>1, <1>7 DEF Use, Goto, NoOp, Kinds, BusTypeOK, PcStates
<1> QED
  BY <1>1, <1>2, <1>3, <1>4, <1>5, <1>6, <1>7, TmpReceiveTyped, PollTyped
     DEF BusNext, ServerStep, Application, LibraryStep, Receive, ConstructFails,
         CallPublishKey, TmpConnectFails, TmpReceiveFails, PollDisconnected

-----------------------------------------------------------------------------
(* What a step does to the links, the queues and the records.              *)

(* All steps but the sends of an endpoint.                                 *)
QuietNext ==
  \/ process \/ Restart
  \/ \E e \in Endpoints :
       \/ \E p \in Peers : Connect(p, e) \/ ConnectLate(p, e)
       \/ Poll(e) \/ Lose(e) \/ Close(e)

(* A link is only ever cut, or made with a host that was never used; no    *)
(* link and no packet at the server survives a restart; the author of a    *)
(* payload is noted once.                                                  *)
LEMMA LinkSteps ==
  ASSUME ServerTypeOK, FanoutInv, [OpenNext]_serverVars
  PROVE  /\ \A p \in Peers :
              \/ remote'[p] = remote[p] \/ remote'[p] = NoEndpoint
              \/ rx'[p] = <<>> /\ remote[p] = NoEndpoint /\ remote'[p] \in Endpoints
                   /\ peer_state[p] = "free" /\ endpoint[remote'[p]] = "new"
         /\ \A e \in Endpoints : endpoint'[e] = "new" => endpoint[e] = "new"
         /\ \A m \in Payloads : author[m] # NoEndpoint => author'[m] = author[m]
         /\ \/ restarts' = restarts
            \/ /\ restarts' = restarts + 1 /\ UNCHANGED inq /\ live' = {}
               /\ \A p \in Peers : remote'[p] = NoEndpoint /\ rx'[p] = <<>>
<1> USE ENetAssumption DEF ServerTypeOK, ENetTypeOK, FanoutInv, LinksSound
<1>1. CASE UNCHANGED serverVars
  BY <1>1
<1>2. CASE Restart
  BY <1>2 DEF Restart, ServerHostReplaced
<1>3. ASSUME NEW p \in Peers, OnDisconnect(p) \/ OnAbandoned(p)
      PROVE  /\ remote' = [remote EXCEPT ![p] = NoEndpoint]
             /\ UNCHANGED <<endpoint, author, restarts>>
  BY <1>3 DEF OnDisconnect, OnAbandoned, ReportDisconnect, AbandonPending, ReleaseSlot
<1>4. ASSUME NEW p \in Peers,
             \/ OnConnect(p) \/ OnTopicRequest(p) \/ OnSubscribe(p) \/ OnUnsubscribe(p)
             \/ OnPublish(p) \/ OnIgnored(p)
      PROVE  UNCHANGED <<remote, endpoint, author, restarts>>
  BY <1>4 DEF OnConnect, OnTopicRequest, OnSubscribe, OnUnsubscribe, SetSubscriptions,
              OnPublish, OnIgnored, ReportConnect, ReportReceive
<1>5. CASE process
  BY <1>3, <1>4, <1>5 DEF process
<1>6. ASSUME NEW e \in Endpoints, NEW p \in Peers, Connect(p, e) \/ ConnectLate(p, e)
      PROVE  /\ peer_state[p] = "free" /\ endpoint[e] = "new" /\ UNCHANGED rx
             /\ remote' = remote \/ remote' = [remote EXCEPT ![p] = e]
             /\ \A d \in Endpoints : endpoint'[d] = "new" => endpoint[d] = "new"
             /\ UNCHANGED <<author, restarts>>
  BY <1>6 DEF Connect, ConnectLate, HostConnect, HostConnectLate, Untouched
<1>7. ASSUME NEW e \in Endpoints, Poll(e) \/ Lose(e) \/ Close(e)
      PROVE  /\ \A p \in Peers : remote'[p] = remote[p] \/ remote'[p] = NoEndpoint
             /\ \A d \in Endpoints : endpoint'[d] = "new" => endpoint[d] = "new"
             /\ UNCHANGED <<author, restarts>>
  BY <1>7 DEF Poll, Lose, Close, HostReceive, HostDisconnected, HostDestroy, Unlink, Untouched
<1>8. ASSUME NEW e \in Endpoints, NEW packet \in Packets, Send(e, packet)
      PROVE  /\ UNCHANGED <<remote, endpoint, restarts>>
             /\ \A m \in Payloads : author[m] # NoEndpoint => author'[m] = author[m]
  BY <1>8 DEF Send, HostSend, Untouched
<1> QED
  BY <1>1, <1>2, <1>5, <1>6, <1>7, <1>8 DEF OpenNext, OpenEnvironment

(* Without a send the queues only get shorter.                             *)
LEMMA QueueSteps ==
  ASSUME ServerTypeOK, FanoutInv, [QuietNext]_serverVars,
         NEW p \in Peers, NEW i \in DOMAIN rx'[p]
  PROVE  /\ \E j \in DOMAIN rx[p] : rx'[p][i] = rx[p][j]
         /\ remote'[p] = remote[p] \/ remote'[p] = NoEndpoint
<1> USE ENetAssumption DEF ServerTypeOK, ENetTypeOK
<1>1. rx'[p] = rx[p] \/ rx'[p] = <<>> \/ (rx[p] # <<>> /\ rx'[p] = Tail(rx[p]))
  <2>1. CASE Restart \/ UNCHANGED serverVars
    BY <2>1 DEF Restart, ServerHostReplaced
  <2>3. ASSUME NEW q \in Peers, OnConnect(q) \/ OnDisconnect(q) \/ OnAbandoned(q)
        PROVE  rx'[p] = rx[p] \/ rx'[p] = <<>>
    BY <2>3 DEF OnConnect, OnDisconnect, OnAbandoned, ReportConnect, ReportDisconnect,
                AbandonPending, ReleaseSlot
  <2>4. ASSUME NEW q \in Peers,
               \/ OnTopicRequest(q) \/ OnSubscribe(q) \/ OnUnsubscribe(q)
               \/ OnPublish(q) \/ OnIgnored(q)
        PROVE  rx[q] # <<>> /\ rx' = [rx EXCEPT ![q] = Tail(@)]
    BY <2>4 DEF OnTopicRequest, OnSubscribe, OnUnsubscribe, SetSubscriptions, OnPublish,
                OnIgnored, ReportReceive
  <2>2. CASE \E e \in Endpoints :
               \/ \E q \in Peers : Connect(q, e) \/ ConnectLate(q, e)
               \/ Poll(e) \/ Lose(e) \/ Close(e)
    BY <2>2 DEF Connect, ConnectLate, HostConnect, HostConnectLate, Poll, Lose, Close,
                HostReceive, HostDisconnected, HostDestroy
  <2> QED
    BY <2>1, <2>2, <2>3, <2>4 DEF QuietNext, process
<1>2. rx[p] \in Seq(Packets)
  OBVIOUS
<1>3. [OpenNext]_serverVars
  BY DEF QuietNext, OpenNext, OpenEnvironment
<1>4. remote'[p] = remote[p] \/ remote'[p] = NoEndpoint
  BY <1>3, LinkSteps
<1>5. CASE rx[p] # <<>> /\ rx'[p] = Tail(rx[p])
  BY <1>2, <1>4, <1>5, InTail
<1> QED
  BY <1>1, <1>4, <1>5

(* What arrives at an endpoint is the answer to a topic_request of its     *)
(* slot or a fanout for its record.                                        *)
LEMMA InboxSteps ==
  ASSUME ServerTypeOK, RegistryConsistent, [OpenNext]_serverVars,
         NEW e \in Endpoints, NEW i \in DOMAIN inq'[e]
  PROVE  \/ \E j \in DOMAIN inq[e] : inq'[e][i] = inq[e][j]
         \/ \E p \in Peers :
              /\ OnTopicRequest(p) /\ remote[p] = e
              /\ inq'[e][i] = topic_response(KeyOf(Head(rx[p]).payload), Head(rx[p]).payload)
         \/ \E p \in Peers :
              /\ OnPublish(p)
              /\ inq'[e][i] = fanout(Head(rx[p]).topic_key, Head(rx[p]).payload)
              /\ \E a \in FanoutTargets(peer_data[p], Head(rx[p]).topic_key) :
                   remote[client[a].m_peer] = e
<1> USE ENetAssumption DEF ServerTypeOK, ENetTypeOK
<1>1. inq[e] \in Seq(Packets)
  OBVIOUS
<1>2. ASSUME inq'[e] = inq[e] \/ inq'[e] = <<>> \/ (inq[e] # <<>> /\ inq'[e] = Tail(inq[e]))
      PROVE  \E j \in DOMAIN inq[e] : inq'[e][i] = inq[e][j]
  <2>1. CASE inq[e] # <<>> /\ inq'[e] = Tail(inq[e])
    BY <1>1, <2>1, InTail
  <2> QED
    BY <1>2, <2>1
<1>3. CASE UNCHANGED serverVars \/ Restart
  BY <1>2, <1>3 DEF Restart, ServerHostReplaced
<1>4. ASSUME NEW d \in Endpoints,
             \/ \E p \in Peers : Connect(p, d) \/ ConnectLate(p, d)
             \/ \E packet \in Packets : Send(d, packet)
             \/ Poll(d) \/ Lose(d) \/ Close(d)
      PROVE  inq'[e] = inq[e] \/ inq'[e] = <<>> \/ (inq[e] # <<>> /\ inq'[e] = Tail(inq[e]))
  BY <1>4 DEF Connect, ConnectLate, HostConnect, HostConnectLate, Send, HostSend, Poll, Lose,
              Close, HostReceive, HostDisconnected, HostDestroy
<1>5. ASSUME NEW p \in Peers, OnConnect(p) \/ OnDisconnect(p) \/ OnAbandoned(p)
      PROVE  inq'[e] = inq[e]
  BY <1>5 DEF OnConnect, OnDisconnect, OnAbandoned, ReportConnect, ReportDisconnect,
              AbandonPending, ReleaseSlot
<1>6. ASSUME NEW p \in Peers, OnSubscribe(p) \/ OnUnsubscribe(p) \/ OnIgnored(p)
      PROVE  inq'[e] = inq[e]
  BY <1>6 DEF OnSubscribe, OnUnsubscribe, OnIgnored, SetSubscriptions, ReportReceive
<1>7. ASSUME NEW p \in Peers, OnTopicRequest(p)
      PROVE  \/ \E j \in DOMAIN inq[e] : inq'[e][i] = inq[e][j]
             \/ /\ remote[p] = e
                /\ inq'[e][i] = topic_response(KeyOf(Head(rx[p]).payload), Head(rx[p]).payload)
  <2> DEFINE topic == Head(rx[p]).payload
             answer == topic_response(KeyOf(topic), topic)
  <2>1. topic \in Topics /\ get_or_create(topic)
    BY <1>7, HeadTyped, PacketFields DEF OnTopicRequest, Receiving
  <2>2. answer \in Packets
    BY <2>1, TopicMapTyped, PacketsTyped
  <2>3. client[peer_data[p]].m_peer = p
    BY <1>7 DEF OnTopicRequest, Receiving, RegistryConsistent
  <2>4. inq'[e] = IF remote[p] = e THEN Append(inq[e], answer) ELSE inq[e]
    BY <1>7, <2>3 DEF OnTopicRequest, ReportReceive
  <2> HIDE DEF answer
  <2>5. CASE remote[p] = e
    BY <1>1, <2>2, <2>4, <2>5, InAppend DEF answer
  <2> QED
    BY <1>2, <2>4, <2>5
<1>8. ASSUME NEW p \in Peers, OnPublish(p)
      PROVE  \/ \E j \in DOMAIN inq[e] : inq'[e][i] = inq[e][j]
             \/ /\ inq'[e][i] = fanout(Head(rx[p]).topic_key, Head(rx[p]).payload)
                /\ \E a \in FanoutTargets(peer_data[p], Head(rx[p]).topic_key) :
                     remote[client[a].m_peer] = e
  <2> DEFINE copy == fanout(Head(rx[p]).topic_key, Head(rx[p]).payload)
             targets == FanoutTargets(peer_data[p], Head(rx[p]).topic_key)
  <2>1. copy \in Packets
    BY <1>8, HeadTyped, PacketFields, PacketsTyped DEF OnPublish, Receiving
  <2>2. inq'[e] = IF \E q \in {client[a].m_peer : a \in targets} : remote[q] = e
                  THEN Append(inq[e], copy) ELSE inq[e]
    BY <1>8 DEF OnPublish, ReportReceive
  <2> HIDE DEF copy, targets
  <2>3. CASE \E a \in targets : remote[client[a].m_peer] = e
    <3>1. inq'[e] = Append(inq[e], copy)
      BY <2>2, <2>3
    <3> QED
      BY <1>1, <2>1, <2>3, <3>1, InAppend DEF copy, targets
  <2>4. CASE ~ \E a \in targets : remote[client[a].m_peer] = e
    <3>1. inq'[e] = inq[e]
      BY <2>2, <2>4
    <3> QED
      BY <1>2, <3>1
  <2> QED
    BY <2>3, <2>4
<1> QED
  BY <1>2, <1>3, <1>4, <1>5, <1>6, <1>7, <1>8 DEF OpenNext, process, OpenEnvironment

(* The keys of a record are those it had, and the one of a subscribe that  *)
(* its slot has received; a new record has none and its slot no link       *)
(* but the one of the handshake.                                           *)
LEMMA RecordSteps ==
  ASSUME ServerTypeOK, RegistryConsistent, [OpenNext]_serverVars,
         NEW a \in live', NEW k \in client'[a].subscribed_topics
  PROVE  /\ a \in live /\ client'[a].m_peer = client[a].m_peer
         /\ \/ k \in client[a].subscribed_topics
            \/ LET p == client[a].m_peer IN
                 /\ p \in Peers /\ rx[p] # <<>> /\ Head(rx[p]).type = "subscribe"
                 /\ k = Head(rx[p]).topic_key
<1> USE ServerAssumption DEF ServerTypeOK
<1>1. CASE UNCHANGED <<live, client>>
  BY <1>1
<1>2. CASE Restart
  BY <1>2 DEF Restart
<1>3. ASSUME NEW p \in Peers, OnConnect(p)
      PROVE  a \in live /\ client'[a] = client[a]
  BY <1>3 DEF OnConnect, create_client
<1>4. ASSUME NEW p \in Peers, OnDisconnect(p)
      PROVE  a \in live /\ client'[a] = client[a]
  BY <1>4 DEF OnDisconnect, destroy_client
<1>5. ASSUME NEW p \in Peers, NEW keys, peer_data[p] \in Addrs, SetSubscriptions(p, keys)
      PROVE  /\ live' = live /\ client'[a].m_peer = client[a].m_peer
             /\ client'[a].subscribed_topics =
                  IF a = peer_data[p] THEN keys ELSE client[a].subscribed_topics
  BY <1>5 DEF SetSubscriptions, ClientRecords
<1>6. ASSUME NEW p \in Peers, OnSubscribe(p) \/ OnUnsubscribe(p)
      PROVE  /\ live' = live /\ client'[a].m_peer = client[a].m_peer
             /\ \/ k \in client[a].subscribed_topics
                \/ /\ client[a].m_peer = p /\ rx[p] # <<>> /\ Head(rx[p]).type = "subscribe"
                   /\ k = Head(rx[p]).topic_key
  <2>1. peer_data[p] \in live /\ client[peer_data[p]].m_peer = p
    BY <1>6 DEF OnSubscribe, OnUnsubscribe, Receiving, RegistryConsistent
  <2>2. CASE OnSubscribe(p)
    BY <1>5, <2>1, <2>2 DEF OnSubscribe, Receiving
  <2>3. CASE OnUnsubscribe(p)
    BY <1>5, <2>1, <2>3 DEF OnUnsubscribe, Receiving
  <2> QED
    BY <1>6, <2>2, <2>3
<1>7. CASE OpenEnvironment
  BY <1>1, <1>7 DEF OpenEnvironment, Connect, ConnectLate, Send, Poll, Lose, Close, Untouched
<1>8. ASSUME NEW p \in Peers,
             OnAbandoned(p) \/ OnTopicRequest(p) \/ OnPublish(p) \/ OnIgnored(p)
      PROVE  UNCHANGED <<live, client>>
  BY <1>8 DEF OnAbandoned, OnTopicRequest, OnPublish, OnIgnored
<1> QED
  BY <1>1, <1>2, <1>3, <1>4, <1>6, <1>7, <1>8 DEF OpenNext, process

-----------------------------------------------------------------------------
(* The application threads.                                                *)

(* A Client keeps its main connection, its subscriptions and its caches,   *)
(* and a payload the topic it was published to.                            *)
LEMMA HistorySteps ==
  ASSUME BusTypeOK, ClientInv, [BusNext]_busVars
  PROVE  /\ \A c \in Clients :
              /\ main[c] # NoEndpoint => main'[c] = main[c]
              /\ wanted[c] \subseteq wanted'[c]
              /\ DOMAIN m_topic_map[c] \subseteq DOMAIN m_topic_map'[c]
         /\ \A m \in Payloads : intended[m] # NoTopic => intended'[m] = intended[m]
<1> USE BusAssumption DEF BusTypeOK
<1>1. CASE UNCHANGED <<main, wanted, m_topic_map, intended>>
  BY <1>1
<1>2. ASSUME NEW c \in Clients, Construct(c)
      PROVE  /\ \A d \in Clients : main[d] # NoEndpoint => main'[d] = main[d]
             /\ UNCHANGED <<wanted, m_topic_map, intended>>
  <2>1. main[c] = NoEndpoint
    BY <1>2 DEF Construct, Goto, ClientInv, CallSound
  <2>2. PICK e \in Endpoints : main' = [main EXCEPT ![c] = e]
    BY <1>2 DEF Construct
  <2> QED
    BY <1>2, <2>1, <2>2 DEF Construct
<1>3. ASSUME NEW c \in Clients, NEW t \in Topics, CallSubscribe(c, t)
      PROVE  /\ \A d \in Clients : wanted[d] \subseteq wanted'[d]
             /\ UNCHANGED <<main, m_topic_map, intended>>
  BY <1>3 DEF CallSubscribe, Call
<1>4. ASSUME NEW c \in Clients, NEW t \in Topics, NEW m \in Payloads, CallPublish(c, t, m)
      PROVE  /\ \A n \in Payloads : intended[n] # NoTopic => intended'[n] = intended[n]
             /\ UNCHANGED <<main, m_topic_map, wanted>>
  BY <1>4 DEF CallPublish, Call
<1>5. ASSUME NEW c \in Clients, TmpReceive(c)
      PROVE  /\ \A d \in Clients : DOMAIN m_topic_map[d] \subseteq DOMAIN m_topic_map'[d]
             /\ UNCHANGED <<main, intended, wanted>>
  BY <1>5 DEF TmpReceive, NamesWith, Put
<1>6. ASSUME NEW c \in Clients,
             \/ ConstructFails(c) \/ Destroy(c) \/ \E t \in Topics : CallGetTopicKey(c, t)
             \/ TmpConnect(c) \/ TmpConnectFails(c) \/ TmpRequest(c) \/ TmpReceiveFails(c)
             \/ Use(c) \/ Receive(c)
      PROVE  UNCHANGED <<main, wanted, m_topic_map, intended>>
  BY <1>6 DEF ConstructFails, Destroy, CallGetTopicKey, Call, TmpConnect, TmpConnectFails,
              Throw, TmpRequest, TmpReceiveFails, Use, Receive, PollMessage, PollDisconnected
<1>7. ASSUME NEW c \in Clients, Application(c) \/ LibraryStep(c) \/ Receive(c)
      PROVE  \/ UNCHANGED <<main, wanted, m_topic_map, intended>>
             \/ Construct(c) \/ TmpReceive(c)
             \/ \E t \in Topics : CallSubscribe(c, t) \/ \E m \in Payloads : CallPublish(c, t, m)
  BY <1>6, <1>7 DEF Application, LibraryStep, CallPublishKey
<1> QED
  BY <1>1, <1>2, <1>3, <1>4, <1>5, <1>7 DEF BusNext, ServerStep

(* A thread that does not move.                                            *)
LEMMA CallSoundKept ==
  ASSUME BusTypeOK, ClientInv, [BusNext]_busVars, NEW c \in Clients,
         pc'[c] = pc[c], op'[c] = op[c] \/ ~InCall(c), main'[c] = main[c],
         temporary'[c] = temporary[c],
         pc[c] = "none" =>
           /\ m_topic_map'[c] = m_topic_map[c]
           /\ m_inverse_topic_map'[c] = m_inverse_topic_map[c]
           /\ delivered'[c] = delivered[c]
  PROVE  CallSound(c)'
<1>1. /\ wanted[c] \subseteq wanted'[c]
      /\ \A m \in Payloads : intended[m] # NoTopic => intended'[m] = intended[m]
  BY HistorySteps
<1>2. CallSound(c)
  BY DEF ClientInv
<1> QED
  BY <1>1, <1>2, BusAssumption DEF CallSound, InCall

(* Nothing of another client changes when client c moves.                  *)
LEMMA OthersStand ==
  ASSUME BusTypeOK, NEW c \in Clients, Application(c) \/ LibraryStep(c) \/ Receive(c),
         NEW d \in Clients, d # c
  PROVE  /\ pc'[d] = pc[d] /\ op'[d] = op[d] /\ main'[d] = main[d]
         /\ temporary'[d] = temporary[d] /\ m_topic_map'[d] = m_topic_map[d]
         /\ m_inverse_topic_map'[d] = m_inverse_topic_map[d]
         /\ delivered'[d] = delivered[d]
<1> USE DEF BusTypeOK, Goto
<1>1. CASE Construct(c) \/ TmpConnect(c)
  <2>1. /\ main' = main \/ \E e \in Endpoints : main' = [main EXCEPT ![c] = e]
        /\ temporary' = temporary \/ \E e \in Endpoints : temporary' = [temporary EXCEPT ![c] = e]
        /\ \E to : pc' = [pc EXCEPT ![c] = to]
        /\ UNCHANGED <<op, m_topic_map, m_inverse_topic_map, delivered>>
    BY <1>1 DEF Construct, TmpConnect
  <2> QED
    BY <2>1
<1>2. CASE ConstructFails(c) \/ Destroy(c)
  BY <1>2 DEF ConstructFails, Destroy
<1>3. ASSUME NEW kind, NEW t, NEW payload, Call(c, kind, t, payload)
      PROVE  /\ pc'[d] = pc[d] /\ op'[d] = op[d]
             /\ UNCHANGED <<main, temporary, m_topic_map, m_inverse_topic_map, delivered>>
  BY <1>3 DEF Call
<1>4. ASSUME NEW from, Throw(c, from)
      PROVE  /\ pc'[d] = pc[d] /\ op'[d] = op[d] /\ temporary'[d] = temporary[d]
             /\ UNCHANGED <<main, m_topic_map, m_inverse_topic_map, delivered>>
  BY <1>4 DEF Throw
<1>5. CASE TmpRequest(c)
  BY <1>5 DEF TmpRequest
<1>6. CASE TmpReceive(c)
  BY <1>6 DEF TmpReceive
<1>7. CASE Use(c)
  BY <1>7 DEF Use
<1>8. CASE Receive(c)
  BY <1>8 DEF Receive, PollMessage, PollDisconnected
<1> QED
  BY <1>1, <1>2, <1>3, <1>4, <1>5, <1>6, <1>7, <1>8
     DEF Application, LibraryStep, CallGetTopicKey, CallSubscribe, CallPublish, CallPublishKey,
         TmpConnectFails, TmpReceiveFails

LEMMA StepKeepsCalls ==
  ASSUME BusTypeOK, ClientInv, [BusNext]_busVars
  PROVE  \A c \in Clients : CallSound(c)'
<1> USE BusAssumption, ENetAssumption DEF BusTypeOK
<1>1. CASE UNCHANGED clientVars /\ UNCHANGED delivered
  BY <1>1, CallSoundKept
<1>2. ASSUME NEW c \in Clients, Application(c) \/ LibraryStep(c) \/ Receive(c)
      PROVE  CallSound(c)'
  <2>1. CallSound(c)
    BY DEF ClientInv
  <2>2. CASE Construct(c)
    <3>1. PICK e \in Endpoints : main' = [main EXCEPT ![c] = e]
      BY <2>2 DEF Construct
    <3> QED
      BY <2>1, <2>2, <3>1 DEF Construct, Goto, CallSound, InCall
  <2>3. CASE Destroy(c)
    BY <2>1, <2>3 DEF Destroy, Goto, CallSound, InCall
  <2>5. ASSUME NEW kind \in Kinds, NEW t \in Topics, NEW payload \in Payloads \cup {Empty},
               Call(c, kind, t, payload),
               kind = "subscribe" => t \in wanted'[c],
               kind = "publish" => payload \in Payloads /\ intended'[payload] = t
        PROVE  CallSound(c)'
    <3>1. CASE UNCHANGED <<pc, op>>
      BY <2>5, <3>1, CallSoundKept DEF Call
    <3>2. CASE UNCHANGED serverVars /\ Goto(c, "idle", "connect")
                 /\ op' = [op EXCEPT ![c] = [kind |-> kind, topic |-> t, payload |-> payload,
                                             key |-> 0]]
      <4>1. /\ op'[c].kind = kind /\ op'[c].topic = t /\ op'[c].payload = payload
            /\ pc[c] = "idle" /\ pc'[c] = "connect"
        BY <3>2 DEF Goto
      <4>2. UNCHANGED <<main, temporary, m_topic_map, m_inverse_topic_map, delivered>>
        BY <2>5 DEF Call
      <4> QED
        BY <2>1, <2>5, <4>1, <4>2 DEF CallSound, InCall
    <3> QED
      BY <2>5, <3>1, <3>2 DEF Call
  <2>6. CASE \E t \in Topics : CallGetTopicKey(c, t)
    BY <2>5, <2>6 DEF CallGetTopicKey, Kinds
  <2>7. CASE \E t \in Topics : CallSubscribe(c, t)
    <3>1. PICK t \in Topics : CallSubscribe(c, t)
      BY <2>7
    <3>2. t \in wanted'[c] /\ Call(c, "subscribe", t, Empty)
      BY <3>1 DEF CallSubscribe
    <3> QED
      BY <2>5, <3>2 DEF Kinds
  <2>8. CASE \E t \in Topics, m \in Payloads : CallPublish(c, t, m)
    BY <2>5, <2>8 DEF CallPublish, Kinds
  <2>9. ASSUME NEW from, from \in {"connect", "await"}, Throw(c, from) PROVE CallSound(c)'
    BY <2>1, <2>9 DEF Throw, Goto, CallSound, InCall
  <2>10. CASE TmpConnect(c)
    <3>1. PICK e \in Endpoints : temporary' = [temporary EXCEPT ![c] = e]
      BY <2>10 DEF TmpConnect
    <3> QED
      BY <2>1, <2>10, <3>1 DEF TmpConnect, Goto, CallSound, InCall
  <2>11. CASE TmpRequest(c)
    BY <2>1, <2>11 DEF TmpRequest, Goto, CallSound, InCall
  <2>12. CASE TmpReceive(c)
    <3>1. /\ op'[c].topic = op[c].topic /\ op'[c].kind = op[c].kind
          /\ op'[c].payload = op[c].payload
      BY <2>12 DEF TmpReceive
    <3>2. /\ pc[c] = "await" /\ pc'[c] = "use" /\ temporary'[c] = NoEndpoint
          /\ UNCHANGED <<main, ghostVars>>
      BY <2>12 DEF TmpReceive, Goto
    <3> QED
      BY <2>1, <3>1, <3>2 DEF CallSound, InCall
  <2>13. CASE Use(c)
    BY <2>1, <2>13 DEF Use, Goto, CallSound, InCall
  <2>14. CASE ConstructFails(c)
    BY <2>14, CallSoundKept DEF ConstructFails
  <2>15. CASE Receive(c)
    BY <2>15, CallSoundKept DEF Receive, PollMessage, PollDisconnected
  <2> QED
    BY <1>2, <2>2, <2>3, <2>6, <2>7, <2>8, <2>9, <2>10, <2>11, <2>12, <2>13, <2>14, <2>15
       DEF Application, LibraryStep, CallPublishKey, TmpConnectFails, TmpReceiveFails
<1>3. ASSUME NEW c \in Clients, Application(c) \/ LibraryStep(c) \/ Receive(c),
             NEW d \in Clients, d # c
      PROVE  CallSound(d)'
  BY <1>3, OthersStand, CallSoundKept
<1> QED
  BY <1>1, <1>2, <1>3 DEF BusNext, ServerStep

(* A connection gets a host of its own.                                    *)
LEMMA StepKeepsHosts ==
  ASSUME BusTypeOK, ClientInv, RegistryConsistent, FanoutInv, [BusNext]_busVars
  PROVE  HostsSound'
<1>1. [OpenNext]_serverVars
  BY BusStepsAreOpen
<1>8. \A e \in Endpoints : \A i \in DOMAIN inq'[e] :
        \/ \E j \in DOMAIN inq[e] : inq'[e][i] = inq[e][j]
        \/ \E p \in Peers : remote[p] = e
        \/ \E p \in Peers : \E a \in FanoutTargets(peer_data[p], Head(rx[p]).topic_key) :
             remote[client[a].m_peer] = e
  <2>1. SUFFICES ASSUME NEW e \in Endpoints, NEW i \in DOMAIN inq'[e]
                 PROVE  \/ \E j \in DOMAIN inq[e] : inq'[e][i] = inq[e][j]
                        \/ \E p \in Peers : remote[p] = e
                        \/ \E p \in Peers :
                             \E a \in FanoutTargets(peer_data[p], Head(rx[p]).topic_key) :
                               remote[client[a].m_peer] = e
    OBVIOUS
  <2>2. ServerTypeOK
    BY DEF BusTypeOK
  <2> QED
    BY <1>1, <2>2, InboxSteps
<1> USE ENetAssumption DEF BusTypeOK, ServerTypeOK, ENetTypeOK
<1>2. \A e \in Endpoints : endpoint'[e] = "new" => inq'[e] = <<>>
  <2>5. inq' \in [Endpoints -> Seq(Packets)]
    BY <1>1, StepTyped
  <2>1. SUFFICES ASSUME NEW e \in Endpoints, endpoint'[e] = "new", inq'[e] # <<>>
                 PROVE  FALSE
    OBVIOUS
  <2>6. 1 \in DOMAIN inq'[e]
    BY <2>1, <2>5
  <2>2. endpoint[e] = "new" /\ inq[e] = <<>>
    BY <1>1, <2>1, LinkSteps DEF ClientInv, HostsSound
  <2>3. \A p \in Peers : remote[p] # e
    BY <2>2 DEF FanoutInv, LinksSound
  <2>4. \A p \in Peers : \A a \in FanoutTargets(peer_data[p], Head(rx[p]).topic_key) :
          remote[client[a].m_peer] # e
    BY <2>3 DEF FanoutTargets, RegistryConsistent
  <2> QED
    <3>1. \E j \in DOMAIN inq[e] : inq'[e][1] = inq[e][j]
      BY <1>8, <2>3, <2>4, <2>6
    <3> QED
      BY <2>2, <3>1
<1>3. CASE UNCHANGED <<main, temporary>>
  BY <1>1, <1>2, <1>3, LinkSteps DEF ClientInv, HostsSound
<1>4. ASSUME NEW c \in Clients, NEW e \in Endpoints, endpoint[e] = "new", endpoint'[e] # "new",
             \/ main' = [main EXCEPT ![c] = e] /\ temporary' = temporary
             \/ temporary' = [temporary EXCEPT ![c] = e] /\ main' = main
      PROVE  HostsSound'
  <2>1. \A d \in Clients : main[d] # e /\ temporary[d] # e
    BY <1>4 DEF ClientInv, HostsSound
  <2>2. \A d \in Clients \ {c} : main'[d] = main[d] /\ temporary'[d] = temporary[d]
    BY <1>4
  <2>3. \/ main'[c] = e /\ temporary'[c] = temporary[c]
        \/ main'[c] = main[c] /\ temporary'[c] = e
    BY <1>4
  <2>4. \A d \in Clients :
          /\ main[d] # NoEndpoint => endpoint'[main[d]] # "new"
          /\ temporary[d] # NoEndpoint => endpoint'[temporary[d]] # "new"
    BY <1>1, LinkSteps DEF ClientInv, HostsSound
  <2>5. \A d \in Clients :
          /\ main'[d] # NoEndpoint => endpoint'[main'[d]] # "new"
          /\ temporary'[d] # NoEndpoint => endpoint'[temporary'[d]] # "new"
    BY <1>4, <2>2, <2>3, <2>4
  <2>6. \A b, d \in Clients :
          /\ main'[b] # NoEndpoint => main'[b] # temporary'[d] /\ (main'[b] = main'[d] => b = d)
          /\ temporary'[b] # NoEndpoint /\ temporary'[b] = temporary'[d] => b = d
    <3>1. TAKE b, d \in Clients
    <3>2. /\ main[b] # NoEndpoint => main[b] # temporary[d] /\ (main[b] = main[d] => b = d)
          /\ temporary[b] # NoEndpoint /\ temporary[b] = temporary[d] => b = d
      BY DEF ClientInv, HostsSound
    <3>3. CASE b = c /\ d = c
      BY <2>1, <2>3, <3>2, <3>3
    <3>4. CASE b = c /\ d # c
      BY <2>1, <2>2, <2>3, <3>2, <3>4
    <3>5. CASE b # c /\ d = c
      BY <2>1, <2>2, <2>3, <3>2, <3>5
    <3>6. CASE b # c /\ d # c
      BY <2>2, <3>2, <3>6
    <3> QED
      BY <3>3, <3>4, <3>5, <3>6
  <2> QED
    BY <1>2, <2>5, <2>6 DEF HostsSound
<1>5. ASSUME NEW c \in Clients, Construct(c) \/ TmpConnect(c) PROVE HostsSound'
  <2>1. PICK e \in Endpoints :
          /\ Connected(e)
          /\ \/ main' = [main EXCEPT ![c] = e] /\ temporary' = temporary
             \/ temporary' = [temporary EXCEPT ![c] = e] /\ main' = main
    BY <1>5 DEF Construct, TmpConnect
  <2>2. endpoint[e] = "new" /\ endpoint'[e] # "new"
    BY <2>1 DEF Connected, Connect, HostConnect
  <2> QED
    BY <1>4, <2>1, <2>2
<1>6. ASSUME NEW c \in Clients, temporary' = [temporary EXCEPT ![c] = NoEndpoint],
             main' = main
      PROVE  HostsSound'
  <2>1. \A d \in Clients : temporary'[d] = temporary[d] \/ temporary'[d] = NoEndpoint
    BY <1>6
  <2> QED
    BY <1>1, <1>2, <1>6, <2>1, LinkSteps DEF ClientInv, HostsSound
<1>7. ASSUME NEW c \in Clients, Application(c) \/ LibraryStep(c) \/ Receive(c)
      PROVE  \/ UNCHANGED <<main, temporary>> \/ Construct(c) \/ TmpConnect(c)
             \/ temporary' = [temporary EXCEPT ![c] = NoEndpoint] /\ main' = main
  BY <1>7 DEF Application, LibraryStep, Receive, ConstructFails, Destroy, CallGetTopicKey,
       CallSubscribe, CallPublish, CallPublishKey, Call, TmpConnectFails, TmpRequest,
       TmpReceive, TmpReceiveFails, Throw, Use, PollMessage, PollDisconnected
<1> QED
  BY <1>3, <1>5, <1>6, <1>7 DEF BusNext, ServerStep

-----------------------------------------------------------------------------
(* Keys and caches.                                                        *)

(* A key stays known as long as its server runs, and a client that is      *)
(* connected to the server that runs was so before.                        *)
LEMMA FreshSteps ==
  ASSUME BusTypeOK, ClientInv, KeysUnique, FanoutInv, [BusNext]_busVars
  PROVE  /\ restarts' = restarts =>
              \A t \in DOMAIN m_map : t \in DOMAIN m_map' /\ m_map'[t] = m_map[t]
         /\ \A c \in Clients : main[c] # NoEndpoint /\ Fresh(c)' =>
              Fresh(c) /\ restarts' = restarts
<1>1. [OpenNext]_serverVars /\ ServerTypeOK
  BY BusStepsAreOpen DEF BusTypeOK
<1>2. restarts' = restarts =>
        \A t \in DOMAIN m_map : t \in DOMAIN m_map' /\ m_map'[t] = m_map[t]
  BY <1>1, StepKeepsKeys
<1>3. ASSUME NEW c \in Clients, main[c] # NoEndpoint, Fresh(c)'
      PROVE  Fresh(c) /\ restarts' = restarts
  <2>1. main'[c] = main[c] /\ main[c] \in Endpoints /\ endpoint[main[c]] # "new"
    BY <1>3, HistorySteps DEF BusTypeOK, ClientInv, HostsSound
  <2>2. ASSUME NEW p \in Peers, remote'[p] = main[c] PROVE remote[p] = main[c]
    BY <1>1, <2>1, <2>2, LinkSteps, ENetAssumption
  <2>3. restarts' # restarts => restarts' # 0 /\ \A p \in Peers : remote'[p] # main[c]
    BY <1>1, <2>1, LinkSteps, ENetAssumption DEF ServerTypeOK
  <2> QED
    BY <1>3, <2>1, <2>2, <2>3 DEF Fresh, Linked
<1> QED
  BY <1>2, <1>3

(* The send of client c, if any, at the end of a call for topic t.         *)
SendsFor(c, t, key) ==
  /\ Fresh(c) => t \in DOMAIN m_topic_map[c] /\ m_topic_map[c][t] = key
  /\ \/ t \in wanted'[c] /\ Send(main[c], subscribe(key))
     \/ \E m \in Payloads : intended'[m] = t /\ Send(main[c], publish(key, m))

(* Every send is a topic_request of a temporary connection or ends a call. *)
LEMMA BusSends ==
  ASSUME BusTypeOK, ClientInv, ResolveInv, [BusNext]_busVars
  PROVE  \/ [QuietNext]_serverVars
         \/ \E c \in Clients : TmpRequest(c)
         \/ \E c \in Clients, t \in Topics, key \in Nat : main[c] \in Endpoints /\ SendsFor(c, t, key)
<1>1. CASE UNCHANGED busVars \/ ServerStep
  BY <1>1 DEF ServerStep, QuietNext
<1>2. ASSUME NEW c \in Clients,
             \/ Construct(c) \/ ConstructFails(c) \/ TmpConnect(c) \/ TmpConnectFails(c)
      PROVE  [QuietNext]_serverVars
  BY <1>2 DEF Construct, ConstructFails, TmpConnect, TmpConnectFails, Connected, ConnectFails,
              QuietNext
<1>3. ASSUME NEW c \in Clients, Destroy(c) \/ Receive(c) PROVE [QuietNext]_serverVars
  BY <1>3, InUse DEF Destroy, Goto, Receive, PollMessage, PollDisconnected, QuietNext
<1>4. ASSUME NEW c \in Clients, TmpReceive(c) \/ TmpReceiveFails(c)
      PROVE  [QuietNext]_serverVars
  BY <1>4, InUse DEF TmpReceive, TmpReceiveFails, Throw, Goto, QuietNext
<1>5. ASSUME NEW c \in Clients, NEW kind, NEW t \in Topics, NEW payload,
             kind = "subscribe" => t \in wanted'[c],
             kind = "publish" => payload \in Payloads /\ intended'[payload] = t,
             Call(c, kind, t, payload)
      PROVE  \/ UNCHANGED serverVars
             \/ main[c] \in Endpoints /\ \E key \in Nat : SendsFor(c, t, key)
  <2>1. CASE t \in DOMAIN m_topic_map[c] /\ Perform(c, kind, m_topic_map[c][t], payload)
    <3>1. m_topic_map[c][t] \in Nat /\ main[c] \in Endpoints
      BY <1>5, <2>1, InUse DEF BusTypeOK, Call
    <3> QED
      BY <1>5, <2>1, <3>1 DEF Perform, SendsFor
  <2> QED
    BY <1>5, <2>1 DEF Call
<1>6. ASSUME NEW c \in Clients, NEW t \in Topics,
             \/ CallGetTopicKey(c, t) \/ CallSubscribe(c, t)
             \/ \E m \in Payloads : CallPublish(c, t, m)
      PROVE  \/ UNCHANGED serverVars
             \/ main[c] \in Endpoints /\ \E key \in Nat : SendsFor(c, t, key)
  <2>1. CASE CallGetTopicKey(c, t)
    BY <1>5, <2>1 DEF CallGetTopicKey
  <2>2. CASE CallSubscribe(c, t)
    <3>1. t \in wanted'[c]
      BY <2>2 DEF CallSubscribe, BusTypeOK
    <3> QED
      BY <1>5, <2>2, <3>1 DEF CallSubscribe
  <2>3. ASSUME NEW m \in Payloads, CallPublish(c, t, m)
        PROVE  \/ UNCHANGED serverVars
               \/ main[c] \in Endpoints /\ \E key \in Nat : SendsFor(c, t, key)
    <3>1. intended'[m] = t
      BY <2>3 DEF CallPublish, BusTypeOK
    <3> QED
      BY <1>5, <2>3, <3>1 DEF CallPublish
  <2> QED
    BY <1>6, <2>1, <2>2, <2>3
<1>7. ASSUME NEW c \in Clients, Use(c)
      PROVE  \/ UNCHANGED serverVars
             \/ /\ main[c] \in Endpoints
                /\ \E t \in Topics, key \in Nat : SendsFor(c, t, key)
  <2>1. /\ main[c] \in Endpoints /\ op[c].key \in Nat /\ op[c].topic \in Topics
        /\ op[c].kind = "publish" => op[c].payload \in Payloads
    BY <1>7, InUse DEF Use, Goto, InCall
  <2>2. /\ op[c].kind = "subscribe" => op[c].topic \in wanted'[c]
        /\ op[c].kind = "publish" => intended'[op[c].payload] = op[c].topic
    BY <1>7 DEF Use, Goto, InCall, ClientInv, CallSound
  <2>3. Fresh(c) => op[c].topic \in DOMAIN m_topic_map[c]
                      /\ m_topic_map[c][op[c].topic] = op[c].key
    BY <1>7 DEF Use, Goto, ResolveInv, CacheSound
  <2>4. Perform(c, op[c].kind, op[c].key, op[c].payload)
    BY <1>7 DEF Use
  <2>5. UNCHANGED serverVars \/ SendsFor(c, op[c].topic, op[c].key)
    BY <2>1, <2>2, <2>3, <2>4 DEF Perform, SendsFor
  <2> QED
    BY <2>1, <2>5
<1>8. ASSUME NEW c \in Clients, Application(c) \/ LibraryStep(c) \/ Receive(c)
      PROVE  \/ [QuietNext]_serverVars \/ TmpRequest(c) \/ Use(c)
             \/ \E t \in Topics :
                  \/ CallGetTopicKey(c, t) \/ CallSubscribe(c, t)
                  \/ \E m \in Payloads : CallPublish(c, t, m)
  BY <1>2, <1>3, <1>4, <1>8 DEF Application, LibraryStep, CallPublishKey
<1> QED
  BY <1>1, <1>6, <1>7, <1>8 DEF BusNext

(* A packet waiting in a slot was there before or its far end sends it: a  *)
(* topic_request for the topic of the call, a subscribe or a publish with  *)
(* the key in the cache.                                                   *)
LEMMA BusQueueSteps ==
  ASSUME BusTypeOK, ClientInv, ResolveInv, FanoutInv, [BusNext]_busVars,
         NEW p \in Peers, NEW i \in DOMAIN rx'[p]
  PROVE  /\ remote'[p] = remote[p] \/ remote'[p] = NoEndpoint
         /\ \/ \E j \in DOMAIN rx[p] : rx'[p][i] = rx[p][j]
            \/ \E c \in Clients :
                 /\ temporary[c] \in Endpoints /\ remote[p] = temporary[c]
                 /\ rx'[p][i] = topic_request(op[c].topic)
                 /\ UNCHANGED <<m_map, restarts>>
            \/ \E c \in Clients : \E t \in DOMAIN m_topic_map[c] :
                 /\ main[c] \in Endpoints /\ remote[p] = main[c] /\ Fresh(c)
                 /\ t \in wanted'[c] /\ rx'[p][i] = subscribe(m_topic_map[c][t])
                 /\ UNCHANGED <<m_map, restarts>>
            \/ \E c \in Clients, m \in Payloads : \E t \in DOMAIN m_topic_map[c] :
                 /\ main[c] \in Endpoints /\ remote[p] = main[c] /\ Fresh(c)
                 /\ intended'[m] = t /\ author[m] = NoEndpoint
                 /\ rx'[p][i] = publish(m_topic_map[c][t], m)
                 /\ UNCHANGED <<m_map, restarts>>
<1>1. ServerTypeOK /\ rx[p] \in Seq(Packets)
  BY DEF BusTypeOK, ServerTypeOK, ENetTypeOK
<1>2. CASE [QuietNext]_serverVars
  BY <1>1, <1>2, QueueSteps
<1>3. ASSUME NEW e \in Endpoints, NEW packet \in Packets, Send(e, packet)
      PROVE  /\ UNCHANGED <<remote, m_map, restarts>>
             /\ \/ \E j \in DOMAIN rx[p] : rx'[p][i] = rx[p][j]
                \/ remote[p] = e /\ rx'[p][i] = packet
  <2>1. rx'[p] = rx[p] \/ (remote[p] = e /\ rx'[p] = Append(rx[p], packet))
    BY <1>3 DEF Send, HostSend
  <2>2. UNCHANGED <<remote, m_map, restarts>>
    BY <1>3 DEF Send, HostSend, Untouched
  <2>3. CASE remote[p] = e /\ rx'[p] = Append(rx[p], packet)
    BY <1>1, <2>2, <2>3, InAppend
  <2> QED
    BY <2>1, <2>2, <2>3
<1>4. ASSUME NEW c \in Clients, TmpRequest(c)
      PROVE  /\ UNCHANGED <<remote, m_map, restarts>>
             /\ \/ \E j \in DOMAIN rx[p] : rx'[p][i] = rx[p][j]
                \/ /\ temporary[c] \in Endpoints /\ remote[p] = temporary[c]
                   /\ rx'[p][i] = topic_request(op[c].topic)
  <2>1. temporary[c] \in Endpoints /\ op[c].topic \in Topics
    BY <1>4, InUse DEF TmpRequest, Goto, InCall
  <2>2. topic_request(op[c].topic) \in Packets
    BY <2>1, PacketsTyped
  <2> QED
    BY <1>3, <1>4, <2>1, <2>2 DEF TmpRequest
<1>5. ASSUME NEW c \in Clients, NEW t \in Topics, NEW key \in Nat, main[c] \in Endpoints,
             SendsFor(c, t, key)
      PROVE  /\ UNCHANGED <<remote, m_map, restarts>>
             /\ \/ \E j \in DOMAIN rx[p] : rx'[p][i] = rx[p][j]
                \/ /\ remote[p] = main[c] /\ Fresh(c)
                   /\ t \in DOMAIN m_topic_map[c] /\ m_topic_map[c][t] = key
                   /\ \/ t \in wanted'[c] /\ rx'[p][i] = subscribe(key)
                      \/ \E m \in Payloads : /\ intended'[m] = t /\ author[m] = NoEndpoint
                                             /\ rx'[p][i] = publish(key, m)
  <2>1. remote[p] = main[c] => Fresh(c)
    BY <1>5, ENetAssumption DEF Fresh, Linked
  <2>2. CASE t \in wanted'[c] /\ Send(main[c], subscribe(key))
    BY <1>3, <1>5, <2>1, <2>2, PacketsTyped DEF SendsFor
  <2>3. ASSUME NEW m \in Payloads, intended'[m] = t, Send(main[c], publish(key, m))
        PROVE  /\ UNCHANGED <<remote, m_map, restarts>>
               /\ \/ \E j \in DOMAIN rx[p] : rx'[p][i] = rx[p][j]
                  \/ /\ remote[p] = main[c] /\ Fresh(c) /\ author[m] = NoEndpoint
                     /\ t \in DOMAIN m_topic_map[c] /\ m_topic_map[c][t] = key
                     /\ rx'[p][i] = publish(key, m)
    <3>1. publish(key, m) \in Packets
      BY PacketsTyped
    <3>2. author[m] = NoEndpoint
      BY <2>3 DEF Send, publish, construct
    <3> QED
      BY <1>3, <1>5, <2>1, <2>3, <3>1, <3>2 DEF SendsFor
  <2> QED
    BY <1>5, <2>2, <2>3 DEF SendsFor
<1> QED
  BY <1>2, <1>4, <1>5, BusSends

(* Where the caches are not filled they stay right.                        *)
LEMMA CacheKept ==
  ASSUME BusTypeOK, ClientInv, ResolveInv, KeysUnique, FanoutInv, [BusNext]_busVars,
         NEW c \in Clients,
         m_topic_map'[c] = m_topic_map[c], m_inverse_topic_map'[c] = m_inverse_topic_map[c],
         pc'[c] = "use" => pc[c] = "use" /\ op'[c] = op[c]
  PROVE  CacheSound(c)'
<1>1. CASE main[c] = NoEndpoint
  BY <1>1 DEF ClientInv, CallSound, CacheSound
<1>2. CASE main[c] # NoEndpoint
  <2> SUFFICES ASSUME Fresh(c)' PROVE CacheSound(c)'
    BY DEF CacheSound
  <2>1. Fresh(c) /\ CacheSound(c)
    BY <1>2, FreshSteps DEF ResolveInv
  <2>2. \A t \in DOMAIN m_map : t \in DOMAIN m_map' /\ m_map'[t] = m_map[t]
    BY <1>2, FreshSteps
  <2> QED
    BY <2>1, <2>2 DEF CacheSound, KnownAs
<1> QED
  BY <1>1, <1>2

(* The response of the temporary connection: the key is new to the client  *)
(* or it is the one on record.                                             *)
LEMMA CacheFilled ==
  ASSUME BusTypeOK, ClientInv, ResolveInv, KeysUnique, FanoutInv, NEW c \in Clients,
         TmpReceive(c), Fresh(c)' => Fresh(c)
  PROVE  CacheSound(c)'
<1> DEFINE t == Response(c).payload
           k == Response(c).topic_key
           names == m_topic_map[c]
           inverse == m_inverse_topic_map[c]
<1> SUFFICES ASSUME Fresh(c)' PROVE CacheSound(c)'
  BY DEF CacheSound
<1>1. /\ \A u \in DOMAIN names :
           /\ KnownAs(u, names[u]) /\ names[u] \in DOMAIN inverse /\ inverse[names[u]] = u
      /\ \A l \in DOMAIN inverse : inverse[l] \in DOMAIN names /\ names[inverse[l]] = l
  BY DEF ResolveInv, CacheSound
<1>2. t = op[c].topic /\ KnownAs(t, k)
  <2>1. /\ temporary[c] # NoEndpoint /\ 1 \in DOMAIN inq[temporary[c]]
        /\ Response(c) = inq[temporary[c]][1]
    BY ResponseTyped, ENetAssumption
  <2>2. Response(c).type = "topic_response"
    BY DEF TmpReceive
  <2> QED
    BY <2>1, <2>2 DEF ResolveInv, AnswerSound
<1>3. /\ m_topic_map'[c] = Put(names, t, k) /\ m_inverse_topic_map'[c] = Put(inverse, k, t)
      /\ op'[c].topic = op[c].topic /\ op'[c].key = k
      /\ m_map' = m_map
  BY DEF TmpReceive, NamesWith, InverseWith, KeyReturned, BusTypeOK, Close, Untouched
<1> HIDE DEF t, k, names, inverse
<1>4. /\ DOMAIN Put(names, t, k) = DOMAIN names \cup {t} /\ Put(names, t, k)[t] = k
      /\ \A u \in DOMAIN names \ {t} : Put(names, t, k)[u] = names[u]
      /\ DOMAIN Put(inverse, k, t) = DOMAIN inverse \cup {k} /\ Put(inverse, k, t)[k] = t
      /\ \A l \in DOMAIN inverse \ {k} : Put(inverse, k, t)[l] = inverse[l]
  BY DEF Put
<1>5. /\ \A u \in DOMAIN names : names[u] = k <=> u = t
      /\ \A l \in DOMAIN inverse : inverse[l] = t <=> l = k
  BY <1>1, <1>2 DEF KnownAs, KeysUnique
<1>6. \A u \in DOMAIN m_topic_map'[c] :
        /\ u \in DOMAIN m_map' /\ m_map'[u] = m_topic_map'[c][u]
        /\ m_topic_map'[c][u] \in DOMAIN m_inverse_topic_map'[c]
        /\ m_inverse_topic_map'[c][m_topic_map'[c][u]] = u
  BY <1>1, <1>2, <1>3, <1>4, <1>5 DEF KnownAs
<1>7. \A l \in DOMAIN m_inverse_topic_map'[c] :
        /\ m_inverse_topic_map'[c][l] \in DOMAIN m_topic_map'[c]
        /\ m_topic_map'[c][m_inverse_topic_map'[c][l]] = l
  BY <1>1, <1>2, <1>3, <1>4, <1>5 DEF KnownAs
<1>8. op'[c].topic \in DOMAIN m_topic_map'[c] /\ m_topic_map'[c][op'[c].topic] = op'[c].key
  BY <1>2, <1>3, <1>4
<1> QED
  BY <1>6, <1>7, <1>8 DEF CacheSound, KnownAs

LEMMA StepKeepsCaches ==
  ASSUME BusTypeOK, ClientInv, ResolveInv, KeysUnique, FanoutInv, [BusNext]_busVars,
         NEW c \in Clients
  PROVE  CacheSound(c)'
<1>1. CASE UNCHANGED clientVars
  BY <1>1, CacheKept
<1>2. ASSUME NEW d \in Clients, d # c, Application(d) \/ LibraryStep(d) \/ Receive(d)
      PROVE  CacheSound(c)'
  BY <1>2, OthersStand, CacheKept
<1>3. CASE TmpReceive(c)
  <2>1. main[c] # NoEndpoint
    BY <1>3 DEF TmpReceive, Goto, ClientInv, CallSound
  <2> QED
    BY <1>3, <2>1, FreshSteps, CacheFilled
<1>4. ASSUME Application(c) \/ LibraryStep(c) \/ Receive(c), ~TmpReceive(c)
      PROVE  /\ m_topic_map' = m_topic_map /\ m_inverse_topic_map' = m_inverse_topic_map
             /\ pc'[c] = "use" => pc[c] = "use" /\ op'[c] = op[c]
  <2>1. m_topic_map' = m_topic_map /\ m_inverse_topic_map' = m_inverse_topic_map
    BY <1>4 DEF Application, LibraryStep, Receive, Construct, ConstructFails, Destroy,
         CallGetTopicKey, CallSubscribe, CallPublish, CallPublishKey, Call, TmpConnect,
         TmpConnectFails, TmpRequest, TmpReceiveFails, Throw, Use, PollMessage, PollDisconnected
  <2>2. CASE UNCHANGED <<pc, op>>
    BY <2>1, <2>2
  <2>3. CASE \E from, to : to # "use" /\ Goto(c, from, to)
    BY <2>1, <2>3 DEF Goto, BusTypeOK
  <2> QED
    BY <1>4, <2>2, <2>3 DEF Application, LibraryStep, Receive, Construct, ConstructFails,
         Destroy, CallGetTopicKey, CallSubscribe, CallPublish, CallPublishKey, Call, TmpConnect,
         TmpConnectFails, TmpRequest, TmpReceiveFails, Throw, Use, PollMessage, PollDisconnected
<1> QED
  BY <1>1, <1>2, <1>3, <1>4, CacheKept DEF BusNext, ServerStep

(* A temporary connection belongs to one call from its connect to its end. *)
LEMMA TemporarySteps ==
  ASSUME BusTypeOK, ClientInv, [BusNext]_busVars, NEW c \in Clients,
         temporary'[c] # NoEndpoint
  PROVE  \/ /\ temporary'[c] = temporary[c] /\ op'[c] = op[c]
            /\ temporary[c] \in Endpoints /\ endpoint[temporary[c]] # "new"
            /\ main[c] # NoEndpoint
         \/ temporary'[c] \in Endpoints /\ endpoint[temporary'[c]] = "new" /\ inq' = inq
<1> USE ENetAssumption DEF BusTypeOK
<1>1. CASE temporary'[c] = temporary[c] /\ op'[c] = op[c]
  <2>1. main[c] # NoEndpoint
    BY <1>1 DEF ClientInv, CallSound
  <2> QED
    BY <1>1, <2>1 DEF ClientInv, HostsSound
<1>2. CASE UNCHANGED clientVars
  BY <1>1, <1>2
<1>3. ASSUME NEW d \in Clients, d # c, Application(d) \/ LibraryStep(d) \/ Receive(d)
      PROVE  temporary'[c] = temporary[c] /\ op'[c] = op[c]
  BY <1>3, OthersStand
<1>4. CASE TmpConnect(c)
  <2>1. PICK e \in Endpoints : Connected(e) /\ temporary' = [temporary EXCEPT ![c] = e]
    BY <1>4 DEF TmpConnect
  <2>2. endpoint[e] = "new" /\ inq' = inq
    BY <2>1 DEF Connected, Connect, HostConnect
  <2> QED
    BY <2>1, <2>2
<1>5. ASSUME NEW from, Throw(c, from) PROVE FALSE
  BY <1>5 DEF Throw
<1>6. CASE TmpReceive(c)
  BY <1>6 DEF TmpReceive
<1>7. CASE Use(c)
  BY <1>7 DEF Use, Goto, ClientInv, CallSound
<1>8. ASSUME NEW kind, NEW t, NEW payload, Call(c, kind, t, payload)
      PROVE  temporary'[c] = temporary[c] /\ op'[c] = op[c]
  BY <1>8 DEF Call, ClientInv, CallSound
<1>9. ASSUME Construct(c) \/ ConstructFails(c) \/ Destroy(c) \/ TmpRequest(c) \/ Receive(c)
      PROVE  temporary'[c] = temporary[c] /\ op'[c] = op[c]
  BY <1>9 DEF Construct, ConstructFails, Destroy, TmpRequest, Receive, PollMessage,
              PollDisconnected
<1>10. ASSUME Application(c) PROVE temporary'[c] = temporary[c] /\ op'[c] = op[c]
  BY <1>8, <1>9, <1>10
     DEF Application, CallGetTopicKey, CallSubscribe, CallPublish, CallPublishKey
<1>11. ASSUME LibraryStep(c), ~TmpConnect(c), ~TmpReceive(c), ~Use(c)
       PROVE  temporary'[c] = temporary[c] /\ op'[c] = op[c]
  BY <1>5, <1>9, <1>11 DEF LibraryStep, TmpConnectFails, TmpReceiveFails
<1> QED
  BY <1>1, <1>2, <1>3, <1>4, <1>6, <1>7, <1>9, <1>10, <1>11 DEF BusNext, ServerStep

LEMMA StepKeepsQuestions ==
  ASSUME BusTypeOK, ClientInv, ResolveInv, FanoutInv, [BusNext]_busVars, NEW c \in Clients
  PROVE  QuestionSound(c)'
<1> USE ENetAssumption
<1> SUFFICES ASSUME NEW p \in Peers, temporary'[c] # NoEndpoint, remote'[p] = temporary'[c],
                    NEW i \in DOMAIN rx'[p], rx'[p][i].type = "topic_request"
             PROVE  rx'[p][i].payload = op'[c].topic
  BY DEF QuestionSound
<1>1. remote[p] = temporary'[c]
  BY BusQueueSteps
<1>2. endpoint[remote[p]] # "new"
  BY <1>1 DEF FanoutInv, LinksSound
<1>3. temporary'[c] = temporary[c] /\ op'[c] = op[c]
  BY <1>1, <1>2, TemporarySteps
<1>4. CASE \E j \in DOMAIN rx[p] : rx'[p][i] = rx[p][j]
  BY <1>1, <1>3, <1>4 DEF ResolveInv, QuestionSound
<1>5. ASSUME NEW d \in Clients, remote[p] = temporary[d],
             rx'[p][i] = topic_request(op[d].topic)
      PROVE  rx'[p][i].payload = op'[c].topic
  <2>1. d = c
    BY <1>1, <1>3, <1>5 DEF ClientInv, HostsSound
  <2> QED
    BY <1>3, <1>5, <2>1 DEF topic_request, construct
<1>6. \A k, m : subscribe(k).type # "topic_request" /\ publish(k, m).type # "topic_request"
  BY DEF subscribe, publish, construct
<1> QED
  BY <1>4, <1>5, <1>6, BusQueueSteps

LEMMA StepKeepsAnswers ==
  ASSUME BusTypeOK, ClientInv, ResolveInv, KeysUnique, RegistryConsistent, FanoutInv,
         [BusNext]_busVars, NEW c \in Clients
  PROVE  AnswerSound(c)'
<1> USE ENetAssumption
<1> DEFINE e == temporary'[c]
<1> SUFFICES ASSUME e # NoEndpoint, NEW i \in DOMAIN inq'[e], inq'[e][i].type = "topic_response"
             PROVE  /\ inq'[e][i].payload = op'[c].topic
                    /\ Fresh(c)' => /\ inq'[e][i].payload \in DOMAIN m_map'
                                    /\ m_map'[inq'[e][i].payload] = inq'[e][i].topic_key
  BY DEF AnswerSound, KnownAs
<1>1. ServerTypeOK /\ [OpenNext]_serverVars
  BY BusStepsAreOpen DEF BusTypeOK
<1>2. CASE e \in Endpoints /\ endpoint[e] = "new" /\ inq' = inq
  BY <1>2 DEF ClientInv, HostsSound
<1>3. CASE /\ e = temporary[c] /\ op'[c] = op[c] /\ temporary[c] \in Endpoints
           /\ main[c] # NoEndpoint
  <2>1. ASSUME NEW j \in DOMAIN inq[e], inq'[e][i] = inq[e][j]
        PROVE  /\ inq'[e][i].payload = op'[c].topic
               /\ Fresh(c)' => /\ inq'[e][i].payload \in DOMAIN m_map'
                               /\ m_map'[inq'[e][i].payload] = inq'[e][i].topic_key
    <3>1. /\ inq[e][j].payload = op[c].topic
          /\ Fresh(c) => KnownAs(inq[e][j].payload, inq[e][j].topic_key)
      BY <1>3, <2>1 DEF ResolveInv, AnswerSound
    <3> QED
      BY <1>3, <2>1, <3>1, FreshSteps DEF KnownAs
  <2>2. ASSUME NEW p \in Peers, OnTopicRequest(p), remote[p] = e,
               inq'[e][i] = topic_response(KeyOf(Head(rx[p]).payload), Head(rx[p]).payload)
        PROVE  /\ inq'[e][i].payload = op'[c].topic
               /\ /\ inq'[e][i].payload \in DOMAIN m_map'
                  /\ m_map'[inq'[e][i].payload] = inq'[e][i].topic_key
    <3>1. 1 \in DOMAIN rx[p] /\ Head(rx[p]) = rx[p][1]
      BY <1>1, <2>2 DEF OnTopicRequest, Receiving, ServerTypeOK, ENetTypeOK
    <3>2. Head(rx[p]).payload = op[c].topic
      BY <1>3, <2>2, <3>1 DEF OnTopicRequest, Receiving, ResolveInv, QuestionSound
    <3>3. get_or_create(Head(rx[p]).payload)
      BY <2>2 DEF OnTopicRequest
    <3>4. /\ inq'[e][i].payload = Head(rx[p]).payload
          /\ inq'[e][i].topic_key = KeyOf(Head(rx[p]).payload)
      BY <2>2 DEF topic_response, construct
    <3> QED
      BY <1>3, <3>2, <3>3, <3>4 DEF get_or_create, KeyOf
  <2>3. \A k, m : fanout(k, m).type # "topic_response"
    BY DEF fanout, construct
  <2>4. e \in Endpoints
    BY <1>3
  <2> HIDE DEF e
  <2> QED
    BY <1>1, <2>1, <2>2, <2>3, <2>4, InboxSteps
<1> QED
  BY <1>2, <1>3, TemporarySteps

-----------------------------------------------------------------------------
(* Subscriptions and fanouts.                                              *)

(* The main connection of a client is the one it had, or a new one to a    *)
(* host that was never used.                                               *)
LEMMA MainSteps ==
  ASSUME BusTypeOK, ClientInv, [BusNext]_busVars, NEW c \in Clients, main'[c] # NoEndpoint
  PROVE  \/ main'[c] = main[c] /\ main[c] \in Endpoints /\ endpoint[main[c]] # "new"
         \/ main'[c] \in Endpoints /\ endpoint[main'[c]] = "new" /\ inq' = inq
<1> USE ENetAssumption DEF BusTypeOK
<1>1. CASE main'[c] = main[c]
  BY <1>1 DEF ClientInv, HostsSound
<1>2. CASE UNCHANGED clientVars
  BY <1>1, <1>2
<1>3. ASSUME NEW d \in Clients, d # c, Application(d) \/ LibraryStep(d) \/ Receive(d)
      PROVE  main'[c] = main[c]
  BY <1>3, OthersStand
<1>4. CASE Construct(c)
  <2>1. PICK e \in Endpoints : Connected(e) /\ main' = [main EXCEPT ![c] = e]
    BY <1>4 DEF Construct
  <2>2. endpoint[e] = "new" /\ inq' = inq
    BY <2>1 DEF Connected, Connect, HostConnect
  <2> QED
    BY <2>1, <2>2
<1>5. ASSUME Application(c) \/ LibraryStep(c) \/ Receive(c), ~Construct(c)
      PROVE  main' = main
  BY <1>5 DEF Application, LibraryStep, Receive, ConstructFails, Destroy, CallGetTopicKey,
       CallSubscribe, CallPublish, CallPublishKey, Call, TmpConnect, TmpConnectFails,
       TmpRequest, TmpReceive, TmpReceiveFails, Throw, Use, PollMessage, PollDisconnected
<1> QED
  BY <1>1, <1>2, <1>3, <1>4, <1>5 DEF BusNext, ServerStep

(* So a slot that is linked to it was so before.                           *)
LEMMA MainLinked ==
  ASSUME BusTypeOK, ClientInv, FanoutInv, [BusNext]_busVars, NEW c \in Clients,
         main'[c] # NoEndpoint, NEW p \in Peers, remote[p] = main'[c]
  PROVE  main'[c] = main[c] /\ main[c] \in Endpoints
BY MainSteps DEF FanoutInv, LinksSound

(* What a client wants it goes on to want, until the server restarts.      *)
LEMMA WantsKept ==
  ASSUME BusTypeOK, ClientInv, KeysUnique, FanoutInv, [BusNext]_busVars, restarts' = restarts,
         NEW c \in Clients, NEW k, Wants(c, k)
  PROVE  Wants(c, k)'
<1>1. PICK t \in wanted[c] : t \in DOMAIN m_map /\ m_map[t] = k /\ t \in DOMAIN m_topic_map[c]
  BY DEF Wants, KnownAs
<1>2. t \in wanted'[c] /\ t \in DOMAIN m_topic_map'[c]
  BY <1>1, HistorySteps
<1>3. t \in DOMAIN m_map' /\ m_map'[t] = k
  BY <1>1, FreshSteps
<1> QED
  BY <1>2, <1>3 DEF Wants, KnownAs

(* A topic with a key is the name of a topic.                              *)
LEMMA IntendedKept ==
  ASSUME BusTypeOK, ClientInv, [BusNext]_busVars, NEW m \in Payloads,
         intended[m] \in DOMAIN m_map \/ \E c \in Clients : intended[m] \in wanted[c]
  PROVE  intended'[m] = intended[m]
<1>1. intended[m] # NoTopic
  BY BusAssumption DEF BusTypeOK, ServerTypeOK, TopicMapTypeOK
<1> QED
  BY <1>1, HistorySteps

(* The keys in the queues.                                                 *)
LEMMA StepKeepsKeysSound ==
  ASSUME BusTypeOK, ClientInv, ResolveInv, KeysSound, KeysUnique, FanoutInv, [BusNext]_busVars
  PROVE  KeysSound'
<1> USE ENetAssumption
<1> SUFFICES ASSUME NEW p \in Peers, NEW i \in DOMAIN rx'[p]
             PROVE  KeySound(p, rx[p][i])'
  BY DEF KeysSound
<1> DEFINE msg == rx'[p][i]
<1>1. ServerTypeOK /\ [OpenNext]_serverVars /\ rx[p] \in Seq(Packets)
  BY BusStepsAreOpen DEF BusTypeOK, ServerTypeOK, ENetTypeOK
<1>2. restarts' = restarts
  BY <1>1, LinkSteps
<1>3. remote'[p] = remote[p] \/ remote'[p] = NoEndpoint
  BY BusQueueSteps
<1>4. ASSUME NEW j \in DOMAIN rx[p], msg = rx[p][j] PROVE KeySound(p, rx[p][i])'
  <2>1. KeySound(p, rx[p][j]) /\ rx[p][j] \in Packets
    BY <1>1 DEF KeysSound
  <2>2. ASSUME msg.type = "publish"
        PROVE  KnownAs(intended[rx[p][i].payload], rx[p][i].topic_key)'
    <3>1. msg.payload \in Payloads /\ KnownAs(intended[msg.payload], msg.topic_key)
      BY <1>4, <2>1, <2>2, PacketFields DEF KeySound
    <3>2. intended'[msg.payload] = intended[msg.payload]
      BY <3>1, IntendedKept DEF KnownAs
    <3> QED
      BY <1>2, <3>1, <3>2, FreshSteps DEF KnownAs
  <2>3. ASSUME msg.type = "subscribe"
        PROVE  /\ \E t \in DOMAIN m_map' : m_map'[t] = msg.topic_key
               /\ \A c \in Clients : main'[c] # NoEndpoint /\ remote'[p] = main'[c] =>
                    Wants(c, rx[p][i].topic_key)'
    <3>1. \E t \in DOMAIN m_map' : m_map'[t] = msg.topic_key
      BY <1>2, <1>4, <2>1, <2>3, FreshSteps DEF KeySound
    <3>2. ASSUME NEW c \in Clients, main'[c] # NoEndpoint, remote'[p] = main'[c]
          PROVE  Wants(c, rx[p][i].topic_key)'
      <4>1. remote[p] = main[c] /\ main[c] # NoEndpoint
        BY <1>3, <3>2, MainLinked
      <4>2. Wants(c, msg.topic_key)
        BY <1>4, <2>1, <2>3, <4>1 DEF KeySound
      <4>3. \E t \in wanted'[c] : /\ t \in DOMAIN m_map' /\ m_map'[t] = msg.topic_key
                                  /\ t \in DOMAIN m_topic_map'[c]
        BY <1>2, <4>2, FreshSteps, HistorySteps DEF Wants, KnownAs
      <4> QED
        BY <4>3 DEF Wants, KnownAs
    <3> QED
      BY <3>1, <3>2
  <2> QED
    BY <2>2, <2>3 DEF KeySound
<1>5. ASSUME NEW c \in Clients, msg = topic_request(op[c].topic)
      PROVE  KeySound(p, rx[p][i])'
  BY <1>5 DEF KeySound, topic_request, construct
<1>6. ASSUME NEW c \in Clients, NEW t \in DOMAIN m_topic_map[c], main[c] \in Endpoints,
             remote[p] = main[c], Fresh(c), t \in wanted'[c],
             msg = subscribe(m_topic_map[c][t]), UNCHANGED m_map
      PROVE  KeySound(p, rx[p][i])'
  <2>1. /\ t \in DOMAIN m_map' /\ m_map'[t] = m_topic_map[c][t]
        /\ t \in DOMAIN m_topic_map'[c]
    BY <1>6, HistorySteps DEF ResolveInv, CacheSound, KnownAs
  <2>2. msg.type = "subscribe" /\ msg.topic_key = m_topic_map[c][t]
    BY <1>6 DEF subscribe, construct
  <2>3. ASSUME NEW d \in Clients, main'[d] # NoEndpoint, remote'[p] = main'[d]
        PROVE  d = c
    <3>1. main[d] = main[c]
      BY <1>3, <1>6, <2>3, MainLinked
    <3> QED
      BY <1>6, <3>1 DEF ClientInv, HostsSound
  <2> QED
    BY <1>6, <2>1, <2>2, <2>3 DEF KeySound, Wants, KnownAs
<1>7. ASSUME NEW c \in Clients, NEW m \in Payloads, NEW t \in DOMAIN m_topic_map[c],
             Fresh(c), intended'[m] = t, msg = publish(m_topic_map[c][t], m), UNCHANGED m_map
      PROVE  KeySound(p, rx[p][i])'
  <2>1. t \in DOMAIN m_map' /\ m_map'[t] = m_topic_map[c][t]
    BY <1>7 DEF ResolveInv, CacheSound, KnownAs
  <2>2. msg.type = "publish" /\ msg.topic_key = m_topic_map[c][t] /\ msg.payload = m
    BY <1>7 DEF publish, construct
  <2> QED
    BY <1>7, <2>1, <2>2 DEF KeySound, KnownAs
<1> HIDE DEF msg
<1> QED
  BY <1>4, <1>5, <1>6, <1>7, BusQueueSteps DEF msg

(* The keys in the records.                                                *)
LEMMA StepKeepsSubscriptions ==
  ASSUME BusTypeOK, ClientInv, KeysSound, SubscriptionsSound, KeysUnique, RegistryConsistent,
         FanoutInv, [BusNext]_busVars
  PROVE  SubscriptionsSound'
<1> USE ENetAssumption
<1> SUFFICES ASSUME NEW a \in live', NEW c \in Clients, main'[c] # NoEndpoint,
                    remote'[client'[a].m_peer] = main'[c],
                    NEW k \in client'[a].subscribed_topics
             PROVE  Wants(c, k)'
  BY DEF SubscriptionsSound
<1> DEFINE p == client[a].m_peer
<1>1. ServerTypeOK /\ [OpenNext]_serverVars
  BY BusStepsAreOpen DEF BusTypeOK
<1>2. /\ a \in live /\ client'[a].m_peer = p
      /\ k \notin client[a].subscribed_topics =>
           rx[p] # <<>> /\ Head(rx[p]).type = "subscribe" /\ k = Head(rx[p]).topic_key
  BY <1>1, RecordSteps
<1>3. p \in Peers /\ peer_state[p] = "connected"
  BY <1>2 DEF RegistryConsistent
<1> HIDE DEF p
<1>4. remote[p] = main'[c] /\ restarts' = restarts
  BY <1>1, <1>2, <1>3, LinkSteps
<1>5. main'[c] = main[c] /\ main[c] # NoEndpoint
  BY <1>3, <1>4, MainLinked
<1>6. CASE k \in client[a].subscribed_topics
  <2>1. Wants(c, k)
    BY <1>2, <1>4, <1>5, <1>6 DEF SubscriptionsSound, p
  <2> QED
    BY <1>4, <2>1, WantsKept
<1>7. CASE k \notin client[a].subscribed_topics
  <2>1. 1 \in DOMAIN rx[p] /\ Head(rx[p]) = rx[p][1]
    BY <1>1, <1>2, <1>3, <1>7 DEF ServerTypeOK, ENetTypeOK
  <2>2. Wants(c, k)
    BY <1>2, <1>3, <1>4, <1>5, <1>7, <2>1 DEF KeysSound, KeySound
  <2> QED
    BY <1>4, <2>2, WantsKept
<1> QED
  BY <1>6, <1>7

(* A publish is forwarded to clients that want its topic.                  *)
LEMMA PublishWanted ==
  ASSUME BusTypeOK, KeysSound, SubscriptionsSound, KeysUnique, RegistryConsistent,
         NEW p \in Peers, Receiving(p, "publish"), NEW c \in Clients, main[c] # NoEndpoint,
         NEW a \in FanoutTargets(peer_data[p], Head(rx[p]).topic_key),
         remote[client[a].m_peer] = main[c]
  PROVE  LET msg == Head(rx[p]) IN
           /\ msg.payload \in Payloads
           /\ KnownAs(intended[msg.payload], msg.topic_key)
           /\ intended[msg.payload] \in wanted[c]
           /\ intended[msg.payload] \in DOMAIN m_topic_map[c]
<1> DEFINE msg == Head(rx[p])
<1>1. /\ rx[p] \in Seq(Packets) /\ rx[p] # <<>> /\ msg.type = "publish"
      /\ 1 \in DOMAIN rx[p] /\ msg = rx[p][1] /\ msg \in Packets
  BY DEF Receiving, BusTypeOK, ServerTypeOK, ENetTypeOK
<1>2. msg.payload \in Payloads
  BY <1>1, PacketFields
<1>3. KnownAs(intended[msg.payload], msg.topic_key)
  BY <1>1 DEF KeysSound, KeySound
<1>4. a \in live /\ msg.topic_key \in client[a].subscribed_topics
  BY DEF FanoutTargets, RegistryConsistent
<1>5. PICK t \in wanted[c] : KnownAs(t, msg.topic_key) /\ t \in DOMAIN m_topic_map[c]
  BY <1>4 DEF SubscriptionsSound, Wants
<1>6. t = intended[msg.payload]
  BY <1>3, <1>5 DEF KnownAs, KeysUnique
<1> QED
  BY <1>2, <1>3, <1>5, <1>6

LEMMA StepKeepsFanoutsSound ==
  ASSUME BusTypeOK, ClientInv, KeysSound, SubscriptionsSound, FanoutsSound, KeysUnique,
         RegistryConsistent, FanoutInv, [BusNext]_busVars
  PROVE  FanoutsSound'
<1> USE ENetAssumption
<1> SUFFICES ASSUME NEW c \in Clients, main'[c] # NoEndpoint, NEW i \in DOMAIN inq'[main'[c]],
                    inq'[main'[c]][i].type = "fanout"
             PROVE  LET m == inq'[main'[c]][i].payload IN
                      /\ intended'[m] \in wanted'[c]
                      /\ restarts' = 0 =>
                           /\ intended'[m] \in DOMAIN m_map'
                           /\ m_map'[intended'[m]] = inq'[main'[c]][i].topic_key
                           /\ intended'[m] \in DOMAIN m_topic_map'[c]
  BY DEF FanoutsSound, FanoutSound, KnownAs
<1> DEFINE msg == inq'[main'[c]][i]
           m == msg.payload
<1>1. ServerTypeOK /\ [OpenNext]_serverVars
  BY BusStepsAreOpen DEF BusTypeOK
<1>2. restarts' = 0 => restarts' = restarts /\ restarts = 0
  BY <1>1, LinkSteps DEF ServerTypeOK
<1>3. CASE main'[c] \in Endpoints /\ endpoint[main'[c]] = "new" /\ inq' = inq
  BY <1>3 DEF ClientInv, HostsSound
<1>4. CASE main'[c] = main[c] /\ main[c] \in Endpoints
  <2>1. ASSUME m \in Payloads, intended[m] \in wanted[c],
               restarts = 0 =>
                 /\ KnownAs(intended[m], msg.topic_key) /\ intended[m] \in DOMAIN m_topic_map[c]
        PROVE  /\ intended'[m] \in wanted'[c]
               /\ restarts' = 0 =>
                    /\ intended'[m] \in DOMAIN m_map'
                    /\ m_map'[intended'[m]] = msg.topic_key
                    /\ intended'[m] \in DOMAIN m_topic_map'[c]
    <3>1. intended'[m] = intended[m]
      BY <2>1, IntendedKept
    <3> HIDE DEF m, msg
    <3> QED
      BY <1>2, <2>1, <3>1, HistorySteps, FreshSteps DEF KnownAs
  <2>2. ASSUME NEW j \in DOMAIN inq[main[c]], msg = inq[main[c]][j]
        PROVE  /\ m \in Payloads /\ intended[m] \in wanted[c]
               /\ restarts = 0 =>
                    KnownAs(intended[m], msg.topic_key) /\ intended[m] \in DOMAIN m_topic_map[c]
    <3>1. inq[main[c]][j] \in Packets
      BY <1>1, <1>4 DEF ServerTypeOK, ENetTypeOK
    <3>2. m \in Payloads
      BY <2>2, <3>1 DEF Packets
    <3>3. FanoutSound(c, inq[main[c]][j])
      BY <1>4 DEF FanoutsSound
    <3> QED
      BY <2>2, <3>2, <3>3 DEF FanoutSound
  <2>3. ASSUME NEW p \in Peers, OnPublish(p),
               msg = fanout(Head(rx[p]).topic_key, Head(rx[p]).payload),
               NEW a \in FanoutTargets(peer_data[p], Head(rx[p]).topic_key),
               remote[client[a].m_peer] = main[c]
        PROVE  /\ m \in Payloads /\ intended[m] \in wanted[c]
               /\ KnownAs(intended[m], msg.topic_key) /\ intended[m] \in DOMAIN m_topic_map[c]
    <3>1. m = Head(rx[p]).payload /\ msg.topic_key = Head(rx[p]).topic_key
      BY <2>3 DEF fanout, construct
    <3>2. Receiving(p, "publish")
      BY <2>3 DEF OnPublish
    <3> HIDE DEF m, msg
    <3> QED
      BY <1>4, <2>3, <3>1, <3>2, PublishWanted
  <2>4. \A k, t : topic_response(k, t).type # "fanout"
    BY DEF topic_response, construct
  <2>5. \/ \E j \in DOMAIN inq[main[c]] : msg = inq[main[c]][j]
        \/ \E p \in Peers :
             /\ OnPublish(p) /\ msg = fanout(Head(rx[p]).topic_key, Head(rx[p]).payload)
             /\ \E a \in FanoutTargets(peer_data[p], Head(rx[p]).topic_key) :
                  remote[client[a].m_peer] = main[c]
    BY <1>1, <1>4, <2>4, InboxSteps
  <2> QED
    BY <2>1, <2>2, <2>3, <2>5
<1> QED
  BY <1>3, <1>4, MainSteps

-----------------------------------------------------------------------------
(* Deliveries.                                                             *)

LEMMA ElementOf ==
  ASSUME NEW S, NEW s \in Seq(S), NEW i \in DOMAIN s
  PROVE  s[i] \in S
OBVIOUS

(* The callbacks that were run were run rightly, and stay so.              *)
LEMMA DeliveriesKept ==
  ASSUME BusTypeOK, ClientInv, FanoutInv, DeliverySound, LabelsTrueSinceStart,
         [BusNext]_busVars, delivered' = delivered
  PROVE  DeliverySound' /\ LabelsTrueSinceStart'
<1>1. ServerTypeOK /\ [OpenNext]_serverVars
  BY BusStepsAreOpen DEF BusTypeOK
<1>2. restarts' = 0 => restarts = 0
  BY <1>1, LinkSteps DEF ServerTypeOK
<1>3. ASSUME NEW c \in Clients, NEW i \in DOMAIN delivered[c]
      PROVE  LET m == delivered[c][i].payload IN
               /\ m \in Payloads /\ intended'[m] = intended[m] /\ author'[m] = author[m]
               /\ main'[c] = main[c]
  <2> DEFINE m == delivered[c][i].payload
  <2>1. delivered[c] \in Seq([payload: Payloads, topic: Topics \cup {NoTopic}])
    BY DEF BusTypeOK
  <2>2. m \in Payloads
    <3>1. delivered[c][i] \in [payload: Payloads, topic: Topics \cup {NoTopic}]
      BY <1>3, <2>1, ElementOf
    <3> QED
      BY <3>1
  <2>3. intended[m] \in wanted[c] /\ author[m] # NoEndpoint
    BY DEF DeliverySound
  <2>4. main[c] # NoEndpoint
    BY <1>3, <2>1 DEF ClientInv, CallSound
  <2> HIDE DEF m
  <2>5. intended'[m] = intended[m] /\ author'[m] = author[m] /\ main'[c] = main[c]
    BY <1>1, <2>2, <2>3, <2>4, IntendedKept, LinkSteps, HistorySteps
  <2> QED
    BY <2>2, <2>5 DEF m
<1>4. DeliverySound'
  BY <1>3, HistorySteps DEF DeliverySound
<1>5. LabelsTrueSinceStart'
  BY <1>2, <1>3 DEF LabelsTrueSinceStart, LabelsTrue
<1> QED
  BY <1>4, <1>5

(* The fanout at the head of a client's inbox, when it is given to the     *)
(* callback: it is wanted, of another client, new and rightly labelled.    *)
LEMMA HeadDeliverable ==
  ASSUME BusTypeOK, ClientInv, ResolveInv, FanoutsSound, DeliveredOnce, FanoutInv,
         NEW c \in Clients, main[c] \in Endpoints, inq[main[c]] # <<>>,
         Head(inq[main[c]]).type = "fanout"
  PROVE  LET m == Head(inq[main[c]]).payload IN
           /\ m \in Payloads /\ intended[m] \in wanted[c]
           /\ author[m] # NoEndpoint /\ author[m] # main[c]
           /\ \A j \in DOMAIN delivered[c] : delivered[c][j].payload # m
           /\ restarts = 0 => Label(c, Head(inq[main[c]]).topic_key) = intended[m]
<1> DEFINE msg == Head(inq[main[c]])
           m == msg.payload
<1>1. /\ inq[main[c]] \in Seq(Packets) /\ msg \in Packets
      /\ 1 \in DOMAIN inq[main[c]] /\ msg = inq[main[c]][1]
  BY DEF BusTypeOK, ServerTypeOK, ENetTypeOK
<1>2. m \in Payloads
  BY <1>1 DEF Packets
<1>3. FanoutSound(c, inq[main[c]][1])
  BY <1>1, ENetAssumption DEF FanoutsSound
<1>4. intended[m] \in wanted[c]
  BY <1>1, <1>3 DEF FanoutSound
<1>5. author[m] \in Endpoints \ {main[c]}
  BY <1>1 DEF FanoutInv, InboxesSound, InboxSound
<1>6. \A j \in DOMAIN delivered[c] : delivered[c][j].payload # m
  BY <1>1, ENetAssumption DEF DeliveredOnce, IsFanout
<1>7. ASSUME restarts = 0 PROVE Label(c, msg.topic_key) = intended[m]
  <2>1. KnownAs(intended[m], msg.topic_key) /\ intended[m] \in DOMAIN m_topic_map[c]
    BY <1>1, <1>3, <1>7 DEF FanoutSound
  <2>2. Fresh(c) /\ CacheSound(c)
    BY <1>7 DEF Fresh, ResolveInv
  <2> HIDE DEF m, msg
  <2>3. m_topic_map[c][intended[m]] = msg.topic_key
    BY <2>1, <2>2 DEF CacheSound, KnownAs
  <2> QED
    BY <2>1, <2>2, <2>3 DEF CacheSound, Label
<1> QED
  BY <1>2, <1>4, <1>5, <1>6, <1>7, ENetAssumption

LEMMA PollDelivers ==
  ASSUME BusTypeOK, ClientInv, ResolveInv, FanoutsSound, DeliverySound, DeliveredOnce,
         LabelsTrueSinceStart, FanoutInv, NEW c \in Clients, PollMessage(c),
         Head(inq[main[c]]).type = "fanout"
  PROVE  DeliverySound' /\ LabelsTrueSinceStart'
<1> DEFINE msg == Head(inq[main[c]])
           new == [payload |-> msg.payload, topic |-> Label(c, msg.topic_key)]
           old == delivered[c]
<1>1. main[c] \in Endpoints
  BY InUse DEF PollMessage
<1>2. inq[main[c]] # <<>>
  BY DEF PollMessage, Poll, HostReceive
<1>3. /\ msg.payload \in Payloads /\ intended[msg.payload] \in wanted[c]
      /\ author[msg.payload] # NoEndpoint /\ author[msg.payload] # main[c]
      /\ \A j \in DOMAIN delivered[c] : delivered[c][j].payload # msg.payload
      /\ restarts = 0 => Label(c, msg.topic_key) = intended[msg.payload]
  BY <1>1, <1>2, HeadDeliverable
<1>4. /\ delivered' = [delivered EXCEPT ![c] = Append(@, new)]
      /\ UNCHANGED <<clientVars, ops, intended, wanted, restarts, author>>
  BY DEF PollMessage, Poll, Untouched
<1>5. new \in [payload: Payloads, topic: Topics \cup {NoTopic}]
      /\ new.payload = msg.payload /\ new.topic = Label(c, msg.topic_key)
  BY <1>3 DEF Label, BusTypeOK
<1>6. /\ delivered'[c] = Append(old, new)
      /\ \A d \in Clients \ {c} : delivered'[d] = delivered[d]
  BY <1>4 DEF BusTypeOK
<1>7. old \in Seq([payload: Payloads, topic: Topics \cup {NoTopic}])
  BY DEF BusTypeOK
<1> HIDE DEF new, msg, old
<1>8. \A i \in DOMAIN delivered'[c] :
        \/ i \in DOMAIN old /\ delivered'[c][i] = old[i]
        \/ i = Len(old) + 1 /\ delivered'[c][i] = new
  BY <1>5, <1>6, <1>7, InAppend
<1>9. DeliverySound'
  <2>1. SUFFICES ASSUME NEW d \in Clients, NEW i \in DOMAIN delivered'[d]
                 PROVE  LET m == delivered'[d][i].payload IN
                          /\ intended'[m] \in wanted'[d]
                          /\ author'[m] # NoEndpoint /\ author'[m] # main'[d]
                          /\ \A j \in DOMAIN delivered'[d] : delivered'[d][j].payload = m => i = j
    BY DEF DeliverySound
  <2>2. CASE d # c
    BY <1>4, <1>6, <2>2 DEF DeliverySound
  <2>3. CASE d = c
    <3>1. \A j \in DOMAIN old : LET m == old[j].payload IN
            /\ intended[m] \in wanted[c] /\ author[m] # NoEndpoint /\ author[m] # main[c]
            /\ m # msg.payload
            /\ \A k \in DOMAIN old : old[k].payload = m => j = k
      BY <1>3 DEF DeliverySound, old
    <3> QED
      BY <1>3, <1>4, <1>5, <1>8, <2>3, <3>1
  <2> QED
    BY <2>2, <2>3
<1>10. LabelsTrueSinceStart'
  BY <1>3, <1>4, <1>5, <1>6, <1>8 DEF LabelsTrueSinceStart, LabelsTrue, old
<1> QED
  BY <1>9, <1>10

(* A payload that was delivered does not come back.                        *)
LEMMA DeliveredStays ==
  ASSUME BusTypeOK, ClientInv, ResolveInv, DeliverySound, DeliveredOnce, RegistryConsistent,
         FanoutInv, [BusNext]_busVars, NEW c \in Clients, NEW i \in DOMAIN delivered[c]
  PROVE  LET m == delivered[c][i].payload IN
           /\ \A p \in Peers : \A j \in DOMAIN rx'[p] :
                ~(rx'[p][j].type = "publish" /\ rx'[p][j].payload = m)
           /\ main'[c] # NoEndpoint => \A j \in DOMAIN inq'[main'[c]] :
                ~(inq'[main'[c]][j].type = "fanout" /\ inq'[main'[c]][j].payload = m)
<1> USE ENetAssumption DEF IsPublish, IsFanout
<1> DEFINE m == delivered[c][i].payload
<1>1. ServerTypeOK /\ [OpenNext]_serverVars
  BY BusStepsAreOpen DEF BusTypeOK
<1>2. /\ \A p \in Peers : \A j \in DOMAIN rx[p] : ~IsPublish(rx[p][j], m)
      /\ main[c] # NoEndpoint => \A j \in DOMAIN inq[main[c]] : ~IsFanout(inq[main[c]][j], m)
      /\ author[m] # NoEndpoint
  BY DEF DeliveredOnce, DeliverySound
<1>3. main[c] # NoEndpoint /\ main'[c] = main[c] /\ main[c] \in Endpoints
  <2>1. delivered[c] # <<>>
    BY DEF BusTypeOK
  <2> QED
    BY <2>1, HistorySteps DEF ClientInv, CallSound, BusTypeOK
<1> HIDE DEF m
<1>4. ASSUME NEW p \in Peers, NEW j \in DOMAIN rx'[p], rx'[p][j].type = "publish",
             rx'[p][j].payload = m
      PROVE  FALSE
  <2>1. \A k, t, n : /\ subscribe(k).type # "publish" /\ topic_request(t).type # "publish"
                     /\ publish(k, n).payload = n
    BY DEF subscribe, topic_request, publish, construct
  <2> QED
    BY <1>2, <1>4, <2>1, BusQueueSteps
<1>5. ASSUME NEW j \in DOMAIN inq'[main[c]], inq'[main[c]][j].type = "fanout",
             inq'[main[c]][j].payload = m
      PROVE  FALSE
  <2>1. \A k, t : topic_response(k, t).type # "fanout" /\ fanout(k, t).payload = t
    BY DEF topic_response, fanout, construct
  <2>2. CASE \E k \in DOMAIN inq[main[c]] : inq'[main[c]][j] = inq[main[c]][k]
    BY <1>2, <1>3, <1>5, <2>2
  <2>3. ASSUME NEW p \in Peers, OnPublish(p),
               inq'[main[c]][j] = fanout(Head(rx[p]).topic_key, Head(rx[p]).payload)
        PROVE  FALSE
    <3>1. 1 \in DOMAIN rx[p] /\ Head(rx[p]) = rx[p][1] /\ rx[p][1].type = "publish"
      BY <1>1, <2>3 DEF OnPublish, Receiving, ServerTypeOK, ENetTypeOK
    <3>2. rx[p][1].payload = m
      BY <1>5, <2>1, <2>3, <3>1
    <3> QED
      BY <1>2, <3>1, <3>2
  <2> QED
    BY <1>1, <1>3, <1>5, <2>1, <2>2, <2>3, InboxSteps
<1> QED
  BY <1>3, <1>4, <1>5 DEF m

LEMMA StepKeepsDelivered ==
  ASSUME BusTypeOK, ClientInv, ResolveInv, DeliverySound, DeliveredOnce, AtMostOnce,
         RegistryConsistent, FanoutInv, [BusNext]_busVars,
         \/ delivered' = delivered
         \/ \E d \in Clients : PollMessage(d) /\ Head(inq[main[d]]).type = "fanout"
  PROVE  DeliveredOnce'
<1> USE ENetAssumption DEF IsPublish, IsFanout
<1>1. CASE delivered' = delivered
  BY <1>1, DeliveredStays DEF DeliveredOnce
<1>2. ASSUME NEW d \in Clients, PollMessage(d), Head(inq[main[d]]).type = "fanout"
      PROVE  DeliveredOnce'
  <2> DEFINE msg == Head(inq[main[d]])
             new == [payload |-> msg.payload, topic |-> Label(d, msg.topic_key)]
             old == delivered[d]
  <2>1. main[d] \in Endpoints /\ main' = main
    BY <1>2, InUse DEF PollMessage
  <2>2. /\ inq[main[d]] # <<>> /\ inq[main[d]] \in Seq(Packets) /\ rx' = rx
        /\ inq'[main[d]] = Tail(inq[main[d]])
    BY <1>2, <2>1 DEF PollMessage, Poll, HostReceive, BusTypeOK, ServerTypeOK, ENetTypeOK
  <2>3. 1 \in DOMAIN inq[main[d]] /\ msg = inq[main[d]][1] /\ msg \in Packets
    BY <2>2
  <2>4. msg.payload \in Payloads
    BY <1>2, <2>3 DEF Packets
  <2>5. /\ delivered' = [delivered EXCEPT ![d] = Append(@, new)]
    BY <1>2 DEF PollMessage
  <2>6. new \in [payload: Payloads, topic: Topics \cup {NoTopic}] /\ new.payload = msg.payload
    BY <2>4 DEF Label, BusTypeOK
  <2>7. /\ delivered'[d] = Append(old, new)
        /\ \A c \in Clients \ {d} : delivered'[c] = delivered[c]
    BY <2>5 DEF BusTypeOK
  <2>8. old \in Seq([payload: Payloads, topic: Topics \cup {NoTopic}])
    BY DEF BusTypeOK
  <2>9. /\ \A p \in Peers : \A j \in DOMAIN rx[p] : ~IsPublish(rx[p][j], msg.payload)
        /\ \A j \in DOMAIN inq[main[d]] : IsFanout(inq[main[d]][j], msg.payload) => j = 1
    BY <1>2, <2>1, <2>3, <2>4 DEF AtMostOnce, NotBoth, FanoutOnce
  <2>10. \A j \in DOMAIN inq'[main[d]] : ~IsFanout(inq'[main[d]][j], msg.payload)
    <3>1. TAKE j \in DOMAIN inq'[main[d]]
    <3>2. /\ j + 1 \in DOMAIN inq[main[d]] /\ j + 1 # 1
          /\ inq'[main[d]][j] = inq[main[d]][j + 1]
      BY <2>2, <3>1, InTail
    <3> QED
      BY <2>9, <3>2
  <2> HIDE DEF new, msg, old
  <2>11. \A i \in DOMAIN delivered'[d] :
           \/ i \in DOMAIN old /\ delivered'[d][i] = old[i]
           \/ i = Len(old) + 1 /\ delivered'[d][i] = new
    BY <2>6, <2>7, <2>8, InAppend
  <2>12. SUFFICES ASSUME NEW c \in Clients, NEW i \in DOMAIN delivered'[c]
                  PROVE  LET m == delivered'[c][i].payload IN
           /\ \A p \in Peers : \A j \in DOMAIN rx'[p] :
                ~(rx'[p][j].type = "publish" /\ rx'[p][j].payload = m)
           /\ main'[c] # NoEndpoint => \A j \in DOMAIN inq'[main'[c]] :
                ~(inq'[main'[c]][j].type = "fanout" /\ inq'[main'[c]][j].payload = m)
    BY DEF DeliveredOnce
  <2>13. CASE \E j \in DOMAIN delivered[c] : delivered'[c][i] = delivered[c][j]
    BY <2>13, DeliveredStays
  <2>14. CASE c = d /\ delivered'[c][i] = new
    BY <2>1, <2>2, <2>6, <2>9, <2>10, <2>14
  <2> QED
    BY <2>7, <2>11, <2>13, <2>14 DEF old
<1> QED
  BY <1>1, <1>2

-----------------------------------------------------------------------------
(* The theorems.                                                           *)

(* The invariants of module Server that a step of the bus relies on.       *)
ServerInv == KeysUnique /\ RegistryConsistent /\ FanoutInv /\ AtMostOnce

BusInv == BusTypeOK /\ ServerInv /\ ClientInv /\ ResolveInv /\ DeliveryInv

LEMMA InitBusInv == BusInit => BusInv
<1> SUFFICES ASSUME BusInit PROVE BusInv
  OBVIOUS
<1> USE BusAssumption, ENetAssumption
<1>1. ServerInit
  BY DEF BusInit
<1>2. /\ \A c \in Clients : pc[c] = "none" /\ main[c] = NoEndpoint /\ temporary[c] = NoEndpoint
      /\ \A c \in Clients : delivered[c] = <<>>
      /\ \A c \in Clients : DOMAIN m_topic_map[c] = {} /\ DOMAIN m_inverse_topic_map[c] = {}
      /\ \A p \in Peers : rx[p] = <<>>
      /\ \A e \in Endpoints : inq[e] = <<>>
      /\ live = {}
  BY <1>1 DEF BusInit, ServerInit, ENetInit, RegistryInit, NoTopics
<1>3. BusTypeOK
  BY <1>1, InitTyped DEF BusInit, BusTypeOK, PcStates, NoOp, Kinds, NoTopics
<1>4. KeysUnique /\ RegistryConsistent
  BY <1>1 DEF ServerInit, ENetInit, RegistryInit, NoClients, RegistryConsistent, TopicMapInit,
              NoTopics, KeysUnique
<1>5. FanoutInv /\ AtMostOnce
  BY <1>1, <1>2, InitFanout DEF AtMostOnce, PublishOnce, NotBoth, FanoutOnce
<1>6. ClientInv
  BY <1>2 DEF ClientInv, CallSound, InCall, HostsSound
<1>7. ResolveInv
  BY <1>2 DEF ResolveInv, CacheSound, QuestionSound, AnswerSound
<1>8. DeliveryInv
  BY <1>2 DEF DeliveryInv, KeysSound, SubscriptionsSound, FanoutsSound, DeliverySound,
              DeliveredOnce, LabelsTrueSinceStart, LabelsTrue
<1> QED
  BY <1>3, <1>4, <1>5, <1>6, <1>7, <1>8 DEF BusInv, ServerInv

(* Only process and poll run the callback.                                 *)
LEMMA DeliverySteps ==
  ASSUME [BusNext]_busVars
  PROVE  \/ delivered' = delivered
         \/ \E c \in Clients : PollMessage(c) /\ Head(inq[main[c]]).type = "fanout"
<1>1. UNCHANGED busVars \/ ServerStep => delivered' = delivered
  BY DEF ServerStep
<1>2. ASSUME NEW c \in Clients, Application(c) PROVE delivered' = delivered
  BY <1>2 DEF Application, Construct, ConstructFails, Destroy, CallGetTopicKey, CallSubscribe,
              CallPublish, CallPublishKey, Call
<1>3. ASSUME NEW c \in Clients, LibraryStep(c) PROVE delivered' = delivered
  BY <1>3 DEF LibraryStep, TmpConnect, TmpConnectFails, TmpRequest, TmpReceive,
              TmpReceiveFails, Throw, Use
<1>4. ASSUME NEW c \in Clients, Receive(c), delivered' # delivered
      PROVE  PollMessage(c) /\ Head(inq[main[c]]).type = "fanout"
  BY <1>4 DEF Receive, PollMessage, PollDisconnected
<1> QED
  BY <1>1, <1>2, <1>3, <1>4 DEF BusNext

LEMMA StepKeepsBusInv ==
  ASSUME BusInv, [BusNext]_busVars
  PROVE  BusInv'
<1> USE DEF BusInv, ServerInv, DeliveryInv
<1>1. ServerTypeOK /\ [OpenNext]_serverVars
  BY BusStepsAreOpen DEF BusTypeOK
<1>2. BusTypeOK'
  BY BusStepTyped
<1>3. ServerInv'
  BY <1>1, StepKeepsKeys, StepKeepsRegistry, StepKeepsFanout, StepKeepsOnce
<1>4. ClientInv'
  BY StepKeepsCalls, StepKeepsHosts DEF ClientInv
<1>5. ResolveInv'
  BY StepKeepsCaches, StepKeepsQuestions, StepKeepsAnswers DEF ResolveInv
<1>6. KeysSound' /\ SubscriptionsSound' /\ FanoutsSound'
  BY StepKeepsKeysSound, StepKeepsSubscriptions, StepKeepsFanoutsSound
<1>7. DeliverySound' /\ LabelsTrueSinceStart'
  BY DeliverySteps, DeliveriesKept, PollDelivers
<1>8. DeliveredOnce'
  BY DeliverySteps, StepKeepsDelivered
<1> QED
  BY <1>2, <1>3, <1>4, <1>5, <1>6, <1>7, <1>8

(* The conjunction holds throughout: types, the server's own invariants,   *)
(* caches and calls that resolve topics, the keys of packets on their way  *)
(* and what has been delivered.                                            *)
THEOREM BusInvariant == BusSpec => []BusInv
BY InitBusInv, StepKeepsBusInv, PTL DEF BusSpec

(* The state of the bus is well typed in every reachable state.            *)
THEOREM BusTypeCorrect == BusSpec => []BusTypeOK
BY BusInvariant, PTL DEF BusInv

(* A publish or a subscribe that waits at a server carries a key of that   *)
(* very server, and the publish the one of the topic its application       *)
(* named, although clients keep keys for ever and every restart hands out  *)
(* new ones.                                                               *)
THEOREM KeysAreOfTheirServer == BusSpec => []KeysMeanTheirTopic
<1>1. BusInv => KeysMeanTheirTopic
  BY DEF BusInv, DeliveryInv, KeysSound, KeySound, KnownAs, KeysMeanTheirTopic
<1> QED
  BY <1>1, BusInvariant, PTL

(* Until the server restarts the two caches of every client are inverse to *)
(* each other and agree with the server, whatever calls resolve topics,    *)
(* time out or run beside each other.                                      *)
THEOREM CachesAreCoherent == BusSpec => []CachesCoherent
<1>1. BusInv => CachesCoherent
  BY DEF BusInv, ResolveInv, CacheSound, Fresh, KnownAs, CachesCoherent
<1> QED
  BY <1>1, BusInvariant, PTL

(* A callback gets only payloads published to a topic its client           *)
(* subscribed to, by another client, and each at most once.                *)
THEOREM DeliveriesAreSound == BusSpec => []DeliverySound
BY BusInvariant, PTL DEF BusInv, DeliveryInv

(* Until the server restarts every callback is given the name the payload  *)
(* was published to, never "unknown" and never another one.                *)
THEOREM LabelsAreTrueSinceStart == BusSpec => []LabelsTrueSinceStart
BY BusInvariant, PTL DEF BusInv, DeliveryInv

(* The registry of the server stays consistent and its fanouts wanted when *)
(* the real clients drive it.                                              *)
THEOREM ServerHoldsInBus ==
  BusSpec => [](KeysUnique /\ RegistryConsistent /\ FanoutWanted /\ AtMostOnce)
<1>1. BusInv => KeysUnique /\ RegistryConsistent /\ FanoutWanted /\ AtMostOnce
  BY ENetAssumption
     DEF BusInv, ServerInv, FanoutInv, InboxesSound, InboxSound, FanoutWanted
<1> QED
  BY <1>1, BusInvariant, PTL

(* The bus is one of the environments module Server allows, once that is   *)
(* given all the keys a header can carry.                                  *)
THEOREM BusUsesServer ==
  ASSUME Keys = Nat
  PROVE  BusSpec => UsesServer
<1>1. BusInit => ServerInit
  BY DEF BusInit
<1>2. ASSUME BusInv, [BusNext]_busVars PROVE [ServerNext]_serverVars
  <2>1. CASE [QuietNext]_serverVars
    BY <2>1 DEF QuietNext, ServerNext, Environment
  <2>2. ASSUME NEW e \in Endpoints, NEW packet \in ClientPackets, Send(e, packet)
        PROVE  ServerNext
    BY <2>2 DEF ServerNext, Environment
  <2>3. /\ \A t \in Topics : topic_request(t) \in ClientPackets
        /\ \A key \in Nat : subscribe(key) \in ClientPackets
        /\ \A key \in Nat, m \in Payloads : publish(key, m) \in ClientPackets
    BY DEF ClientPackets
  <2>4. ASSUME NEW c \in Clients, TmpRequest(c) PROVE ServerNext
    <3>1. temporary[c] \in Endpoints /\ op[c].topic \in Topics
      BY <1>2, <2>4, InUse DEF BusInv, TmpRequest, Goto, InCall
    <3> QED
      BY <2>2, <2>3, <2>4, <3>1 DEF TmpRequest
  <2>5. ASSUME NEW c \in Clients, NEW t \in Topics, NEW key \in Nat, main[c] \in Endpoints,
               SendsFor(c, t, key)
        PROVE  ServerNext
    BY <2>2, <2>3, <2>5 DEF SendsFor
  <2> QED
    BY <1>2, <2>1, <2>4, <2>5, BusSends DEF BusInv
<1> QED
  BY <1>1, <1>2, BusInvariant, PTL DEF BusSpec, UsesServer, ServerSpec
=============================================================================
