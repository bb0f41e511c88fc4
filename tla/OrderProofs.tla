---------------------------- MODULE OrderProofs -----------------------------
(***************************************************************************)
(* The order of deliveries in module Bus, for every number of clients,     *)
(* topics, calls, slots, hosts and restarts: what a client publishes to a  *)
(* topic reaches a subscriber in the order of the calls and, from the      *)
(* first that reaches it to the last, without gaps.                        *)
(***************************************************************************)
EXTENDS BusProofs

USE DEF enetVars, topicMapVars, registryVars, historyVars, serverVars,
        clientVars, ghostVars, busVars

-----------------------------------------------------------------------------
(* The inductive invariant.                                                *)

(* Queue s holds a packet of this type with payload m.                     *)
Holds(s, type, m) == \E i \in DOMAIN s : s[i].type = type /\ s[i].payload = m

(* Payload m waits at the server; it waits for the callback of client c;   *)
(* it was forwarded to c, whether the callback has run or not.             *)
Waiting(m) == \E p \in Peers : Holds(rx[p], "publish", m)
Fanned(c, m) == main[c] # NoEndpoint /\ Holds(inq[main[c]], "fanout", m)
Reached(c, m) == Got(c, m) \/ Fanned(c, m)

(* Payload m did not and will not reach the server's code: the link of its *)
(* author is down and what still waits there was sent before it.           *)
Lost(m) ==
  /\ ~Linked(author[m])
  /\ \A k \in Payloads : Waiting(k) /\ author[k] = author[m] => k < m

(* Two payloads of one author; of one author and one topic.                *)
SameAuthor(m, n) == author[m] # NoEndpoint /\ author[m] = author[n]
SameStream(m, n) == SameAuthor(m, n) /\ intended[m] = intended[n]

(* A payload that was sent had been given to a publish call, and its       *)
(* author had connected; the one a call in progress is about to send is    *)
(* later than all its client has sent.                                     *)
SentSound ==
  /\ \A m \in Payloads : author[m] # NoEndpoint =>
       intended[m] # NoTopic /\ author[m] \in Endpoints /\ endpoint[author[m]] # "new"
  /\ \A c \in Clients : InCall(c) /\ op[c].kind = "publish" =>
       \A m \in Payloads : author[m] = main[c] => m < op[c].payload

(* The packets of one type in queue s are in the order they were sent in.  *)
InOrder(s, type, writer) ==
  \A i, j \in DOMAIN s :
    /\ i < j /\ s[i].type = type /\ s[j].type = type
    /\ writer[s[i].payload] = writer[s[j].payload]
    => s[i].payload < s[j].payload

QueuesInOrder ==
  /\ \A p \in Peers : InOrder(rx[p], "publish", author)
  /\ \A p, q \in Peers : \A i \in DOMAIN rx[p], j \in DOMAIN rx[q] :
       /\ rx[p][i].type = "publish" /\ rx[q][j].type = "publish"
       /\ author[rx[p][i].payload] = author[rx[q][j].payload]
       => p = q
  /\ \A p \in Peers : \A i \in DOMAIN rx[p] :
       rx[p][i].type = "publish" /\ remote[p] # NoEndpoint =>
         author[rx[p][i].payload] = remote[p]

(* What has reached a client is in order and before what waits at the      *)
(* server.                                                                 *)
ReachedInOrder ==
  /\ \A c \in Clients : main[c] # NoEndpoint => InOrder(inq[main[c]], "fanout", author)
  /\ \A c \in Clients : \A i, j \in DOMAIN delivered[c] :
       /\ i < j
       /\ author[delivered[c][i].payload] = author[delivered[c][j].payload]
       => delivered[c][i].payload < delivered[c][j].payload
  /\ \A c \in Clients, m, n \in Payloads : SameAuthor(m, n) =>
       /\ Got(c, m) /\ Fanned(c, n) => m < n
       /\ Reached(c, m) /\ Waiting(n) => m < n

(* A client that something has reached, and that is still linked, is       *)
(* subscribed to its topic; nobody unsubscribes.                           *)
SubscribedAt(q, t) ==
  /\ peer_state[q] = "connected" /\ t \in DOMAIN m_map
  /\ m_map[t] \in client[peer_data[q]].subscribed_topics
StillSubscribed ==
  /\ \A c \in Clients, m \in Payloads, q \in Peers :
       Reached(c, m) /\ remote[q] = main[c] => SubscribedAt(q, intended[m])
  /\ \A p \in Peers : \A i \in DOMAIN rx[p] : rx[p][i].type # "unsubscribe"

(* Whatever its author sent after a payload that waits, waits or is lost;  *)
(* after one that reached a linked client, has reached it, waits or is     *)
(* lost.                                                                   *)
NoneOvertaken ==
  \A l, m \in Payloads : m < l =>
    /\ SameAuthor(m, l) /\ Waiting(m) => Waiting(l) \/ Lost(l)
    /\ \A c \in Clients : SameStream(m, l) /\ Reached(c, m) /\ Linked(main[c]) =>
         Reached(c, l) \/ Waiting(l) \/ Lost(l)

(* Between two payloads that reached a client there is no gap.             *)
NoGaps ==
  \A c \in Clients, l, m, n \in Payloads :
    /\ m < l /\ l < n /\ SameStream(m, l) /\ SameStream(l, n)
    /\ Reached(c, m) /\ Reached(c, n)
    => Reached(c, l)

OrderInv ==
  SentSound /\ QueuesInOrder /\ ReachedInOrder /\ StillSubscribed /\ NoneOvertaken /\ NoGaps

-----------------------------------------------------------------------------
(* The kinds of steps.                                                     *)

(* Queues after Tail and Append keep their order.                          *)
LEMMA OrderTail ==
  ASSUME NEW s \in Seq(Packets), s # <<>>, NEW type, NEW writer, InOrder(s, type, writer)
  PROVE  InOrder(Tail(s), type, writer)
<1>1. SUFFICES ASSUME NEW i \in DOMAIN Tail(s), NEW j \in DOMAIN Tail(s), i < j,
                      Tail(s)[i].type = type, Tail(s)[j].type = type,
                      writer[Tail(s)[i].payload] = writer[Tail(s)[j].payload]
               PROVE  Tail(s)[i].payload < Tail(s)[j].payload
  BY DEF InOrder
<1>2. /\ i \in Nat /\ i + 1 \in DOMAIN s /\ Tail(s)[i] = s[i + 1]
      /\ j \in Nat /\ j + 1 \in DOMAIN s /\ Tail(s)[j] = s[j + 1]
  BY InTail
<1>3. i + 1 < j + 1
  BY <1>1, <1>2
<1> QED
  BY <1>1, <1>2, <1>3 DEF InOrder

(* An appended packet keeps a queue in order when it is later than those   *)
(* of its author.                                                          *)
LEMMA OrderAppend ==
  ASSUME NEW s \in Seq(Packets), NEW x \in Packets, NEW type, NEW writer,
         InOrder(s, type, writer),
         x.type = type => \A i \in DOMAIN s :
           s[i].type = type /\ writer[s[i].payload] = writer[x.payload] =>
             s[i].payload < x.payload
  PROVE  InOrder(Append(s, x), type, writer)
<1> DEFINE t == Append(s, x)
<1>1. SUFFICES ASSUME NEW i \in DOMAIN t, NEW j \in DOMAIN t, i < j, t[i].type = type,
                      t[j].type = type, writer[t[i].payload] = writer[t[j].payload]
               PROVE  t[i].payload < t[j].payload
  BY DEF InOrder
<1>2. i \in DOMAIN s /\ t[i] = s[i]
  BY <1>1
<1>3. \/ j \in DOMAIN s /\ t[j] = s[j]
      \/ j = Len(s) + 1 /\ t[j] = x
  BY InAppend
<1> HIDE DEF t
<1> QED
  BY <1>1, <1>2, <1>3 DEF InOrder

(* Client c sends its publish of payload n, later than all it sent before. *)
PublishSent(c, n, key) ==
  /\ main[c] \in Endpoints /\ Send(main[c], publish(key, n))
  /\ intended'[n] \in Topics
  /\ \A m \in Payloads : author[m] = main[c] => m < n
  /\ pc'[c] = "idle"
  /\ UNCHANGED <<main, delivered>>

(* A slot whose waiting publishes stay, or are dropped with the link, and  *)
(* an inbox whose fanouts stay, or are dropped with the link.              *)
QuietQueue(p) ==
  \/ rx'[p] = rx[p]
  \/ rx'[p] = <<>> /\ remote'[p] = NoEndpoint
  \/ rx[p] # <<>> /\ rx'[p] = Tail(rx[p]) /\ Head(rx[p]).type # "publish"
  \/ \E x \in Packets : rx'[p] = Append(rx[p], x) /\ x.type \notin {"publish", "unsubscribe"}
QuietInbox(e) ==
  \/ inq'[e] = inq[e]
  \/ inq'[e] = <<>> /\ \A p \in Peers : remote'[p] # e
  \/ inq[e] # <<>> /\ inq'[e] = Tail(inq[e]) /\ Head(inq[e]).type # "fanout"
  \/ \E x \in Packets : inq'[e] = Append(inq[e], x) /\ x.type # "fanout"
Quiet ==
  /\ author' = author
  /\ \A p \in Peers : QuietQueue(p)
  /\ \A e \in Endpoints : QuietInbox(e)

(* A send of a packet that is neither a publish nor an unsubscribe is      *)
(* quiet.                                                                  *)
LEMMA SendIsQuiet ==
  ASSUME NEW e \in Endpoints, NEW packet \in Packets,
         packet.type \notin {"publish", "unsubscribe"}, Send(e, packet)
  PROVE  Quiet
<1>1. \A p \in Peers : rx'[p] = rx[p] \/ rx'[p] = Append(rx[p], packet)
  BY DEF Send, HostSend
<1>2. inq' = inq /\ author' = author
  BY DEF Send, HostSend
<1> QED
  BY <1>1, <1>2 DEF Quiet, QuietQueue, QuietInbox

(* So is a connection that is made or that ends, and a packet received     *)
(* that is no fanout.                                                      *)
LEMMA HostIsQuiet ==
  ASSUME ServerTypeOK, NEW e \in Endpoints,
         \/ \E p \in Peers : Connect(p, e) \/ ConnectLate(p, e)
         \/ Lose(e) \/ Close(e)
         \/ Poll(e) /\ Head(inq[e]).type # "fanout"
  PROVE  Quiet
<1> USE ENetAssumption DEF ServerTypeOK, ENetTypeOK
<1>1. author' = author /\ rx' = rx
  BY DEF Connect, ConnectLate, HostConnect, HostConnectLate, Lose, Close, Poll, HostReceive,
         HostDisconnected, HostDestroy
<1>2. CASE \E p \in Peers : Connect(p, e) \/ ConnectLate(p, e)
  BY <1>1, <1>2
     DEF Connect, ConnectLate, HostConnect, HostConnectLate, Quiet, QuietQueue, QuietInbox
<1>3. CASE Lose(e) \/ Close(e)
  <2>1. inq' = [inq EXCEPT ![e] = <<>>] /\ remote' = Unlink(e)
    BY <1>3 DEF Lose, Close, HostDisconnected, HostDestroy
  <2>2. inq'[e] = <<>> /\ \A p \in Peers : remote'[p] # e
    BY <2>1 DEF Unlink
  <2>3. \A d \in Endpoints : d # e => inq'[d] = inq[d]
    BY <2>1
  <2> QED
    BY <1>1, <2>2, <2>3 DEF Quiet, QuietQueue, QuietInbox
<1>4. CASE Poll(e) /\ Head(inq[e]).type # "fanout"
  <2>1. inq[e] # <<>> /\ inq'[e] = Tail(inq[e])
    BY <1>4 DEF Poll, HostReceive
  <2>2. \A d \in Endpoints : d # e => inq'[d] = inq[d]
    BY <1>4 DEF Poll, HostReceive
  <2> QED
    BY <1>1, <1>4, <2>1, <2>2 DEF Quiet, QuietQueue, QuietInbox
<1> QED
  BY <1>2, <1>3, <1>4

(* So are the server's handlers other than the one of a publish, and a     *)
(* restart.                                                                *)
LEMMA ProcessIsQuiet ==
  ASSUME ServerTypeOK, process \/ Restart, \A p \in Peers : ~OnPublish(p)
  PROVE  Quiet
<1> USE ENetAssumption DEF ServerTypeOK, ENetTypeOK
<1>1. CASE Restart
  BY <1>1 DEF Restart, ServerHostReplaced, Quiet, QuietQueue, QuietInbox
<1>2. ASSUME NEW p \in Peers, OnConnect(p) \/ OnDisconnect(p) \/ OnAbandoned(p)
      PROVE  Quiet
  BY <1>2 DEF OnConnect, OnDisconnect, OnAbandoned, ReportConnect, ReportDisconnect,
              AbandonPending, ReleaseSlot, Quiet, QuietQueue, QuietInbox
<1>3. ASSUME NEW p \in Peers, NEW Q, NEW packet, Q # {} => packet \in Packets,
             packet.type # "fanout" \/ Q = {}, ReportReceive(p, Q, packet),
             Head(rx[p]).type # "publish", author' = author
      PROVE  Quiet
  <2>1. \A q \in Peers : rx'[q] = rx[q] \/ (q = p /\ rx[p] # <<>> /\ rx'[p] = Tail(rx[p]))
    BY <1>3 DEF ReportReceive
  <2>2. \A e \in Endpoints :
          inq'[e] = inq[e] \/ (Q # {} /\ inq'[e] = Append(inq[e], packet))
    BY <1>3 DEF ReportReceive
  <2> QED
    BY <1>3, <2>1, <2>2 DEF Quiet, QuietQueue, QuietInbox
<1>4. ASSUME NEW p \in Peers, OnTopicRequest(p) PROVE Quiet
  <2> DEFINE topic == Head(rx[p]).payload
  <2>1. topic \in Topics
    BY <1>4, HeadTyped, PacketFields DEF OnTopicRequest, Receiving
  <2>2. KeyOf(topic) \in Nat
    BY <1>4, <2>1, TopicMapTyped DEF OnTopicRequest
  <2>3. topic_response(KeyOf(topic), topic) \in Packets
    BY <2>1, <2>2, PacketsTyped
  <2>4. /\ topic_response(KeyOf(topic), topic).type # "fanout"
        /\ Head(rx[p]).type # "publish" /\ author' = author
    BY <1>4 DEF OnTopicRequest, Receiving, topic_response, construct
  <2>5. ReportReceive(p, {client[peer_data[p]].m_peer},
                      topic_response(KeyOf(topic), topic))
    BY <1>4 DEF OnTopicRequest
  <2> HIDE DEF topic
  <2> QED
    BY <1>3, <2>3, <2>4, <2>5
<1>5. ASSUME NEW p \in Peers, OnSubscribe(p) \/ OnUnsubscribe(p) \/ OnIgnored(p) PROVE Quiet
  <2>1. /\ ReportReceive(p, {}, Head(rx[p])) /\ Head(rx[p]).type # "publish"
        /\ author' = author
    BY <1>5 DEF OnSubscribe, OnUnsubscribe, OnIgnored, SetSubscriptions, Receiving
  <2> QED
    BY <1>3, <2>1
<1> QED
  BY <1>1, <1>2, <1>4, <1>5 DEF process

(* The end of a call sends nothing, something quiet, or a publish.         *)
LEMMA PerformKinds ==
  ASSUME BusTypeOK, NEW c \in Clients, main[c] \in Endpoints, NEW kind \in Kinds,
         NEW key \in Nat, NEW payload, Perform(c, kind, key, payload)
  PROVE  Quiet \/ (kind = "publish" /\ Send(main[c], publish(key, payload)))
<1>1. CASE UNCHANGED serverVars
  BY <1>1 DEF Quiet, QuietQueue, QuietInbox
<1>2. CASE Send(main[c], subscribe(key))
  <2>1. subscribe(key) \in Packets /\ subscribe(key).type \notin {"publish", "unsubscribe"}
    BY PacketsTyped DEF subscribe, construct
  <2> QED
    BY <1>2, <2>1, SendIsQuiet
<1> QED
  BY <1>1, <1>2 DEF Perform

(* So is what a client's constructor does, whether it succeeds or not.     *)
LEMMA ConnectIsQuiet ==
  ASSUME ServerTypeOK, ConnectFails \/ \E e \in Endpoints : Connected(e)
  PROVE  Quiet
<1>1. CASE UNCHANGED serverVars
  BY <1>1 DEF Quiet, QuietQueue, QuietInbox
<1>2. CASE \E e \in Endpoints, p \in Peers : Connect(p, e) \/ ConnectLate(p, e)
  BY <1>2, HostIsQuiet
<1> QED
  BY <1>1, <1>2 DEF ConnectFails, Connected

(* Every step sends a publish, forwards one, runs a callback or is quiet.  *)
LEMMA StepKinds ==
  ASSUME BusTypeOK, ClientInv, ResolveInv, SentSound, [BusNext]_busVars
  PROVE  \/ \E c \in Clients, n \in Payloads, key \in Nat : PublishSent(c, n, key)
         \/ \E p \in Peers : OnPublish(p) /\ UNCHANGED <<clientVars, ghostVars>>
         \/ \E c \in Clients : PollMessage(c) /\ Head(inq[main[c]]).type = "fanout"
         \/ Quiet /\ delivered' = delivered
<1>1. ServerTypeOK
  BY DEF BusTypeOK
<1>2. CASE UNCHANGED busVars
  BY <1>2 DEF Quiet, QuietQueue, QuietInbox
<1>3. CASE ServerStep
  <2>1. CASE \A p \in Peers : ~OnPublish(p)
    BY <1>1, <1>3, <2>1, ProcessIsQuiet DEF ServerStep
  <2> QED
    BY <1>3, <2>1 DEF ServerStep
<1>4. ASSUME NEW c \in Clients,
             \/ Construct(c) \/ ConstructFails(c) \/ TmpConnect(c) \/ TmpConnectFails(c)
      PROVE  Quiet /\ delivered' = delivered
  BY <1>1, <1>4, ConnectIsQuiet DEF Construct, ConstructFails, TmpConnect, TmpConnectFails, Throw
<1>5. ASSUME NEW c \in Clients,
             \/ Destroy(c) \/ PollDisconnected(c) \/ TmpReceive(c) \/ TmpReceiveFails(c)
      PROVE  Quiet /\ delivered' = delivered
  <2>1. \E e \in Endpoints : Lose(e) \/ Close(e)
    BY <1>5, InUse
       DEF Destroy, PollDisconnected, TmpReceive, TmpReceiveFails, Throw, Goto
  <2>2. delivered' = delivered
    BY <1>5 DEF Destroy, PollDisconnected, TmpReceive, TmpReceiveFails, Throw
  <2> QED
    BY <1>1, <2>1, <2>2, HostIsQuiet
<1>6. ASSUME NEW c \in Clients, TmpRequest(c) PROVE Quiet /\ delivered' = delivered
  <2>1. temporary[c] \in Endpoints /\ op[c].topic \in Topics
    BY <1>6, InUse DEF TmpRequest, Goto, InCall
  <2>2. /\ topic_request(op[c].topic) \in Packets
        /\ topic_request(op[c].topic).type \notin {"publish", "unsubscribe"}
    BY <2>1, PacketsTyped DEF topic_request, construct
  <2>3. Send(temporary[c], topic_request(op[c].topic)) /\ delivered' = delivered
    BY <1>6 DEF TmpRequest
  <2> QED
    BY <2>1, <2>2, <2>3, SendIsQuiet
<1>7. ASSUME NEW c \in Clients, PollMessage(c), Head(inq[main[c]]).type # "fanout"
      PROVE  Quiet /\ delivered' = delivered
  <2>1. main[c] \in Endpoints /\ Poll(main[c])
    BY <1>7, InUse DEF PollMessage
  <2>2. delivered' = delivered
    BY <1>7 DEF PollMessage
  <2> QED
    BY <1>1, <1>7, <2>1, <2>2, HostIsQuiet
<1>8. ASSUME NEW c \in Clients, Use(c)
      PROVE  \/ Quiet /\ delivered' = delivered
             \/ \E n \in Payloads, key \in Nat : PublishSent(c, n, key)
  <2>1. /\ main[c] \in Endpoints /\ op[c].key \in Nat /\ op[c].kind \in Kinds
        /\ op[c].kind = "publish" => op[c].payload \in Payloads
    BY <1>8, InUse DEF Use, Goto, InCall
  <2>2. op[c].kind = "publish" => /\ intended[op[c].payload] = op[c].topic
                                  /\ op[c].topic \in Topics
                                  /\ \A m \in Payloads : author[m] = main[c] => m < op[c].payload
    BY <1>8 DEF Use, Goto, InCall, ClientInv, CallSound, SentSound
  <2>3. /\ Perform(c, op[c].kind, op[c].key, op[c].payload)
        /\ UNCHANGED <<main, delivered, intended>> /\ pc'[c] = "idle"
    BY <1>8 DEF Use, Goto, BusTypeOK
  <2>4. \/ Quiet
        \/ op[c].kind = "publish" /\ Send(main[c], publish(op[c].key, op[c].payload))
    BY <2>1, <2>3, PerformKinds
  <2> QED
    BY <2>1, <2>2, <2>3, <2>4 DEF PublishSent
<1>9. ASSUME NEW c \in Clients, NEW kind \in Kinds, NEW t \in Topics, NEW payload,
             Call(c, kind, t, payload)
      PROVE  \/ Quiet /\ delivered' = delivered
             \/ /\ kind = "publish" /\ main[c] \in Endpoints
                /\ \E key \in Nat : Send(main[c], publish(key, payload))
                /\ pc'[c] = "idle" /\ UNCHANGED <<main, delivered>>
  <2>1. UNCHANGED <<main, delivered>> /\ main[c] \in Endpoints
    BY <1>9, InUse DEF Call
  <2>2. CASE t \in DOMAIN m_topic_map[c] /\ Perform(c, kind, m_topic_map[c][t], payload)
               /\ pc' = pc
    <3>1. m_topic_map[c][t] \in Nat
      BY <2>2 DEF BusTypeOK
    <3>2. \/ Quiet
          \/ kind = "publish" /\ Send(main[c], publish(m_topic_map[c][t], payload))
      BY <2>1, <2>2, <3>1, PerformKinds
    <3> QED
      BY <1>9, <2>1, <2>2, <3>1, <3>2 DEF Call
  <2>3. CASE UNCHANGED serverVars
    BY <2>1, <2>3 DEF Quiet, QuietQueue, QuietInbox
  <2> QED
    BY <1>9, <2>2, <2>3 DEF Call
<1>10. ASSUME NEW c \in Clients, NEW t \in Topics, CallGetTopicKey(c, t) \/ CallSubscribe(c, t)
       PROVE  Quiet /\ delivered' = delivered
  BY <1>9, <1>10 DEF CallGetTopicKey, CallSubscribe, Kinds
<1>11. ASSUME NEW c \in Clients, NEW t \in Topics, NEW m \in Payloads, CallPublish(c, t, m)
       PROVE  \/ Quiet /\ delivered' = delivered
              \/ \E n \in Payloads, key \in Nat : PublishSent(c, n, key)
  <2>1. "publish" \in Kinds /\ Call(c, "publish", t, m)
    BY <1>11 DEF CallPublish, Kinds
  <2>2. intended'[m] \in Topics
    BY <1>11 DEF CallPublish, BusTypeOK
  <2>3. \A n \in Payloads : author[n] = main[c] /\ main[c] \in Endpoints => n < m
    BY <1>11, ENetAssumption, BusAssumption DEF CallPublish, SentSound
  <2> QED
    BY <1>9, <2>1, <2>2, <2>3 DEF PublishSent
<1> QED
  BY <1>2, <1>3, <1>4, <1>5, <1>6, <1>7, <1>8, <1>10, <1>11
     DEF BusNext, Application, LibraryStep, Receive, CallPublishKey

-----------------------------------------------------------------------------
(* What was sent.                                                          *)

(* A call of publish in progress was so before or begins now.              *)
LEMMA PublishCalls ==
  ASSUME BusTypeOK, ClientInv, [BusNext]_busVars, NEW c \in Clients,
         InCall(c)', op'[c].kind = "publish"
  PROVE  /\ main'[c] = main[c]
         /\ \/ InCall(c) /\ op[c].kind = "publish" /\ op'[c].payload = op[c].payload
            \/ /\ op'[c].payload \in Payloads
               /\ \A n \in Payloads : n >= op'[c].payload => intended[n] = NoTopic
               /\ author' = author
<1> USE DEF InCall
<1>1. ASSUME NEW t \in Topics, NEW m \in Payloads, CallPublish(c, t, m)
      PROVE  /\ op'[c].payload = m /\ author' = author /\ main' = main
             /\ \A n \in Payloads : n >= m => intended[n] = NoTopic
  <2>1. main' = main /\ \A n \in Payloads : n >= m => intended[n] = NoTopic
    BY <1>1 DEF CallPublish, Call
  <2>2. CASE pc' = pc
    BY <1>1, <2>2 DEF CallPublish, Call, BusTypeOK
  <2>3. CASE /\ op' = [op EXCEPT ![c] =
                  [kind |-> "publish", topic |-> t, payload |-> m, key |-> 0]]
             /\ UNCHANGED serverVars
    BY <2>1, <2>3 DEF BusTypeOK
  <2> QED
    BY <1>1, <2>1, <2>2, <2>3 DEF CallPublish, Call
<1>2. ASSUME NEW t \in Topics, CallGetTopicKey(c, t) \/ CallSubscribe(c, t) PROVE FALSE
  <2>1. PICK kind \in {"get_topic_key", "subscribe"} : Call(c, kind, t, Empty)
    BY <1>2 DEF CallGetTopicKey, CallSubscribe
  <2>2. CASE pc' = pc
    BY <2>1, <2>2 DEF Call
  <2>3. CASE op' = [op EXCEPT ![c] =
               [kind |-> kind, topic |-> t, payload |-> Empty, key |-> 0]]
    BY <2>1, <2>3 DEF BusTypeOK
  <2> QED
    BY <2>1, <2>2, <2>3 DEF Call
<1>3. CASE Construct(c) \/ ConstructFails(c) \/ Destroy(c) \/ Receive(c)
  BY <1>3 DEF Construct, ConstructFails, Destroy, Receive, PollMessage, PollDisconnected, Goto,
              BusTypeOK
<1>4. CASE TmpConnectFails(c) \/ TmpReceiveFails(c) \/ Use(c)
  BY <1>4 DEF TmpConnectFails, TmpReceiveFails, Use, Throw, Goto, BusTypeOK
<1>5. CASE TmpConnect(c) \/ TmpRequest(c)
  BY <1>5 DEF TmpConnect, TmpRequest, Goto
<1>6. CASE TmpReceive(c)
  <2>1. op' = [op EXCEPT ![c].key = KeyReturned(Response(c))] /\ pc[c] = "await" /\ main' = main
    BY <1>6 DEF TmpReceive, Goto
  <2>2. op'[c].kind = op[c].kind /\ op'[c].payload = op[c].payload
    BY <2>1 DEF BusTypeOK
  <2> QED
    BY <2>1, <2>2
<1>7. CASE UNCHANGED busVars \/ ServerStep
  BY <1>7 DEF ServerStep
<1>8. ASSUME NEW d \in Clients, d # c, Application(d) \/ LibraryStep(d) \/ Receive(d)
      PROVE  pc'[c] = pc[c] /\ op'[c] = op[c] /\ main'[c] = main[c]
  BY <1>8, OthersStand
<1>9. CASE Application(c) \/ LibraryStep(c) \/ Receive(c)
  BY <1>1, <1>2, <1>3, <1>4, <1>5, <1>6, <1>9 DEF Application, LibraryStep, CallPublishKey
<1> QED
  BY <1>7, <1>8, <1>9 DEF BusNext

(* The author of a payload does not change; a payload gets one only when   *)
(* its publish is sent.                                                    *)
LEMMA AuthorSteps ==
  ASSUME BusTypeOK, ClientInv, ResolveInv, SentSound, [BusNext]_busVars
  PROVE  \/ author' = author
         \/ \E c \in Clients, n \in Payloads, key \in Nat :
              /\ PublishSent(c, n, key) /\ author[n] = NoEndpoint
              /\ author' = [author EXCEPT ![n] = main[c]]
<1>1. ASSUME NEW c \in Clients, NEW n \in Payloads, NEW key \in Nat, PublishSent(c, n, key)
      PROVE  author[n] = NoEndpoint /\ author' = [author EXCEPT ![n] = main[c]]
  BY <1>1 DEF PublishSent, Send, publish, construct
<1> QED
  BY <1>1, StepKinds DEF OnPublish, PollMessage, Poll, Quiet

(* SentSound is preserved.                                                 *)
LEMMA StepKeepsSent ==
  ASSUME BusTypeOK, ClientInv, ResolveInv, FanoutInv, SentSound, [BusNext]_busVars
  PROVE  SentSound'
<1> USE ENetAssumption, BusAssumption
<1>1. [OpenNext]_serverVars /\ ServerTypeOK
  BY BusStepsAreOpen DEF BusTypeOK
<1>2. \A e \in Endpoints : endpoint'[e] = "new" => endpoint[e] = "new"
  BY <1>1, LinkSteps
<1>3. ASSUME NEW m \in Payloads, author'[m] # NoEndpoint
      PROVE  /\ intended'[m] # NoTopic /\ author'[m] \in Endpoints
             /\ endpoint'[author'[m]] # "new"
  <2>1. CASE author[m] # NoEndpoint
    <3>1. author'[m] = author[m] /\ intended'[m] = intended[m]
      BY <1>1, <2>1, LinkSteps, HistorySteps DEF SentSound
    <3> QED
      BY <1>2, <2>1, <3>1 DEF SentSound
  <2>2. CASE author[m] = NoEndpoint
    <3>1. PICK c \in Clients, n \in Payloads, key \in Nat :
            PublishSent(c, n, key) /\ author' = [author EXCEPT ![n] = main[c]]
      BY <1>3, <2>2, AuthorSteps
    <3>2. n = m /\ author'[m] = main[c]
      BY <1>3, <2>2, <3>1 DEF BusTypeOK, ServerTypeOK
    <3> QED
      BY <1>2, <3>1, <3>2 DEF PublishSent, Send, HostSend
  <2> QED
    BY <2>1, <2>2
<1>4. ASSUME NEW c \in Clients, InCall(c)', op'[c].kind = "publish",
             NEW m \in Payloads, author'[m] = main'[c]
      PROVE  m < op'[c].payload
  <2>1. main'[c] = main[c]
    BY <1>4, PublishCalls
  <2>2. main'[c] \in Endpoints /\ main[c] # NoEndpoint
    <3>1. CallSound(c)' /\ main'[c] \in Endpoints \cup {NoEndpoint}
      BY StepKeepsCalls, BusStepTyped DEF BusTypeOK
    <3> QED
      BY <1>4, <2>1, <3>1 DEF CallSound, InCall
  <2>3. author[m] = main[c]
    <3>1. CASE author' = author
      BY <1>4, <2>1, <3>1
    <3>2. ASSUME NEW d \in Clients, NEW n \in Payloads, NEW key \in Nat,
                 PublishSent(d, n, key), author' = [author EXCEPT ![n] = main[d]]
          PROVE  author[m] = main[c]
      <4>1. d # c
        BY <1>4, <3>2 DEF PublishSent, InCall
      <4>2. main[d] # main[c]
        BY <2>2, <4>1 DEF ClientInv, HostsSound
      <4> QED
        BY <1>4, <2>1, <3>2, <4>2 DEF BusTypeOK, ServerTypeOK
    <3> QED
      BY <3>1, <3>2, AuthorSteps
  <2>4. CASE InCall(c) /\ op[c].kind = "publish" /\ op'[c].payload = op[c].payload
    BY <2>3, <2>4 DEF SentSound
  <2>5. CASE /\ op'[c].payload \in Payloads
             /\ \A n \in Payloads : n >= op'[c].payload => intended[n] = NoTopic
    <3>1. intended[m] # NoTopic
      BY <2>2, <2>3 DEF SentSound
    <3>2. m \in Nat /\ op'[c].payload \in Nat
      BY <2>5
    <3>3. ~(m >= op'[c].payload)
      BY <2>5, <3>1
    <3> QED
      BY <3>2, <3>3
  <2> QED
    BY <1>4, <2>4, <2>5, PublishCalls
<1> QED
  BY <1>3, <1>4 DEF SentSound

-----------------------------------------------------------------------------
(* The queues of the slots.                                                *)

LEMMA HoldsTail ==
  ASSUME NEW s \in Seq(Packets), s # <<>>, NEW type, NEW m
  PROVE  /\ Holds(Tail(s), type, m) => Holds(s, type, m)
         /\ Holds(s, type, m) =>
              Holds(Tail(s), type, m) \/ (Head(s).type = type /\ Head(s).payload = m)
<1>1. Holds(Tail(s), type, m) => Holds(s, type, m)
  BY InTail DEF Holds
<1>2. ASSUME NEW i \in DOMAIN s, s[i].type = type, s[i].payload = m, i # 1
      PROVE  Holds(Tail(s), type, m)
  <2>1. i - 1 \in DOMAIN Tail(s) /\ Tail(s)[i - 1] = s[i]
    BY <1>2
  <2> QED
    BY <1>2, <2>1 DEF Holds
<1>3. Head(s) = s[1]
  OBVIOUS
<1> QED
  BY <1>1, <1>2, <1>3 DEF Holds

(* A queue after Append holds what it held and the new packet.             *)
LEMMA HoldsAppend ==
  ASSUME NEW s \in Seq(Packets), NEW x \in Packets, NEW type, NEW m
  PROVE  Holds(Append(s, x), type, m) <=>
           Holds(s, type, m) \/ (x.type = type /\ x.payload = m)
<1>1. \A i \in DOMAIN s : i \in DOMAIN Append(s, x) /\ Append(s, x)[i] = s[i]
  OBVIOUS
<1>2. Len(s) + 1 \in DOMAIN Append(s, x) /\ Append(s, x)[Len(s) + 1] = x
  OBVIOUS
<1>3. ASSUME Holds(Append(s, x), type, m)
      PROVE  Holds(s, type, m) \/ (x.type = type /\ x.payload = m)
  BY <1>3, InAppend DEF Holds
<1> QED
  BY <1>1, <1>2, <1>3 DEF Holds

(* An empty queue holds nothing.                                           *)
LEMMA HoldsNothing == \A type, m : ~Holds(<<>>, type, m)
BY DEF Holds

(* A publish that waits was sent by an endpoint that is linked nowhere     *)
(* else and has connected already.                                         *)
LEMMA WaitingSound ==
  ASSUME BusTypeOK, FanoutInv, NEW p \in Peers, NEW i \in DOMAIN rx[p],
         rx[p][i].type = "publish"
  PROVE  LET m == rx[p][i].payload IN
           /\ m \in Payloads /\ author[m] \in Endpoints /\ endpoint[author[m]] # "new"
           /\ \A q \in Peers : remote[q] = author[m] => q = p
<1>1. rx[p] \in Seq(Packets)
  BY DEF BusTypeOK, ServerTypeOK, ENetTypeOK
<1>2. rx[p][i] \in Packets
  BY <1>1, ElementOf
<1> QED
  BY <1>2, PacketFields DEF FanoutInv, QueuesSound, PacketSound

(* How the queue of a slot changes.                                        *)
QueueStep(p) ==
  \/ rx'[p] = rx[p] \/ rx'[p] = <<>> \/ (rx[p] # <<>> /\ rx'[p] = Tail(rx[p]))
  \/ \E x \in Packets :
       /\ rx'[p] = Append(rx[p], x) /\ x.type # "unsubscribe"
       /\ x.type = "publish" =>
            /\ author'[x.payload] = remote[p] /\ remote[p] \in Endpoints
            /\ \A m \in Payloads : author[m] = remote[p] => m < x.payload

(* Every step changes the queue of a slot in one of these ways.            *)
LEMMA EveryQueueSteps ==
  ASSUME BusTypeOK, ClientInv, ResolveInv, SentSound, [BusNext]_busVars
  PROVE  \A p \in Peers : QueueStep(p)
<1>1. ASSUME NEW c \in Clients, NEW n \in Payloads, NEW key \in Nat, PublishSent(c, n, key),
             NEW p \in Peers
      PROVE  QueueStep(p)
  <2> DEFINE x == publish(key, n)
  <2>1. x \in Packets /\ x.type = "publish" /\ x.payload = n
    BY PacketsTyped DEF publish, construct
  <2>2. rx'[p] = rx[p] \/ (remote[p] = main[c] /\ rx'[p] = Append(rx[p], x))
    BY <1>1 DEF PublishSent, Send, HostSend
  <2>3. author' = [author EXCEPT ![n] = main[c]]
    BY <1>1, <2>1 DEF PublishSent, Send
  <2>4. author'[n] = main[c]
    BY <2>3 DEF BusTypeOK, ServerTypeOK
  <2> HIDE DEF x
  <2> QED
    BY <1>1, <2>1, <2>2, <2>4 DEF PublishSent, QueueStep
<1>2. ASSUME NEW p \in Peers, NEW q \in Peers, OnPublish(q) PROVE QueueStep(p)
  BY <1>2 DEF OnPublish, ReportReceive, BusTypeOK, ServerTypeOK, ENetTypeOK, QueueStep
<1>3. ASSUME NEW p \in Peers, NEW c \in Clients, PollMessage(c) PROVE QueueStep(p)
  BY <1>3 DEF PollMessage, Poll, HostReceive, QueueStep
<1>4. ASSUME NEW p \in Peers, QuietQueue(p) PROVE QueueStep(p)
  BY <1>4 DEF QuietQueue, QueueStep
<1> QED
  BY <1>1, <1>2, <1>3, <1>4, StepKinds DEF Quiet

(* QueuesInOrder is preserved.                                             *)
LEMMA StepKeepsQueues ==
  ASSUME BusTypeOK, ClientInv, ResolveInv, FanoutInv, SentSound, QueuesInOrder,
         [BusNext]_busVars
  PROVE  QueuesInOrder'
<1> USE ENetAssumption
<1>1. [OpenNext]_serverVars /\ ServerTypeOK
  BY BusStepsAreOpen DEF BusTypeOK
<1>2. \A p \in Peers : rx[p] \in Seq(Packets)
  BY <1>1 DEF ServerTypeOK, ENetTypeOK
<1>3. \A p \in Peers : QueueStep(p)
  BY EveryQueueSteps
<1>4. ASSUME NEW p \in Peers, NEW i \in DOMAIN rx[p], rx[p][i].type = "publish"
      PROVE  author'[rx[p][i].payload] = author[rx[p][i].payload]
  BY <1>1, <1>4, WaitingSound, LinkSteps
<1>5. ASSUME NEW p \in Peers PROVE InOrder(rx'[p], "publish", author')
  <2>1. InOrder(rx[p], "publish", author')
    BY <1>4 DEF QueuesInOrder, InOrder
  <2>2. CASE rx'[p] = <<>>
    BY <2>2 DEF InOrder
  <2>3. CASE rx[p] # <<>> /\ rx'[p] = Tail(rx[p])
    BY <1>2, <2>1, <2>3, OrderTail
  <2>4. ASSUME NEW x \in Packets, rx'[p] = Append(rx[p], x),
               x.type = "publish" =>
                 /\ author'[x.payload] = remote[p] /\ remote[p] \in Endpoints
                 /\ \A m \in Payloads : author[m] = remote[p] => m < x.payload
        PROVE  InOrder(rx'[p], "publish", author')
    <3>1. x.type = "publish" => \A i \in DOMAIN rx[p] :
            rx[p][i].type = "publish" /\ author'[rx[p][i].payload] = author'[x.payload] =>
              rx[p][i].payload < x.payload
      BY <1>4, <2>4, WaitingSound
    <3> QED
      BY <1>2, <2>1, <2>4, <3>1, OrderAppend
  <2> QED
    BY <1>3, <2>1, <2>2, <2>3, <2>4 DEF QueueStep
<1>6. ASSUME NEW p \in Peers, NEW i \in DOMAIN rx'[p], rx'[p][i].type = "publish"
      PROVE  \/ \E j \in DOMAIN rx[p] : rx'[p][i] = rx[p][j]
             \/ author'[rx'[p][i].payload] = remote[p] /\ remote[p] \in Endpoints
  <2>1. CASE rx'[p] = rx[p] \/ rx'[p] = <<>>
    BY <2>1
  <2>2. CASE rx[p] # <<>> /\ rx'[p] = Tail(rx[p])
    BY <1>2, <2>2, InTail
  <2>3. ASSUME NEW x \in Packets, rx'[p] = Append(rx[p], x),
               x.type = "publish" => author'[x.payload] = remote[p] /\ remote[p] \in Endpoints
        PROVE  \/ \E j \in DOMAIN rx[p] : rx'[p][i] = rx[p][j]
               \/ author'[rx'[p][i].payload] = remote[p] /\ remote[p] \in Endpoints
    BY <1>2, <1>6, <2>3, InAppend
  <2> QED
    BY <1>3, <2>1, <2>2, <2>3 DEF QueueStep
<1>7. ASSUME NEW p \in Peers, NEW q \in Peers, NEW i \in DOMAIN rx'[p], NEW j \in DOMAIN rx'[q],
             rx'[p][i].type = "publish", rx'[q][j].type = "publish",
             author'[rx'[p][i].payload] = author'[rx'[q][j].payload]
      PROVE  p = q
  <2>1. ASSUME NEW r \in Peers, NEW s \in Peers, NEW k \in DOMAIN rx[r],
               rx[r][k].type = "publish", author'[rx[r][k].payload] = remote[s]
        PROVE  r = s
    BY <1>4, <2>1, WaitingSound
  <2>2. CASE remote[p] = remote[q] /\ remote[p] \in Endpoints
    BY <2>2 DEF FanoutInv, LinksSound
  <2>3. ASSUME NEW k \in DOMAIN rx[p], NEW l \in DOMAIN rx[q],
               rx'[p][i] = rx[p][k], rx'[q][j] = rx[q][l]
        PROVE  p = q
    BY <1>4, <1>7, <2>3 DEF QueuesInOrder
  <2> QED
    BY <1>6, <1>7, <2>1, <2>2, <2>3
<1>8. ASSUME NEW p \in Peers, NEW i \in DOMAIN rx'[p], rx'[p][i].type = "publish",
             remote'[p] # NoEndpoint
      PROVE  author'[rx'[p][i].payload] = remote'[p]
  <2>1. remote'[p] = remote[p]
    BY <1>1, <1>8, LinkSteps
  <2> QED
    BY <1>4, <1>6, <1>8, <2>1 DEF QueuesInOrder
<1> QED
  BY <1>5, <1>7, <1>8 DEF QueuesInOrder

-----------------------------------------------------------------------------
(* What each kind of step does to the payloads that wait, that are fanned  *)
(* out and that were given to a callback.                                  *)

LEMMA ReachedSound ==
  ASSUME BusTypeOK, ClientInv, FanoutInv, FanoutsSound, DeliverySound, NEW c \in Clients,
         NEW m, Reached(c, m)
  PROVE  /\ m \in Payloads /\ main[c] \in Endpoints
         /\ author[m] \in Endpoints /\ author[m] # main[c] /\ intended[m] \in wanted[c]
<1> USE ENetAssumption
<1>1. CASE Got(c, m)
  <2>1. PICK i \in DOMAIN delivered[c] : delivered[c][i].payload = m
    BY <1>1 DEF Got
  <2>2. delivered[c] \in Seq([payload: Payloads, topic: Topics \cup {NoTopic}])
    BY DEF BusTypeOK
  <2>3. delivered[c][i] \in [payload: Payloads, topic: Topics \cup {NoTopic}]
    BY <2>2, ElementOf
  <2>4. m \in Payloads /\ delivered[c] # <<>>
    BY <2>1, <2>2, <2>3
  <2>5. main[c] \in Endpoints
    BY <2>4 DEF ClientInv, CallSound, BusTypeOK
  <2>6. intended[m] \in wanted[c] /\ author[m] # NoEndpoint /\ author[m] # main[c]
    BY <2>1 DEF DeliverySound
  <2> QED
    BY <2>4, <2>5, <2>6 DEF BusTypeOK, ServerTypeOK
<1>2. CASE Fanned(c, m)
  <2>1. main[c] \in Endpoints
    BY <1>2 DEF Fanned, BusTypeOK
  <2>2. PICK i \in DOMAIN inq[main[c]] :
          inq[main[c]][i].type = "fanout" /\ inq[main[c]][i].payload = m
    BY <1>2 DEF Fanned, Holds
  <2>3. inq[main[c]] \in Seq(Packets)
    BY <2>1 DEF BusTypeOK, ServerTypeOK, ENetTypeOK
  <2>4. inq[main[c]][i] \in Packets
    BY <2>3, ElementOf
  <2>5. m \in Payloads
    BY <2>2, <2>4 DEF Packets
  <2>6. InboxSound(main[c], inq[main[c]][i])
    BY <2>1 DEF FanoutInv, InboxesSound
  <2>7. FanoutSound(c, inq[main[c]][i])
    BY <2>1 DEF FanoutsSound
  <2> QED
    BY <2>1, <2>2, <2>5, <2>6, <2>7 DEF InboxSound, FanoutSound
<1> QED
  BY <1>1, <1>2 DEF Reached

(* A publish is sent.                                                      *)
LEMMA SendFacts ==
  ASSUME BusTypeOK, NEW c \in Clients, NEW n \in Payloads, NEW key \in Nat,
         PublishSent(c, n, key)
  PROVE  /\ author[n] = NoEndpoint /\ author' = [author EXCEPT ![n] = main[c]]
         /\ remote' = remote /\ main' = main
         /\ \A m \in Payloads : Waiting(m)' <=> Waiting(m) \/ (m = n /\ Linked(main[c]))
         /\ \A d \in Clients, m \in Payloads :
              (Fanned(d, m)' <=> Fanned(d, m)) /\ (Got(d, m)' <=> Got(d, m))
<1> DEFINE x == publish(key, n)
<1>1. x \in Packets /\ x.type = "publish" /\ x.payload = n
  BY PacketsTyped DEF publish, construct
<1>2. Send(main[c], x) /\ UNCHANGED <<main, delivered>>
  BY DEF PublishSent
<1> HIDE DEF x
<1>3. author[n] = NoEndpoint /\ author' = [author EXCEPT ![n] = main[c]]
  BY <1>1, <1>2 DEF Send
<1>4. remote' = remote /\ inq' = inq
  BY <1>2 DEF Send, HostSend
<1>5. \A p \in Peers : rx'[p] = IF remote[p] = main[c] THEN Append(rx[p], x) ELSE rx[p]
  BY <1>2 DEF Send, HostSend
<1>6. \A p \in Peers : rx[p] \in Seq(Packets)
  BY DEF BusTypeOK, ServerTypeOK, ENetTypeOK
<1>7. ASSUME NEW m \in Payloads, NEW p \in Peers
      PROVE  Holds(rx'[p], "publish", m) <=>
               Holds(rx[p], "publish", m) \/ (m = n /\ remote[p] = main[c])
  BY <1>1, <1>5, <1>6, HoldsAppend
<1>8. ASSUME NEW m \in Payloads
      PROVE  Waiting(m)' <=> Waiting(m) \/ (m = n /\ Linked(main[c]))
  BY <1>7 DEF Waiting, Linked
<1> QED
  BY <1>2, <1>3, <1>4, <1>8 DEF Fanned, Got

(* The client of which a record is meant when slot p forwards its publish. *)
Target(p, c) ==
  /\ main[c] # NoEndpoint
  /\ \E a \in FanoutTargets(peer_data[p], Head(rx[p]).topic_key) :
       remote[client[a].m_peer] = main[c]

(* A publish is forwarded: it is the first one of its author that waits.   *)
LEMMA ForwardFacts ==
  ASSUME BusTypeOK, FanoutInv, AtMostOnce, QueuesInOrder, NEW p \in Peers, OnPublish(p),
         UNCHANGED <<clientVars, ghostVars>>
  PROVE  LET h == Head(rx[p]).payload IN
         /\ h \in Payloads /\ author[h] \in Endpoints /\ Waiting(h)
         /\ author' = author /\ remote' = remote /\ main' = main
         /\ \A m \in Payloads : author[m] = author[h] /\ Waiting(m) /\ m # h => h < m
         /\ \A m \in Payloads : Waiting(m)' <=> Waiting(m) /\ m # h
         /\ \A c \in Clients, m \in Payloads :
              /\ Fanned(c, m)' <=> Fanned(c, m) \/ (m = h /\ Target(p, c))
              /\ Got(c, m)' <=> Got(c, m)
<1> USE ENetAssumption, BusAssumption
<1> DEFINE h == Head(rx[p]).payload
           x == fanout(Head(rx[p]).topic_key, h)
           targets == FanoutTargets(peer_data[p], Head(rx[p]).topic_key)
<1>1. \A q \in Peers : rx[q] \in Seq(Packets)
  BY DEF BusTypeOK, ServerTypeOK, ENetTypeOK
<1>2. rx[p] # <<>> /\ Head(rx[p]).type = "publish"
  BY DEF OnPublish, Receiving
<1>3. 1 \in DOMAIN rx[p] /\ Head(rx[p]) = rx[p][1] /\ Head(rx[p]) \in Packets
  BY <1>1, <1>2
<1>4. h \in Payloads /\ Head(rx[p]).topic_key \in Nat /\ author[h] \in Endpoints
  BY <1>2, <1>3, PacketFields, WaitingSound
<1>5. x \in Packets /\ x.type = "fanout" /\ x.payload = h
  BY <1>4, PacketsTyped DEF fanout, construct
<1>6. ReportReceive(p, {client[a].m_peer : a \in targets}, x) /\ author' = author
  BY DEF OnPublish
<1>7. /\ rx' = [rx EXCEPT ![p] = Tail(@)] /\ remote' = remote
      /\ \A e \in Endpoints : inq'[e] =
           IF \E a \in targets : remote[client[a].m_peer] = e THEN Append(inq[e], x) ELSE inq[e]
  BY <1>6 DEF ReportReceive
<1>8. rx'[p] = Tail(rx[p]) /\ \A q \in Peers : q # p => rx'[q] = rx[q]
  BY <1>7 DEF BusTypeOK, ServerTypeOK, ENetTypeOK
<1>9. Waiting(h)
  BY <1>2, <1>3 DEF Waiting, Holds
<1>10. ASSUME NEW m \in Payloads, author[m] = author[h], Waiting(m), m # h
       PROVE  h < m
  <2> PICK q \in Peers : Holds(rx[q], "publish", m)
    BY <1>10 DEF Waiting
  <2>1. PICK i \in DOMAIN rx[q] : rx[q][i].type = "publish" /\ rx[q][i].payload = m
    BY DEF Holds
  <2>2. q = p
    BY <1>2, <1>3, <1>10, <2>1 DEF QueuesInOrder
  <2>3. 1 < i
    BY <1>1, <1>3, <1>10, <2>1, <2>2
  <2> QED
    BY <1>2, <1>3, <1>10, <2>1, <2>2, <2>3 DEF QueuesInOrder, InOrder
<1>11. ASSUME NEW q \in Peers, NEW i \in DOMAIN rx'[q], rx'[q][i].type = "publish",
              rx'[q][i].payload = h
       PROVE  FALSE
  <2>1. \A r \in Peers : \A j \in DOMAIN rx[r] :
          rx[r][j].type = "publish" /\ rx[r][j].payload = h => r = p /\ j = 1
    BY <1>2, <1>3, <1>4 DEF AtMostOnce, PublishOnce, IsPublish
  <2>2. CASE q # p
    BY <1>8, <1>11, <2>1, <2>2
  <2>3. CASE q = p
    <3>1. i + 1 \in DOMAIN rx[p] /\ rx'[p][i] = rx[p][i + 1] /\ i \in Nat \ {0}
      BY <1>1, <1>2, <1>8, <1>11, <2>3, InTail
    <3>2. i + 1 = 1
      BY <1>11, <2>1, <2>3, <3>1
    <3> QED
      BY <3>1, <3>2
  <2> QED
    BY <2>2, <2>3
<1> HIDE DEF h, x, targets
<1>12. ASSUME NEW m \in Payloads PROVE Waiting(m)' <=> Waiting(m) /\ m # h
  <2>1. /\ Holds(rx'[p], "publish", m) => Holds(rx[p], "publish", m)
        /\ Holds(rx[p], "publish", m) /\ m # h => Holds(rx'[p], "publish", m)
    BY <1>1, <1>2, <1>8, HoldsTail DEF h
  <2>2. \A q \in Peers : ~Holds(rx'[q], "publish", h)
    BY <1>11 DEF Holds
  <2> QED
    BY <1>8, <2>1, <2>2 DEF Waiting
<1>13. ASSUME NEW c \in Clients, NEW m \in Payloads
       PROVE  /\ Fanned(c, m)' <=> Fanned(c, m) \/ (m = h /\ Target(p, c))
              /\ Got(c, m)' <=> Got(c, m)
  <2>1. main' = main /\ delivered' = delivered
    OBVIOUS
  <2>2. CASE main[c] # NoEndpoint
    <3>1. main[c] \in Endpoints /\ inq[main[c]] \in Seq(Packets)
      BY <2>2 DEF BusTypeOK, ServerTypeOK, ENetTypeOK
    <3>2. Target(p, c) <=> \E a \in targets : remote[client[a].m_peer] = main[c]
      BY <2>2 DEF Target, targets
    <3>3. inq'[main[c]] = IF Target(p, c) THEN Append(inq[main[c]], x) ELSE inq[main[c]]
      BY <1>7, <3>1, <3>2
    <3>4. Holds(inq'[main[c]], "fanout", m) <=>
            Holds(inq[main[c]], "fanout", m) \/ (m = h /\ Target(p, c))
      BY <1>5, <3>1, <3>3, HoldsAppend
    <3> QED
      BY <2>1, <2>2, <3>4 DEF Fanned, Got
  <2> QED
    BY <2>1, <2>2 DEF Fanned, Got, Target
<1> QED
  BY <1>4, <1>6, <1>7, <1>9, <1>10, <1>12, <1>13 DEF h

(* A callback is given the first fanout of its inbox.                      *)
LEMMA DeliverFacts ==
  ASSUME BusTypeOK, ClientInv, AtMostOnce, ReachedInOrder, NEW c \in Clients,
         PollMessage(c), Head(inq[main[c]]).type = "fanout"
  PROVE  LET h == Head(inq[main[c]]).payload IN
         /\ h \in Payloads /\ Fanned(c, h)
         /\ author' = author /\ remote' = remote /\ main' = main /\ rx' = rx
         /\ inq[main[c]] # <<>> /\ inq' = [inq EXCEPT ![main[c]] = Tail(@)]
         /\ \E y \in [payload: Payloads, topic: Topics \cup {NoTopic}] :
              y.payload = h /\ delivered' = [delivered EXCEPT ![c] = Append(@, y)]
         /\ \A m \in Payloads : author[m] = author[h] /\ Fanned(c, m) /\ m # h => h < m
         /\ \A d \in Clients, m \in Payloads :
              /\ Got(d, m)' <=> Got(d, m) \/ (d = c /\ m = h)
              /\ Fanned(d, m)' <=> Fanned(d, m) /\ ~(d = c /\ m = h)
<1> USE ENetAssumption, BusAssumption
<1> DEFINE s == inq[main[c]]
           h == Head(s).payload
           y == [payload |-> h, topic |-> Label(c, Head(s).topic_key)]
<1>1. main[c] \in Endpoints /\ main[c] # NoEndpoint
  BY InUse DEF PollMessage
<1>2. s \in Seq(Packets) /\ s # <<>>
  BY <1>1 DEF PollMessage, Poll, HostReceive, BusTypeOK, ServerTypeOK, ENetTypeOK
<1>3. 1 \in DOMAIN s /\ Head(s) = s[1] /\ Head(s) \in Packets /\ Head(s).type = "fanout"
  BY <1>2
<1>4. h \in Payloads
  BY <1>3 DEF Packets
<1>5. /\ inq' = [inq EXCEPT ![main[c]] = Tail(@)]
      /\ author' = author /\ remote' = remote /\ main' = main /\ rx' = rx
      /\ delivered' = [delivered EXCEPT ![c] = Append(@, y)]
  BY DEF PollMessage, Poll, HostReceive
<1>6. y \in [payload: Payloads, topic: Topics \cup {NoTopic}] /\ y.payload = h
  BY <1>4 DEF Label, BusTypeOK
<1>7. inq'[main[c]] = Tail(s) /\ \A e \in Endpoints : e # main[c] => inq'[e] = inq[e]
  BY <1>1, <1>5 DEF BusTypeOK, ServerTypeOK, ENetTypeOK
<1>8. /\ delivered[c] \in Seq([payload: Payloads, topic: Topics \cup {NoTopic}])
      /\ delivered'[c] = Append(delivered[c], y)
      /\ \A d \in Clients : d # c => delivered'[d] = delivered[d]
  BY <1>5 DEF BusTypeOK
<1> HIDE DEF y
<1>9. \A j \in DOMAIN s : s[j].type = "fanout" /\ s[j].payload = h => j = 1
  BY <1>1, <1>3, <1>4 DEF AtMostOnce, FanoutOnce, IsFanout
<1>10. InOrder(s, "fanout", author)
  BY <1>1 DEF ReachedInOrder
<1>11. Fanned(c, h)
  BY <1>1, <1>3 DEF Fanned, Holds
<1> HIDE DEF s
<1>12. ASSUME NEW m \in Payloads, author[m] = author[h], Fanned(c, m), m # h
       PROVE  h < m
  <2>1. PICK i \in DOMAIN s : s[i].type = "fanout" /\ s[i].payload = m
    BY <1>12 DEF Fanned, Holds, s
  <2>2. 1 < i
    BY <1>2, <1>3, <1>12, <2>1
  <2> QED
    BY <1>3, <1>10, <1>12, <2>1, <2>2 DEF InOrder
<1>13. ~Holds(Tail(s), "fanout", h)
  <2>1. ASSUME NEW i \in DOMAIN Tail(s), Tail(s)[i].type = "fanout", Tail(s)[i].payload = h
        PROVE  FALSE
    <3>1. i \in Nat \ {0} /\ i + 1 \in DOMAIN s /\ Tail(s)[i] = s[i + 1]
      BY <1>2, InTail
    <3>2. i + 1 = 1
      BY <1>9, <2>1, <3>1
    <3> QED
      BY <3>1, <3>2
  <2> QED
    BY <2>1 DEF Holds
<1>14. ASSUME NEW m \in Payloads
       PROVE  Fanned(c, m)' <=> Fanned(c, m) /\ m # h
  <2>1. Holds(Tail(s), "fanout", m) <=> Holds(s, "fanout", m) /\ m # h
    BY <1>2, <1>13, HoldsTail
  <2> QED
    BY <1>1, <1>5, <1>7, <2>1 DEF Fanned, s
<1>15. ASSUME NEW d \in Clients, d # c, NEW m \in Payloads
       PROVE  (Fanned(d, m)' <=> Fanned(d, m)) /\ (Got(d, m)' <=> Got(d, m))
  <2>1. main[d] # NoEndpoint => main[d] \in Endpoints /\ main[d] # main[c]
    BY <1>1, <1>15 DEF BusTypeOK, ClientInv, HostsSound
  <2> QED
    BY <1>5, <1>7, <1>8, <1>15, <2>1 DEF Fanned, Got
<1>16. ASSUME NEW m \in Payloads PROVE Got(c, m)' <=> Got(c, m) \/ m = h
  <2> DEFINE t == delivered[c]
  <2> HIDE DEF t
  <2>1. t \in Seq([payload: Payloads, topic: Topics \cup {NoTopic}])
        /\ delivered'[c] = Append(t, y)
    BY <1>8 DEF t
  <2>2. \A i \in DOMAIN t : i \in DOMAIN Append(t, y) /\ Append(t, y)[i] = t[i]
    BY <2>1
  <2>3. Len(t) + 1 \in DOMAIN Append(t, y) /\ Append(t, y)[Len(t) + 1] = y
    BY <2>1, <1>6
  <2>4. ASSUME NEW i \in DOMAIN Append(t, y)
        PROVE  (i \in DOMAIN t /\ Append(t, y)[i] = t[i]) \/ Append(t, y)[i] = y
    BY <1>6, <2>1, InAppend
  <2> QED
    BY <1>6, <2>1, <2>2, <2>3, <2>4 DEF Got, t
<1> QED
  BY <1>2, <1>4, <1>5, <1>6, <1>11, <1>12, <1>14, <1>15, <1>16 DEF s

(* A link that is up was up before, unless its host is new.                *)
LEMMA LinksCut ==
  ASSUME BusTypeOK, ClientInv, FanoutInv, [BusNext]_busVars, NEW e \in Endpoints,
         endpoint[e] # "new", NEW p \in Peers, remote'[p] = e
  PROVE  remote[p] = e
<1>1. [OpenNext]_serverVars /\ ServerTypeOK
  BY BusStepsAreOpen DEF BusTypeOK
<1> QED
  BY <1>1, LinkSteps, ENetAssumption

(* Payload m was dropped with its slot, and so was all of its author that  *)
(* waited with it.                                                         *)
Dropped(m) ==
  /\ \A p \in Peers : remote'[p] # author[m]
  /\ \A k \in Payloads : author[k] = author[m] => ~Waiting(k)'

(* A quiet step only drops payloads, and with their link.                  *)
LEMMA QuietWaiting ==
  ASSUME BusTypeOK, ClientInv, FanoutInv, QueuesInOrder, [BusNext]_busVars, Quiet,
         NEW m \in Payloads
  PROVE  /\ Waiting(m)' => Waiting(m)
         /\ Waiting(m) => Waiting(m)' \/ Dropped(m)
<1> USE ENetAssumption
<1>1. \A p \in Peers : rx[p] \in Seq(Packets)
  BY DEF BusTypeOK, ServerTypeOK, ENetTypeOK
<1>2. ASSUME NEW p \in Peers, NEW n
      PROVE  /\ Holds(rx'[p], "publish", n) => Holds(rx[p], "publish", n)
             /\ Holds(rx[p], "publish", n) =>
                  \/ Holds(rx'[p], "publish", n)
                  \/ rx'[p] = <<>> /\ remote'[p] = NoEndpoint
  <2>1. QuietQueue(p)
    BY DEF Quiet
  <2>2. CASE rx'[p] = rx[p]
    BY <2>2
  <2>3. CASE rx'[p] = <<>> /\ remote'[p] = NoEndpoint
    BY <2>3, HoldsNothing
  <2>4. CASE rx[p] # <<>> /\ rx'[p] = Tail(rx[p]) /\ Head(rx[p]).type # "publish"
    BY <1>1, <2>4, HoldsTail
  <2>5. ASSUME NEW x \in Packets, rx'[p] = Append(rx[p], x), x.type # "publish"
        PROVE  Holds(rx'[p], "publish", n) <=> Holds(rx[p], "publish", n)
    BY <1>1, <2>5, HoldsAppend
  <2> QED
    BY <2>1, <2>2, <2>3, <2>4, <2>5 DEF QuietQueue
<1>3. ASSUME NEW p \in Peers, Holds(rx[p], "publish", m), rx'[p] = <<>>,
             remote'[p] = NoEndpoint
      PROVE  Dropped(m)
  <2>1. PICK i \in DOMAIN rx[p] : rx[p][i].type = "publish" /\ rx[p][i].payload = m
    BY <1>3 DEF Holds
  <2>2. /\ author[m] \in Endpoints /\ endpoint[author[m]] # "new"
        /\ \A q \in Peers : remote[q] = author[m] => q = p
    BY <2>1, WaitingSound
  <2>3. \A q \in Peers : remote'[q] # author[m]
    BY <1>3, <2>2, LinksCut
  <2>4. ASSUME NEW k \in Payloads, author[k] = author[m], NEW q \in Peers,
               Holds(rx'[q], "publish", k)
        PROVE  FALSE
    <3>1. q # p
      BY <1>3, <2>4, HoldsNothing
    <3>2. PICK j \in DOMAIN rx[q] : rx[q][j].type = "publish" /\ rx[q][j].payload = k
      BY <1>2, <2>4 DEF Holds
    <3> QED
      BY <2>1, <2>4, <3>1, <3>2 DEF QueuesInOrder
  <2> QED
    BY <2>3, <2>4 DEF Dropped, Waiting
<1> QED
  BY <1>2, <1>3 DEF Waiting

(* A quiet step forwards nothing, and what it drops, it drops with the     *)
(* link.                                                                   *)
LEMMA QuietFanned ==
  ASSUME BusTypeOK, ClientInv, [BusNext]_busVars, Quiet, delivered' = delivered,
         NEW c \in Clients
  PROVE  /\ \A m \in Payloads : Got(c, m)' <=> Got(c, m)
         /\ \A m \in Payloads : Fanned(c, m)' => Fanned(c, m)
         /\ \/ \A m \in Payloads : Fanned(c, m) => Fanned(c, m)'
            \/ ~Linked(main[c])' /\ \A m \in Payloads : ~Fanned(c, m)'
         /\ main'[c] # NoEndpoint =>
              \/ inq'[main'[c]] = inq[main'[c]] \/ inq'[main'[c]] = <<>>
              \/ inq[main'[c]] # <<>> /\ inq'[main'[c]] = Tail(inq[main'[c]])
              \/ \E x \in Packets :
                   inq'[main'[c]] = Append(inq[main'[c]], x) /\ x.type # "fanout"
<1> USE ENetAssumption
<1>1. \A m \in Payloads : Got(c, m)' <=> Got(c, m)
  BY DEF Got
<1>2. CASE main'[c] = NoEndpoint
  <2>1. main[c] = NoEndpoint
    BY <1>2, HistorySteps
  <2> QED
    BY <1>1, <1>2, <2>1 DEF Fanned
<1>3. CASE main'[c] \in Endpoints /\ endpoint[main'[c]] = "new" /\ inq' = inq
  <2>1. main[c] = NoEndpoint
    BY <1>3, HistorySteps DEF ClientInv, HostsSound
  <2>2. inq'[main'[c]] = <<>> /\ inq'[main'[c]] = inq[main'[c]]
    BY <1>3 DEF ClientInv, HostsSound
  <2>3. \A m \in Payloads : ~Fanned(c, m)' /\ ~Fanned(c, m)
    BY <2>1, <2>2, HoldsNothing DEF Fanned
  <2> QED
    BY <1>1, <2>2, <2>3
<1>4. CASE main'[c] = main[c] /\ main[c] \in Endpoints
  <2> DEFINE s == inq[main[c]]
             t == inq'[main[c]]
  <2>1. s \in Seq(Packets) /\ QuietInbox(main[c])
    BY <1>4 DEF Quiet, BusTypeOK, ServerTypeOK, ENetTypeOK
  <2>2. \A m \in Payloads : /\ Fanned(c, m) <=> Holds(s, "fanout", m)
                            /\ Fanned(c, m)' <=> Holds(t, "fanout", m)
    BY <1>4 DEF Fanned
  <2>3. Linked(main[c])' <=> \E p \in Peers : remote'[p] = main[c]
    BY <1>4 DEF Linked
  <2> HIDE DEF s, t
  <2>4. CASE t = s
    BY <1>1, <1>4, <2>2, <2>4 DEF s, t
  <2>5. CASE t = <<>> /\ \A p \in Peers : remote'[p] # main[c]
    <3>1. \A m \in Payloads : ~Fanned(c, m)'
      BY <2>2, <2>5, HoldsNothing
    <3> QED
      BY <1>1, <1>4, <2>3, <2>5, <3>1 DEF t
  <2>6. CASE s # <<>> /\ t = Tail(s) /\ Head(s).type # "fanout"
    <3>1. \A m \in Payloads : Holds(t, "fanout", m) <=> Holds(s, "fanout", m)
      BY <2>1, <2>6, HoldsTail
    <3> QED
      BY <1>1, <1>4, <2>2, <2>6, <3>1 DEF s, t
  <2>7. ASSUME NEW x \in Packets, t = Append(s, x), x.type # "fanout"
        PROVE  \A m \in Payloads : Holds(t, "fanout", m) <=> Holds(s, "fanout", m)
    BY <2>1, <2>7, HoldsAppend
  <2>8. CASE \E x \in Packets : t = Append(s, x) /\ x.type # "fanout"
    <3>1. \A m \in Payloads : Fanned(c, m)' <=> Fanned(c, m)
      BY <2>2, <2>7, <2>8
    <3> QED
      BY <1>1, <1>4, <2>8, <3>1 DEF s, t
  <2> QED
    BY <2>1, <2>4, <2>5, <2>6, <2>8 DEF QuietInbox, s, t
<1> QED
  BY <1>2, <1>3, <1>4, MainSteps

-----------------------------------------------------------------------------
(* Subscriptions.                                                          *)

(* While nobody unsubscribes, the subscriptions of a slot stay as long as  *)
(* its link.                                                               *)
LEMMA SubscriptionStays ==
  ASSUME ServerTypeOK, RegistryConsistent, [OpenNext]_serverVars,
         \A p \in Peers : \A i \in DOMAIN rx[p] : rx[p][i].type # "unsubscribe",
         NEW q \in Peers, peer_state[q] = "connected", remote'[q] # NoEndpoint,
         NEW k \in client[peer_data[q]].subscribed_topics
  PROVE  peer_state'[q] = "connected" /\ k \in client'[peer_data'[q]].subscribed_topics
<1> USE ENetAssumption, ServerAssumption
<1>1. peer_data[q] \in live /\ client[peer_data[q]].m_peer = q /\ peer_data[q] \in Addrs
  BY DEF RegistryConsistent, ServerTypeOK
<1>2. CASE UNCHANGED <<client, peer_data, peer_state>>
  BY <1>2
<1>3. CASE Restart
  BY <1>3 DEF Restart, ServerHostReplaced
<1>4. ASSUME NEW p \in Peers, OnConnect(p)
      PROVE  peer_state'[q] = "connected" /\ k \in client'[peer_data'[q]].subscribed_topics
  <2>1. p # q /\ peer_state'[q] = peer_state[q]
    BY <1>4 DEF OnConnect, ReportConnect, ServerTypeOK, ENetTypeOK
  <2>2. PICK a \in Addrs \ live :
          /\ client' = [client EXCEPT ![a] =
               [m_id |-> m_next_client_id, m_peer |-> p, subscribed_topics |-> {}]]
          /\ peer_data' = [peer_data EXCEPT ![p] = a]
    BY <1>4 DEF OnConnect, create_client
  <2>3. peer_data'[q] = peer_data[q] /\ client'[peer_data[q]] = client[peer_data[q]]
    BY <1>1, <2>1, <2>2 DEF ServerTypeOK
  <2> QED
    BY <2>1, <2>3
<1>5. ASSUME NEW p \in Peers, OnDisconnect(p)
      PROVE  peer_state'[q] = "connected" /\ k \in client'[peer_data'[q]].subscribed_topics
  <2> DEFINE b == peer_data[p]
  <2>1. /\ peer_state[p] = "connected" /\ remote' = [remote EXCEPT ![p] = NoEndpoint]
        /\ peer_state' = [peer_state EXCEPT ![p] = "free"]
        /\ client' = [client EXCEPT ![m_client_map[client[b].m_id]] = NoRecord]
        /\ peer_data' = peer_data
    BY <1>5 DEF OnDisconnect, ReportDisconnect, ReleaseSlot, destroy_client
  <2>2. p # q
    BY <2>1 DEF ServerTypeOK, ENetTypeOK
  <2>3. /\ b \in live /\ client[b].m_peer = p /\ m_client_map[client[b].m_id] = b
    BY <2>1 DEF RegistryConsistent
  <2>4. b # peer_data[q]
    BY <1>1, <2>2, <2>3
  <2> HIDE DEF b
  <2> QED
    BY <1>1, <2>1, <2>2, <2>3, <2>4 DEF ServerTypeOK, ENetTypeOK
<1>6. ASSUME NEW p \in Peers, OnAbandoned(p)
      PROVE  UNCHANGED <<client, peer_data>> /\ peer_state'[q] = peer_state[q]
  BY <1>6 DEF OnAbandoned, AbandonPending, ReleaseSlot, ServerTypeOK, ENetTypeOK
<1>7. ASSUME NEW p \in Peers, OnTopicRequest(p) \/ OnPublish(p) \/ OnIgnored(p)
      PROVE  UNCHANGED <<client, peer_data, peer_state>>
  BY <1>7 DEF OnTopicRequest, OnPublish, OnIgnored, ReportReceive
<1>8. ASSUME NEW p \in Peers, OnSubscribe(p)
      PROVE  peer_state'[q] = "connected" /\ k \in client'[peer_data'[q]].subscribed_topics
  <2>1. /\ client' = [client EXCEPT ![peer_data[p]].subscribed_topics =
                        client[peer_data[p]].subscribed_topics \cup {Head(rx[p]).topic_key}]
        /\ UNCHANGED <<peer_data, peer_state>>
    BY <1>8 DEF OnSubscribe, SetSubscriptions, ReportReceive
  <2>2. CASE peer_data[p] = peer_data[q]
    BY <1>1, <2>1, <2>2 DEF ServerTypeOK, ClientRecords
  <2>3. CASE peer_data[p] # peer_data[q]
    BY <1>1, <2>1, <2>3 DEF ServerTypeOK
  <2> QED
    BY <2>2, <2>3
<1>9. ASSUME NEW p \in Peers, OnUnsubscribe(p) PROVE FALSE
  BY <1>9 DEF OnUnsubscribe, Receiving, ServerTypeOK, ENetTypeOK
<1>10. ASSUME NEW e \in Endpoints,
              \/ \E p \in Peers : Connect(p, e) \/ ConnectLate(p, e)
              \/ \E packet \in Packets : Send(e, packet)
              \/ Poll(e) \/ Lose(e) \/ Close(e)
       PROVE  UNCHANGED <<client, peer_data>> /\ peer_state'[q] = peer_state[q]
  BY <1>10 DEF Connect, ConnectLate, Send, Poll, Lose, Close, HostConnect, HostConnectLate,
       HostSend, HostReceive, HostDisconnected, HostDestroy, Untouched, ServerTypeOK, ENetTypeOK
<1> QED
  BY <1>2, <1>3, <1>4, <1>5, <1>6, <1>7, <1>8, <1>9, <1>10
     DEF OpenNext, OpenEnvironment, process

(* The slot of a linked client that something of the same topic reached is *)
(* among the targets of the next publish.                                  *)
LEMMA TargetOfStream ==
  ASSUME BusInv, OrderInv, NEW p \in Peers, OnPublish(p), NEW c \in Clients, NEW m \in Payloads,
         Reached(c, m), Linked(main[c]), SameStream(m, Head(rx[p]).payload)
  PROVE  Target(p, c)
<1> USE ENetAssumption DEF BusInv, ServerInv, DeliveryInv, OrderInv
<1> DEFINE h == Head(rx[p]).payload
           k == Head(rx[p]).topic_key
           b == peer_data[p]
<1>1. /\ 1 \in DOMAIN rx[p] /\ Head(rx[p]) = rx[p][1] /\ rx[p][1].type = "publish"
      /\ peer_state[p] = "connected"
  BY DEF OnPublish, Receiving, BusTypeOK, ServerTypeOK, ENetTypeOK
<1>2. KnownAs(intended[h], k)
  BY <1>1 DEF KeysSound, KeySound
<1>3. main[c] \in Endpoints /\ author[m] # main[c]
  BY ReachedSound
<1>4. PICK q \in Peers : remote[q] = main[c]
  BY DEF Linked
<1> DEFINE a == peer_data[q]
<1>5. /\ peer_state[q] = "connected" /\ k \in client[a].subscribed_topics
  BY <1>2, <1>4 DEF StillSubscribed, SubscribedAt, SameStream, KnownAs
<1>6. q # p
  BY <1>1, <1>3, <1>4 DEF QueuesInOrder, SameStream, SameAuthor
<1>7. /\ a \in live /\ client[a].m_peer = q /\ b \in live /\ client[b].m_peer = p
      /\ m_client_map[client[a].m_id] = a /\ m_client_map[client[b].m_id] = b
      /\ m_clients = live
  BY <1>1, <1>5 DEF RegistryConsistent
<1>8. client[a].m_id # client[b].m_id
  BY <1>6, <1>7
<1>9. a \in FanoutTargets(b, k)
  BY <1>5, <1>7, <1>8 DEF FanoutTargets
<1> QED
  BY <1>3, <1>4, <1>7, <1>9 DEF Target

(* Something reaches a client only when the server forwards it.            *)
LEMMA ReachedSteps ==
  ASSUME BusInv, OrderInv, [BusNext]_busVars, NEW c \in Clients, NEW m \in Payloads,
         Reached(c, m)'
  PROVE  \/ Reached(c, m)
         \/ \E p \in Peers : /\ OnPublish(p) /\ UNCHANGED <<clientVars, ghostVars>>
                             /\ m = Head(rx[p]).payload /\ Target(p, c)
<1> USE DEF BusInv, ServerInv, OrderInv, Reached
<1>1. ASSUME NEW d \in Clients, NEW n \in Payloads, NEW key \in Nat, PublishSent(d, n, key)
      PROVE  Reached(c, m)
  BY <1>1, SendFacts
<1>2. ASSUME NEW p \in Peers, OnPublish(p), UNCHANGED <<clientVars, ghostVars>>
      PROVE  Reached(c, m) \/ (m = Head(rx[p]).payload /\ Target(p, c))
  BY <1>2, ForwardFacts
<1>3. ASSUME NEW d \in Clients, PollMessage(d), Head(inq[main[d]]).type = "fanout"
      PROVE  Reached(c, m)
  BY <1>3, DeliverFacts
<1>4. CASE Quiet /\ delivered' = delivered
  BY <1>4, QuietFanned
<1> QED
  BY <1>1, <1>2, <1>3, <1>4, StepKinds

(* StillSubscribed is preserved.                                           *)
LEMMA StepKeepsSubscribed ==
  ASSUME BusInv, OrderInv, [BusNext]_busVars
  PROVE  StillSubscribed'
<1> USE ENetAssumption, BusAssumption
<1>1. [OpenNext]_serverVars /\ ServerTypeOK
  BY BusStepsAreOpen DEF BusInv, BusTypeOK
<1>2. ASSUME NEW c \in Clients, NEW m \in Payloads, NEW q \in Peers, Reached(c, m)',
             remote'[q] = main'[c]
      PROVE  SubscribedAt(q, intended[m])'
  <2>1. CASE Reached(c, m)
    <3>1. main[c] \in Endpoints /\ intended[m] \in wanted[c]
      BY <2>1, ReachedSound DEF BusInv, ServerInv, DeliveryInv
    <3>2. main'[c] = main[c] /\ endpoint[main[c]] # "new"
      BY <3>1, HistorySteps DEF BusInv, ClientInv, HostsSound
    <3>3. remote[q] = main[c]
      BY <1>2, <3>1, <3>2, LinksCut DEF BusInv, ServerInv
    <3>4. intended'[m] = intended[m]
      BY <3>1, IntendedKept DEF BusInv
    <3>5. SubscribedAt(q, intended[m])
      BY <2>1, <3>3 DEF OrderInv, StillSubscribed
    <3>6. restarts' = restarts
      BY <1>1, <1>2, <3>1, <3>2, LinkSteps DEF BusInv, ServerInv
    <3>7. intended[m] \in DOMAIN m_map' /\ m_map'[intended[m]] = m_map[intended[m]]
      BY <1>1, <3>5, <3>6, StepKeepsKeys DEF BusInv, ServerInv, SubscribedAt
    <3>8. /\ peer_state'[q] = "connected"
          /\ m_map[intended[m]] \in client'[peer_data'[q]].subscribed_topics
      BY <1>1, <1>2, <3>1, <3>2, <3>5, SubscriptionStays
         DEF BusInv, ServerInv, OrderInv, StillSubscribed, SubscribedAt
    <3> QED
      BY <3>4, <3>7, <3>8 DEF SubscribedAt
  <2>2. ASSUME NEW p \in Peers, OnPublish(p), UNCHANGED <<clientVars, ghostVars>>,
               m = Head(rx[p]).payload, Target(p, c)
        PROVE  SubscribedAt(q, intended[m])'
    <3>1. PICK a \in FanoutTargets(peer_data[p], Head(rx[p]).topic_key) :
                 remote[client[a].m_peer] = main[c]
      BY <2>2 DEF Target
    <3>2. /\ UNCHANGED <<registryVars, m_map, remote, peer_state, main, intended>>
          /\ 1 \in DOMAIN rx[p] /\ Head(rx[p]) = rx[p][1] /\ rx[p][1].type = "publish"
      BY <1>1, <2>2 DEF OnPublish, ReportReceive, Receiving, ServerTypeOK, ENetTypeOK
    <3>3. KnownAs(intended[m], Head(rx[p]).topic_key)
      BY <2>2, <3>2 DEF BusInv, DeliveryInv, KeysSound, KeySound
    <3>4. /\ a \in live /\ client[a].m_peer \in Peers /\ peer_data[client[a].m_peer] = a
          /\ peer_state[client[a].m_peer] = "connected"
          /\ Head(rx[p]).topic_key \in client[a].subscribed_topics
      BY <3>1 DEF BusInv, ServerInv, RegistryConsistent, FanoutTargets
    <3>5. q = client[a].m_peer
      BY <1>2, <2>2, <3>1, <3>2, <3>4
         DEF BusInv, ServerInv, FanoutInv, LinksSound, Target
    <3> QED
      BY <3>2, <3>3, <3>4, <3>5 DEF SubscribedAt, KnownAs
  <2> QED
    BY <1>2, <2>1, <2>2, ReachedSteps
<1>3. ASSUME NEW p \in Peers, NEW i \in DOMAIN rx'[p] PROVE rx'[p][i].type # "unsubscribe"
  <2>1. rx[p] \in Seq(Packets) /\ \A j \in DOMAIN rx[p] : rx[p][j].type # "unsubscribe"
    BY <1>1 DEF ServerTypeOK, ENetTypeOK, OrderInv, StillSubscribed
  <2>2. QueueStep(p)
    BY EveryQueueSteps DEF BusInv, OrderInv
  <2>3. CASE rx[p] # <<>> /\ rx'[p] = Tail(rx[p])
    BY <2>1, <2>3, InTail
  <2>4. ASSUME NEW x \in Packets, rx'[p] = Append(rx[p], x), x.type # "unsubscribe"
        PROVE  rx'[p][i].type # "unsubscribe"
    BY <2>1, <2>4, InAppend
  <2> QED
    BY <2>1, <2>2, <2>3, <2>4 DEF QueueStep
<1> QED
  BY <1>2, <1>3 DEF StillSubscribed

-----------------------------------------------------------------------------
(* Order.                                                                  *)

(* The author and the topic of a payload that was sent stay.               *)
LEMMA StreamsStay ==
  ASSUME BusInv, OrderInv, [BusNext]_busVars, NEW m \in Payloads, author[m] # NoEndpoint
  PROVE  author'[m] = author[m] /\ intended'[m] = intended[m]
<1>1. [OpenNext]_serverVars /\ ServerTypeOK
  BY BusStepsAreOpen DEF BusInv, BusTypeOK
<1>2. author'[m] = author[m]
  BY <1>1, LinkSteps DEF BusInv, ServerInv
<1>3. intended'[m] = intended[m]
  BY HistorySteps DEF BusInv, OrderInv, SentSound
<1> QED
  BY <1>2, <1>3

(* What waits or has reached a client has an author.                       *)
LEMMA Authored ==
  ASSUME BusInv, NEW m \in Payloads, Waiting(m) \/ \E c \in Clients : Reached(c, m)
  PROVE  author[m] \in Endpoints
<1>1. CASE Waiting(m)
  BY <1>1, WaitingSound DEF BusInv, ServerInv, Waiting, Holds
<1>2. CASE \E c \in Clients : Reached(c, m)
  BY <1>2, ReachedSound DEF BusInv, ServerInv, DeliveryInv
<1> QED
  BY <1>1, <1>2

(* The inbox of a client, one kind of step at a time.                      *)
LEMMA InboxInOrder ==
  ASSUME BusInv, OrderInv, [BusNext]_busVars, NEW c \in Clients, main'[c] # NoEndpoint
  PROVE  InOrder(inq'[main'[c]], "fanout", author')
<1> USE ENetAssumption DEF BusInv, ServerInv, DeliveryInv, OrderInv
<1> DEFINE writer == author'
<1>1. ASSUME main'[c] = main[c], main[c] \in Endpoints
      PROVE  inq[main[c]] \in Seq(Packets) /\ InOrder(inq[main[c]], "fanout", writer)
  <2> DEFINE s == inq[main[c]]
  <2>1. s \in Seq(Packets) /\ InOrder(s, "fanout", author)
    BY <1>1 DEF BusTypeOK, ServerTypeOK, ENetTypeOK, ReachedInOrder
  <2>2. ASSUME NEW i \in DOMAIN s, s[i].type = "fanout"
        PROVE  author'[s[i].payload] = author[s[i].payload]
    <3>1. Reached(c, s[i].payload)
      BY <1>1, <2>2 DEF Reached, Fanned, Holds
    <3>2. s[i].payload \in Payloads /\ author[s[i].payload] # NoEndpoint
      BY <3>1, ReachedSound
    <3> QED
      BY <3>2, StreamsStay
  <2> HIDE DEF s
  <2>3. InOrder(s, "fanout", writer)
    BY <2>1, <2>2 DEF InOrder
  <2> QED
    BY <2>1, <2>3 DEF s
<1>2. InOrder(<<>>, "fanout", writer)
  BY DEF InOrder
<1>3. ASSUME NEW s \in Seq(Packets), InOrder(s, "fanout", writer), s # <<>> PROVE InOrder(Tail(s), "fanout", writer)
  BY <1>3, OrderTail
<1>4. ASSUME NEW s \in Seq(Packets), InOrder(s, "fanout", writer), NEW x \in Packets, x.type # "fanout"
      PROVE  InOrder(Append(s, x), "fanout", writer)
  BY <1>4, OrderAppend
<1>5. CASE main'[c] \in Endpoints /\ endpoint[main'[c]] = "new" /\ inq' = inq
  BY <1>2, <1>5 DEF ClientInv, HostsSound
<1> HIDE DEF writer
<1>6. CASE main'[c] = main[c] /\ main[c] \in Endpoints
  <2>1. inq[main[c]] \in Seq(Packets) /\ InOrder(inq[main[c]], "fanout", writer)
    BY <1>1, <1>6
  <2>2. ASSUME NEW d \in Clients, NEW n \in Payloads, NEW key \in Nat, PublishSent(d, n, key)
        PROVE  InOrder(inq'[main[c]], "fanout", writer)
    BY <2>1, <2>2 DEF PublishSent, Send, HostSend
  <2>3. ASSUME NEW p \in Peers, OnPublish(p), UNCHANGED <<clientVars, ghostVars>>
        PROVE  InOrder(inq'[main[c]], "fanout", writer)
    <3> DEFINE s == inq[main[c]]
               h == Head(rx[p]).payload
               x == fanout(Head(rx[p]).topic_key, h)
    <3>1. inq'[main[c]] = s \/ inq'[main[c]] = Append(s, x)
      BY <1>6, <2>3 DEF OnPublish, ReportReceive
    <3>2. h \in Payloads /\ author[h] \in Endpoints /\ Waiting(h) /\ author' = author
      BY <2>3, ForwardFacts
    <3>3. Head(rx[p]).topic_key \in Nat
      BY <2>3, HeadTyped, PacketFields
         DEF OnPublish, Receiving, BusTypeOK, ServerTypeOK
    <3>4. x \in Packets /\ x.type = "fanout" /\ x.payload = h
      BY <3>2, <3>3, PacketsTyped DEF fanout, construct
    <3>5. ASSUME NEW i \in DOMAIN s, s[i].type = "fanout", author[s[i].payload] = author[h]
          PROVE  s[i].payload < h
      <4>1. Reached(c, s[i].payload)
        BY <1>6, <3>5 DEF Reached, Fanned, Holds
      <4>2. s[i].payload \in Payloads /\ author[s[i].payload] # NoEndpoint
        BY <4>1, ReachedSound
      <4> QED
        BY <3>2, <3>5, <4>1, <4>2 DEF ReachedInOrder, SameAuthor
    <3> HIDE DEF s, h, x
    <3>6. InOrder(s, "fanout", writer) /\ s \in Seq(Packets)
      BY <2>1 DEF s
    <3>7. InOrder(Append(s, x), "fanout", writer)
      BY <3>2, <3>4, <3>5, <3>6, OrderAppend DEF writer
    <3> QED
      BY <3>1, <3>6, <3>7
  <2>4. ASSUME NEW d \in Clients, PollMessage(d), Head(inq[main[d]]).type = "fanout"
        PROVE  InOrder(inq'[main[c]], "fanout", writer)
    <3>1. \/ inq'[main[c]] = inq[main[c]]
          \/ inq[main[c]] # <<>> /\ inq'[main[c]] = Tail(inq[main[c]])
      BY <1>6, <2>4 DEF PollMessage, Poll, HostReceive, BusTypeOK, ServerTypeOK, ENetTypeOK
    <3> QED
      BY <1>3, <2>1, <3>1
  <2>5. ASSUME Quiet, delivered' = delivered
        PROVE  InOrder(inq'[main[c]], "fanout", writer)
    <3>1. \/ inq'[main[c]] = inq[main[c]] \/ inq'[main[c]] = <<>>
          \/ inq[main[c]] # <<>> /\ inq'[main[c]] = Tail(inq[main[c]])
          \/ \E x \in Packets : inq'[main[c]] = Append(inq[main[c]], x) /\ x.type # "fanout"
      BY <1>6, <2>5, QuietFanned
    <3>2. CASE inq'[main[c]] = inq[main[c]] \/ inq'[main[c]] = <<>>
      BY <1>2, <2>1, <3>2
    <3>3. CASE inq[main[c]] # <<>> /\ inq'[main[c]] = Tail(inq[main[c]])
      BY <1>3, <2>1, <3>3
    <3>4. ASSUME NEW x \in Packets, inq'[main[c]] = Append(inq[main[c]], x), x.type # "fanout"
          PROVE  InOrder(inq'[main[c]], "fanout", writer)
      BY <1>4, <2>1, <3>4
    <3> QED
      BY <3>1, <3>2, <3>3, <3>4
  <2>6. InOrder(inq'[main[c]], "fanout", writer)
    <3>1. \/ \E d \in Clients, n \in Payloads, key \in Nat : PublishSent(d, n, key)
          \/ \E p \in Peers : OnPublish(p) /\ UNCHANGED <<clientVars, ghostVars>>
          \/ \E d \in Clients : PollMessage(d) /\ Head(inq[main[d]]).type = "fanout"
          \/ Quiet /\ delivered' = delivered
      BY StepKinds
    <3> QED
      BY <2>2, <2>3, <2>4, <2>5, <3>1
  <2> QED
    BY <1>6, <2>6 DEF writer
<1> QED
  BY <1>5, <1>6, MainSteps DEF writer

(* What the callbacks of a client were given.                              *)
LEMMA DeliveredInOrder ==
  ASSUME BusInv, OrderInv, [BusNext]_busVars, NEW c \in Clients,
         NEW i \in DOMAIN delivered'[c], NEW j \in DOMAIN delivered'[c], i < j,
         author'[delivered'[c][i].payload] = author'[delivered'[c][j].payload]
  PROVE  delivered'[c][i].payload < delivered'[c][j].payload
<1> USE ENetAssumption DEF BusInv, ServerInv, DeliveryInv, OrderInv
<1> DEFINE s == delivered[c]
           Deliveries == [payload: Payloads, topic: Topics \cup {NoTopic}]
<1>1. s \in Seq(Deliveries)
  BY DEF BusTypeOK
<1>2. ASSUME NEW k \in DOMAIN s
      PROVE  /\ Got(c, s[k].payload) /\ s[k].payload \in Payloads
             /\ author[s[k].payload] # NoEndpoint
             /\ author'[s[k].payload] = author[s[k].payload]
  <2>1. Got(c, s[k].payload)
    BY DEF Got
  <2>2. s[k].payload \in Payloads /\ author[s[k].payload] # NoEndpoint
    BY <2>1, ReachedSound DEF Reached
  <2> QED
    BY <2>1, <2>2, StreamsStay
<1>3. ASSUME NEW k \in DOMAIN s, NEW l \in DOMAIN s, k < l,
             author'[s[k].payload] = author'[s[l].payload]
      PROVE  s[k].payload < s[l].payload
  BY <1>2, <1>3 DEF ReachedInOrder
<1>4. CASE delivered'[c] = delivered[c]
  BY <1>3, <1>4
<1>5. ASSUME PollMessage(c), Head(inq[main[c]]).type = "fanout"
      PROVE  delivered'[c][i].payload < delivered'[c][j].payload
  <2> DEFINE h == Head(inq[main[c]]).payload
  <2>1. h \in Payloads /\ Fanned(c, h) /\ author' = author
    BY <1>5, DeliverFacts
  <2>2. PICK y \in Deliveries :
          y.payload = h /\ delivered' = [delivered EXCEPT ![c] = Append(@, y)]
    BY <1>5, DeliverFacts
  <2>3. delivered'[c] = Append(s, y)
    BY <2>2 DEF BusTypeOK
  <2> HIDE DEF s, h, Deliveries
  <2>4. i \in DOMAIN s /\ delivered'[c][i] = s[i]
    BY <1>1, <2>2, <2>3
  <2>5. \/ j \in DOMAIN s /\ delivered'[c][j] = s[j]
        \/ delivered'[c][j] = y
    BY <1>1, <2>2, <2>3, InAppend
  <2>6. CASE delivered'[c][j] = y
    <3>1. /\ Got(c, s[i].payload) /\ s[i].payload \in Payloads
          /\ author[s[i].payload] # NoEndpoint /\ author[s[i].payload] = author[h]
      BY <1>2, <2>1, <2>2, <2>4, <2>6
    <3>2. s[i].payload < h
      BY <2>1, <3>1 DEF ReachedInOrder, SameAuthor
    <3> QED
      BY <2>2, <2>4, <2>6, <3>2
  <2>7. CASE j \in DOMAIN s /\ delivered'[c][j] = s[j]
    BY <1>3, <2>4, <2>7
  <2> QED
    BY <2>5, <2>6, <2>7
<1>6. ASSUME NEW d \in Clients, d # c, PollMessage(d) PROVE delivered'[c] = delivered[c]
  BY <1>6, OthersStand DEF Receive
<1> QED
  BY <1>4, <1>5, <1>6, DeliverySteps

(* What was given to a callback before what waits for it, and that before  *)
(* what waits at the server.                                               *)
LEMMA PlacesInOrder ==
  ASSUME BusInv, OrderInv, [BusNext]_busVars, NEW c \in Clients, NEW m \in Payloads,
         NEW n \in Payloads, SameAuthor(m, n)'
  PROVE  /\ Got(c, m)' /\ Fanned(c, n)' => m < n
         /\ Reached(c, m)' /\ Waiting(n)' => m < n
<1> USE ENetAssumption DEF Reached
<1>1. /\ BusTypeOK /\ ClientInv /\ ResolveInv /\ FanoutInv /\ AtMostOnce /\ SentSound
      /\ QueuesInOrder /\ ReachedInOrder
  BY DEF BusInv, ServerInv, OrderInv
<1>2. SameAuthor(m, n) => /\ Got(c, m) /\ Fanned(c, n) => m < n
                          /\ Reached(c, m) /\ Waiting(n) => m < n
  BY <1>1 DEF ReachedInOrder
<1>3. ASSUME NEW d \in Clients, NEW k \in Payloads, NEW key \in Nat, PublishSent(d, k, key)
      PROVE  /\ Got(c, m)' /\ Fanned(c, n)' => m < n
             /\ Reached(c, m)' /\ Waiting(n)' => m < n
  <2>1. /\ author[k] = NoEndpoint /\ author' = [author EXCEPT ![k] = main[d]]
        /\ Waiting(n)' <=> Waiting(n) \/ (n = k /\ Linked(main[d]))
        /\ Fanned(c, n)' <=> Fanned(c, n)
        /\ Fanned(c, m)' <=> Fanned(c, m)
        /\ Got(c, m)' <=> Got(c, m)
    BY <1>1, <1>3, SendFacts
  <2>2. /\ Waiting(n) \/ Reached(c, n) => author[n] # NoEndpoint
        /\ Reached(c, m) => author[m] # NoEndpoint
    BY Authored
  <2>3. ASSUME m # k, n # k PROVE SameAuthor(m, n)
    BY <1>1, <2>1, <2>3 DEF SameAuthor, BusTypeOK, ServerTypeOK
  <2>4. ASSUME m # k, n = k PROVE m < n
    <3>1. author[m] = main[d]
      BY <1>1, <2>1, <2>4 DEF SameAuthor, BusTypeOK, ServerTypeOK
    <3> QED
      BY <1>3, <2>4, <3>1 DEF PublishSent
  <2> QED
    BY <1>2, <2>1, <2>2, <2>3, <2>4
<1>4. ASSUME NEW p \in Peers, OnPublish(p), UNCHANGED <<clientVars, ghostVars>>
      PROVE  /\ Got(c, m)' /\ Fanned(c, n)' => m < n
             /\ Reached(c, m)' /\ Waiting(n)' => m < n
  <2> DEFINE h == Head(rx[p]).payload
  <2>1. /\ author' = author /\ Waiting(h) /\ h \in Payloads
        /\ author[n] = author[h] /\ Waiting(n) /\ n # h => h < n
        /\ Waiting(n)' <=> Waiting(n) /\ n # h
        /\ Fanned(c, n)' => Fanned(c, n) \/ n = h
        /\ Fanned(c, m)' => Fanned(c, m) \/ m = h
        /\ Got(c, m)' <=> Got(c, m)
    BY <1>1, <1>4, ForwardFacts
  <2> HIDE DEF h
  <2>2. SameAuthor(m, n)
    BY <2>1 DEF SameAuthor
  <2>3. CASE n = h
    BY <1>2, <2>1, <2>2, <2>3
  <2>4. CASE m = h /\ n # h
    BY <1>2, <2>1, <2>2, <2>4 DEF SameAuthor
  <2> QED
    BY <1>2, <2>1, <2>2, <2>3, <2>4
<1>5. ASSUME NEW d \in Clients, PollMessage(d), Head(inq[main[d]]).type = "fanout"
      PROVE  /\ Got(c, m)' /\ Fanned(c, n)' => m < n
             /\ Reached(c, m)' /\ Waiting(n)' => m < n
  <2> DEFINE h == Head(inq[main[d]]).payload
  <2>1. /\ author' = author /\ rx' = rx /\ Fanned(d, h) /\ h \in Payloads
        /\ author[n] = author[h] /\ Fanned(d, n) /\ n # h => h < n
        /\ Got(c, m)' <=> Got(c, m) \/ (c = d /\ m = h)
        /\ Fanned(c, m)' <=> Fanned(c, m) /\ ~(c = d /\ m = h)
        /\ Fanned(c, n)' <=> Fanned(c, n) /\ ~(c = d /\ n = h)
    BY <1>1, <1>5, DeliverFacts
  <2> HIDE DEF h
  <2>2. SameAuthor(m, n) /\ (Waiting(n)' <=> Waiting(n))
    BY <2>1 DEF SameAuthor, Waiting
  <2> QED
    BY <1>2, <2>1, <2>2 DEF SameAuthor
<1>6. ASSUME Quiet, delivered' = delivered
      PROVE  /\ Got(c, m)' /\ Fanned(c, n)' => m < n
             /\ Reached(c, m)' /\ Waiting(n)' => m < n
  <2>1. SameAuthor(m, n)
    BY <1>6 DEF Quiet, SameAuthor
  <2>2. /\ Got(c, m)' <=> Got(c, m)
        /\ Fanned(c, n)' => Fanned(c, n)
        /\ Fanned(c, m)' => Fanned(c, m)
    BY <1>1, <1>6, QuietFanned
  <2>3. Waiting(n)' => Waiting(n)
    BY <1>1, <1>6, QuietWaiting
  <2> QED
    BY <1>2, <2>1, <2>2, <2>3
<1>7. \/ \E d \in Clients, k \in Payloads, key \in Nat : PublishSent(d, k, key)
      \/ \E p \in Peers : OnPublish(p) /\ UNCHANGED <<clientVars, ghostVars>>
      \/ \E d \in Clients : PollMessage(d) /\ Head(inq[main[d]]).type = "fanout"
      \/ Quiet /\ delivered' = delivered
  BY <1>1, StepKinds
<1> QED
  BY <1>3, <1>4, <1>5, <1>6, <1>7

(* ReachedInOrder is preserved.                                            *)
LEMMA StepKeepsReached ==
  ASSUME BusInv, OrderInv, [BusNext]_busVars
  PROVE  ReachedInOrder'
BY InboxInOrder, DeliveredInOrder, PlacesInOrder DEF ReachedInOrder

-----------------------------------------------------------------------------
(* Gaps.                                                                   *)

(* A publish that is sent waits at the server or is lost, and what was     *)
(* lost stays lost.                                                        *)
LEMMA SendWaitsOrIsLost ==
  ASSUME BusInv, OrderInv, NEW c \in Clients, NEW n \in Payloads, NEW key \in Nat,
         PublishSent(c, n, key)
  PROVE  /\ Waiting(n)' \/ Lost(n)'
         /\ \A l \in Payloads : l # n /\ author[l] # NoEndpoint /\ Lost(l) => Lost(l)'
<1> USE ENetAssumption
<1>1. /\ author[n] = NoEndpoint /\ author' = [author EXCEPT ![n] = main[c]]
      /\ remote' = remote
      /\ \A m \in Payloads : Waiting(m)' <=> Waiting(m) \/ (m = n /\ Linked(main[c]))
  BY SendFacts DEF BusInv
<1>2. author'[n] = main[c] /\ \A m \in Payloads : m # n => author'[m] = author[m]
  BY <1>1 DEF BusInv, BusTypeOK, ServerTypeOK
<1>3. \A m \in Payloads : Linked(author[m])' <=> \E p \in Peers : remote[p] = author'[m]
  BY <1>1 DEF Linked
<1>4. ~Waiting(n)
  BY <1>1, Authored
<1>5. ASSUME ~Linked(main[c]) PROVE Lost(n)'
  <2>1. ~Linked(author[n])'
    BY <1>2, <1>3, <1>5 DEF Linked
  <2>2. ASSUME NEW k \in Payloads, Waiting(k)', author'[k] = author'[n] PROVE k < n
    <3>1. k # n /\ author[k] = main[c]
      BY <1>1, <1>2, <1>4, <1>5, <2>2
    <3> QED
      BY <3>1 DEF PublishSent
  <2> QED
    BY <2>1, <2>2 DEF Lost
<1>6. ASSUME NEW l \in Payloads, l # n, author[l] # NoEndpoint, Lost(l) PROVE Lost(l)'
  <2>1. author'[l] = author[l] /\ ~Linked(author[l])'
    BY <1>2, <1>3, <1>6 DEF Lost, Linked
  <2>2. ASSUME NEW k \in Payloads, Waiting(k)', author'[k] = author'[l] PROVE k < l
    <3>1. CASE k = n
      BY <1>1, <1>2, <1>4, <1>6, <2>1, <2>2, <3>1 DEF Lost
    <3>2. CASE k # n
      BY <1>1, <1>2, <1>6, <2>1, <2>2, <3>2 DEF Lost
    <3> QED
      BY <3>1, <3>2
  <2> QED
    BY <2>1, <2>2 DEF Lost
<1> QED
  BY <1>1, <1>5, <1>6

(* Where payload l stands after the step.                                  *)
After(l) == Waiting(l)' \/ Lost(l)'

(* NoneOvertaken is preserved.                                             *)
LEMMA StepKeepsOvertaken ==
  ASSUME BusInv, OrderInv, [BusNext]_busVars
  PROVE  NoneOvertaken'
<1> USE ENetAssumption DEF Reached
<1>1. /\ BusTypeOK /\ ClientInv /\ ResolveInv /\ FanoutInv /\ AtMostOnce /\ SentSound
      /\ QueuesInOrder /\ ReachedInOrder /\ FanoutsSound /\ DeliverySound
  BY DEF BusInv, ServerInv, DeliveryInv, OrderInv
<1>2. SUFFICES ASSUME NEW l \in Payloads, NEW m \in Payloads, m < l
               PROVE  /\ SameAuthor(m, l)' /\ Waiting(m)' => After(l)
                      /\ \A c \in Clients :
                           SameStream(m, l)' /\ Reached(c, m)' /\ Linked(main[c])' =>
                             Reached(c, l)' \/ After(l)
  BY DEF NoneOvertaken, After
<1>3. /\ m \in Nat /\ l \in Nat /\ m # l /\ ~(l < m)
  BY <1>2, BusAssumption
<1>4. /\ SameAuthor(m, l) /\ Waiting(m) => Waiting(l) \/ Lost(l)
      /\ \A c \in Clients : SameStream(m, l) /\ Reached(c, m) /\ Linked(main[c]) =>
           Reached(c, l) \/ Waiting(l) \/ Lost(l)
  BY <1>2 DEF OrderInv, NoneOvertaken
<1>5. ASSUME author[m] # NoEndpoint, author[l] # NoEndpoint
      PROVE  (SameAuthor(m, l)' <=> SameAuthor(m, l)) /\ (SameStream(m, l)' <=> SameStream(m, l))
  BY <1>5, StreamsStay DEF SameAuthor, SameStream
<1>6. /\ Waiting(m) => author[m] \in Endpoints
      /\ \A c \in Clients : Reached(c, m) =>
           author[m] \in Endpoints /\ main[c] \in Endpoints
  BY <1>1, Authored, ReachedSound
<1>7. ASSUME NEW d \in Clients, NEW n \in Payloads, NEW key \in Nat, PublishSent(d, n, key)
      PROVE  /\ SameAuthor(m, l)' /\ Waiting(m)' => After(l)
             /\ \A c \in Clients :
                  SameStream(m, l)' /\ Reached(c, m)' /\ Linked(main[c])' =>
                    Reached(c, l)' \/ After(l)
  <2>1. /\ author[n] = NoEndpoint /\ author' = [author EXCEPT ![n] = main[d]]
        /\ remote' = remote /\ main' = main
        /\ \A k \in Payloads : Waiting(k)' <=> Waiting(k) \/ (k = n /\ Linked(main[d]))
        /\ \A c \in Clients, k \in Payloads :
             (Fanned(c, k)' <=> Fanned(c, k)) /\ (Got(c, k)' <=> Got(c, k))
    BY <1>1, <1>7, SendFacts
  <2>2. author'[n] = main[d] /\ \A k \in Payloads : k # n => author'[k] = author[k]
    BY <1>1, <2>1 DEF BusTypeOK, ServerTypeOK
  <2>3. /\ After(n)
        /\ l # n /\ author[l] # NoEndpoint /\ Lost(l) => Lost(l)'
    BY <1>7, SendWaitsOrIsLost DEF After
  <2>4. \A c \in Clients : Linked(main[c])' <=> Linked(main[c])
    BY <2>1 DEF Linked
  <2>5. CASE l = n
    BY <2>3, <2>5
  <2>6. ASSUME l # n, SameAuthor(m, l)', m = n PROVE FALSE
    <3>1. author[l] = main[d]
      BY <2>2, <2>6 DEF SameAuthor
    <3>2. l < n
      BY <1>7, <3>1 DEF PublishSent
    <3> QED
      BY <1>3, <2>6, <3>2
  <2>7. ASSUME l # n, m # n, SameAuthor(m, l)'
        PROVE  author[m] # NoEndpoint /\ author[l] # NoEndpoint
    BY <2>2, <2>7 DEF SameAuthor
  <2>8. SameStream(m, l)' => SameAuthor(m, l)'
    BY DEF SameStream
  <2> QED
    BY <1>4, <1>5, <2>1, <2>3, <2>4, <2>5, <2>6, <2>7, <2>8 DEF After
<1>8. ASSUME NEW p \in Peers, OnPublish(p), UNCHANGED <<clientVars, ghostVars>>
      PROVE  /\ SameAuthor(m, l)' /\ Waiting(m)' => After(l)
             /\ \A c \in Clients :
                  SameStream(m, l)' /\ Reached(c, m)' /\ Linked(main[c])' =>
                    Reached(c, l)' \/ After(l)
  <2> DEFINE h == Head(rx[p]).payload
  <2>1. /\ h \in Payloads /\ Waiting(h)
        /\ author' = author /\ remote' = remote /\ main' = main /\ intended' = intended
        /\ \A k \in Payloads : author[k] = author[h] /\ Waiting(k) /\ k # h => h < k
        /\ \A k \in Payloads : Waiting(k)' <=> Waiting(k) /\ k # h
        /\ \A c \in Clients, k \in Payloads :
             /\ Fanned(c, k)' <=> Fanned(c, k) \/ (k = h /\ Target(p, c))
             /\ Got(c, k)' <=> Got(c, k)
    BY <1>1, <1>8, ForwardFacts
  <2>2. ASSUME NEW c \in Clients, l = h, Reached(c, m), Linked(main[c]), SameStream(m, l)
        PROVE  Target(p, c)
    BY <1>8, <2>2, TargetOfStream
  <2> HIDE DEF h
  <2>3. /\ SameAuthor(m, l)' <=> SameAuthor(m, l)
        /\ SameStream(m, l)' <=> SameStream(m, l)
        /\ SameStream(m, l) => SameAuthor(m, l)
        /\ \A c \in Clients : Linked(main[c])' <=> Linked(main[c])
    BY <2>1 DEF SameAuthor, SameStream, Linked
  <2>4. Lost(l) => Lost(l)'
    BY <2>1 DEF Lost, Linked
  <2>5. ASSUME SameAuthor(m, l), Waiting(m) PROVE l # h
    BY <1>3, <2>1, <2>5 DEF SameAuthor
  <2>6. SameAuthor(m, l) /\ Waiting(m) => After(l)
    BY <1>4, <2>1, <2>4, <2>5 DEF After
  <2>7. ASSUME NEW c \in Clients, SameStream(m, l), Reached(c, m)', Linked(main[c])
        PROVE  Reached(c, l)' \/ After(l)
    <3>1. CASE Reached(c, m)
      BY <1>4, <2>1, <2>2, <2>4, <2>7, <3>1 DEF After
    <3>2. CASE m = h
      BY <2>1, <2>3, <2>6, <2>7, <3>2
    <3> QED
      BY <2>1, <2>7, <3>1, <3>2
  <2> QED
    BY <2>1, <2>3, <2>6, <2>7
<1>9. ASSUME NEW d \in Clients, PollMessage(d), Head(inq[main[d]]).type = "fanout"
      PROVE  /\ SameAuthor(m, l)' /\ Waiting(m)' => After(l)
             /\ \A c \in Clients :
                  SameStream(m, l)' /\ Reached(c, m)' /\ Linked(main[c])' =>
                    Reached(c, l)' \/ After(l)
  <2> DEFINE h == Head(inq[main[d]]).payload
  <2>1. /\ author' = author /\ remote' = remote /\ main' = main /\ rx' = rx
        /\ \A c \in Clients, k \in Payloads :
              /\ Got(c, k)' <=> Got(c, k) \/ (c = d /\ k = h)
              /\ Fanned(c, k)' <=> Fanned(c, k) /\ ~(c = d /\ k = h)
        /\ Fanned(d, h)
    BY <1>1, <1>9, DeliverFacts
  <2> HIDE DEF h
  <2>2. intended' = intended
    BY <1>9 DEF PollMessage
  <2>3. \A c \in Clients : /\ Reached(c, m)' <=> Reached(c, m)
                           /\ Reached(c, l)' <=> Reached(c, l)
    BY <2>1
  <2>4. /\ SameAuthor(m, l)' <=> SameAuthor(m, l)
        /\ SameStream(m, l)' <=> SameStream(m, l)
        /\ \A c \in Clients : Linked(main[c])' <=> Linked(main[c])
        /\ \A k \in Payloads : Waiting(k)' <=> Waiting(k)
    BY <2>1, <2>2 DEF SameAuthor, SameStream, Linked, Waiting
  <2>5. Lost(l) => Lost(l)'
    BY <2>1, <2>4 DEF Lost, Linked
  <2> QED
    BY <1>4, <2>3, <2>4, <2>5 DEF After
<1>10. ASSUME Quiet, delivered' = delivered
       PROVE  /\ SameAuthor(m, l)' /\ Waiting(m)' => After(l)
              /\ \A c \in Clients :
                   SameStream(m, l)' /\ Reached(c, m)' /\ Linked(main[c])' =>
                     Reached(c, l)' \/ After(l)
  <2>1. author' = author
    BY <1>10 DEF Quiet
  <2>2. \A k \in Payloads : /\ Waiting(k)' => Waiting(k)
                            /\ Waiting(k) => Waiting(k)' \/ Dropped(k)
    BY <1>1, <1>10, QuietWaiting
  <2>3. ASSUME Dropped(l) PROVE Lost(l)'
    BY <2>1, <2>3 DEF Dropped, Lost, Linked
  <2>4. ASSUME Lost(l), author[l] # NoEndpoint PROVE Lost(l)'
    <3>1. author[l] \in Endpoints /\ endpoint[author[l]] # "new"
      BY <1>1, <2>4 DEF SentSound
    <3>2. \A p \in Peers : remote'[p] # author[l]
      BY <1>1, <2>4, <3>1, LinksCut DEF Lost, Linked
    <3> QED
      BY <2>1, <2>2, <2>4, <3>2 DEF Lost, Linked
  <2>5. SameAuthor(m, l)' => SameAuthor(m, l) /\ author[m] # NoEndpoint /\ author[l] # NoEndpoint
    BY <2>1 DEF SameAuthor
  <2>6. ASSUME NEW c \in Clients, SameStream(m, l)', Reached(c, m)', Linked(main[c])'
        PROVE  Reached(c, l)' \/ After(l)
    <3>1. Reached(c, m)
      BY <1>1, <1>10, <2>6, QuietFanned
    <3>2. main[c] \in Endpoints /\ main'[c] = main[c] /\ endpoint[main[c]] # "new"
      BY <1>1, <1>6, <3>1, HistorySteps DEF ClientInv, HostsSound
    <3>3. Linked(main[c])
      BY <1>1, <2>6, <3>2, LinksCut DEF Linked
    <3>4. SameStream(m, l)
      BY <1>5, <2>5, <2>6 DEF SameStream
    <3>5. Reached(c, l) => Reached(c, l)'
      BY <1>1, <1>10, <2>6, QuietFanned
    <3> QED
      BY <1>4, <2>2, <2>3, <2>4, <2>5, <2>6, <3>1, <3>3, <3>4, <3>5 DEF After, SameStream
  <2> QED
    BY <1>4, <2>2, <2>3, <2>4, <2>5, <2>6 DEF After
<1>11. \/ \E d \in Clients, k \in Payloads, key \in Nat : PublishSent(d, k, key)
       \/ \E p \in Peers : OnPublish(p) /\ UNCHANGED <<clientVars, ghostVars>>
       \/ \E d \in Clients : PollMessage(d) /\ Head(inq[main[d]]).type = "fanout"
       \/ Quiet /\ delivered' = delivered
  BY <1>1, StepKinds
<1> QED
  BY <1>7, <1>8, <1>9, <1>10, <1>11

(* NoGaps is preserved.                                                    *)
LEMMA StepKeepsNoGaps ==
  ASSUME BusInv, OrderInv, [BusNext]_busVars
  PROVE  NoGaps'
<1> USE ENetAssumption DEF Reached
<1>1. /\ BusTypeOK /\ ClientInv /\ ResolveInv /\ FanoutInv /\ AtMostOnce /\ SentSound
      /\ QueuesInOrder /\ ReachedInOrder /\ RegistryConsistent
  BY DEF BusInv, ServerInv, OrderInv
<1>2. SUFFICES ASSUME NEW c \in Clients, NEW l \in Payloads, NEW m \in Payloads,
                      NEW n \in Payloads, m < l, l < n, SameStream(m, l)', SameStream(l, n)',
                      Reached(c, m)', Reached(c, n)'
               PROVE  Reached(c, l)'
  BY DEF NoGaps
<1>3. l \in Nat /\ m \in Nat /\ n \in Nat /\ ~(l < m) /\ ~(n < l) /\ ~(n < m) /\ m # n /\ m < n
  BY <1>2, BusAssumption
<1>4. SameStream(m, l) /\ SameStream(l, n) /\ Reached(c, m) /\ Reached(c, n) => Reached(c, l)
  BY <1>2 DEF OrderInv, NoGaps
<1>5. ASSUME NEW k \in Payloads, Reached(c, k) PROVE author[k] # NoEndpoint
  BY <1>5, Authored
<1>6. ASSUME author[l] # NoEndpoint, author[m] # NoEndpoint, author[n] # NoEndpoint
      PROVE  SameStream(m, l) /\ SameStream(l, n) /\ SameAuthor(l, n) /\ SameAuthor(n, l)
  BY <1>2, <1>6, StreamsStay DEF SameStream, SameAuthor
<1>7. ASSUME NEW d \in Clients, NEW k \in Payloads, NEW key \in Nat, PublishSent(d, k, key)
      PROVE  Reached(c, l)'
  <2>1. /\ author' = [author EXCEPT ![k] = main[d]] /\ author[k] = NoEndpoint
        /\ \A b \in Payloads : (Fanned(c, b)' <=> Fanned(c, b)) /\ (Got(c, b)' <=> Got(c, b))
    BY <1>1, <1>7, SendFacts
  <2>2. author'[k] = main[d] /\ \A b \in Payloads : b # k => author'[b] = author[b]
    BY <1>1, <2>1 DEF BusTypeOK, ServerTypeOK
  <2>3. Reached(c, m) /\ Reached(c, n)
    BY <1>2, <2>1
  <2>4. author[m] # NoEndpoint /\ author[n] # NoEndpoint /\ n # k /\ m # k
    BY <1>5, <2>1, <2>3
  <2>5. ASSUME l = k PROVE FALSE
    <3>1. author[n] = main[d]
      BY <1>2, <2>2, <2>4, <2>5 DEF SameStream, SameAuthor
    <3>2. n < k
      BY <1>7, <3>1 DEF PublishSent
    <3> QED
      BY <1>3, <2>5, <3>2
  <2>6. author[l] # NoEndpoint
    BY <1>2, <2>2, <2>4, <2>5 DEF SameStream, SameAuthor
  <2> QED
    BY <1>4, <1>6, <2>1, <2>3, <2>4, <2>6
<1>8. ASSUME NEW p \in Peers, OnPublish(p), UNCHANGED <<clientVars, ghostVars>>
      PROVE  Reached(c, l)'
  <2> DEFINE h == Head(rx[p]).payload
  <2>1. /\ h \in Payloads /\ Waiting(h) /\ author' = author /\ intended' = intended
        /\ \A k \in Payloads : author[k] = author[h] /\ Waiting(k) /\ k # h => h < k
        /\ \A k \in Payloads :
             /\ Fanned(c, k)' <=> Fanned(c, k) \/ (k = h /\ Target(p, c))
             /\ Got(c, k)' <=> Got(c, k)
    BY <1>1, <1>8, ForwardFacts
  <2>2. Target(p, c) => Linked(main[c])
    <3>1. \A a \in FanoutTargets(peer_data[p], Head(rx[p]).topic_key) : client[a].m_peer \in Peers
      BY <1>1 DEF RegistryConsistent, FanoutTargets
    <3> QED
      BY <3>1 DEF Target, Linked
  <2> HIDE DEF h
  <2>3. /\ SameStream(m, l) /\ SameStream(l, n)
        /\ SameAuthor(l, n) /\ SameAuthor(n, l) /\ SameAuthor(n, m)
    BY <1>2, <2>1 DEF SameStream, SameAuthor
  <2>4. CASE Reached(c, m) /\ Reached(c, n)
    BY <1>4, <2>1, <2>3, <2>4
  <2>5. ASSUME m = h, Reached(c, n) PROVE FALSE
    <3>1. n < m
      BY <1>1, <2>1, <2>3, <2>5 DEF ReachedInOrder
    <3> QED
      BY <1>3, <3>1
  <2>6. ASSUME n = h, Reached(c, m), Target(p, c) PROVE Reached(c, l)'
    <3>1. Reached(c, l) \/ Waiting(l) \/ Lost(l)
      BY <1>2, <2>2, <2>3, <2>6 DEF OrderInv, NoneOvertaken
    <3>2. ~Waiting(l)
      BY <1>2, <1>3, <2>1, <2>3, <2>6 DEF SameAuthor
    <3>3. ~Lost(l)
      BY <1>3, <2>1, <2>3, <2>6 DEF Lost, SameAuthor
    <3> QED
      BY <2>1, <3>1, <3>2, <3>3
  <2> QED
    BY <1>2, <1>3, <2>1, <2>4, <2>5, <2>6
<1>9. ASSUME NEW d \in Clients, PollMessage(d), Head(inq[main[d]]).type = "fanout"
      PROVE  Reached(c, l)'
  <2> DEFINE h == Head(inq[main[d]]).payload
  <2>1. /\ author' = author
        /\ \A b \in Payloads : /\ Got(c, b)' <=> Got(c, b) \/ (c = d /\ b = h)
                               /\ Fanned(c, b)' <=> Fanned(c, b) /\ ~(c = d /\ b = h)
        /\ Fanned(d, h)
    BY <1>1, <1>9, DeliverFacts
  <2> HIDE DEF h
  <2>2. intended' = intended
    BY <1>9 DEF PollMessage
  <2>3. SameStream(m, l) /\ SameStream(l, n)
    BY <1>2, <2>1, <2>2 DEF SameStream, SameAuthor
  <2> QED
    BY <1>2, <1>4, <2>1, <2>3
<1>10. ASSUME Quiet, delivered' = delivered PROVE Reached(c, l)'
  <2>1. author' = author
    BY <1>10 DEF Quiet
  <2>2. /\ \A b \in Payloads : Got(c, b)' <=> Got(c, b)
        /\ \A b \in Payloads : Fanned(c, b)' => Fanned(c, b)
        /\ \/ \A b \in Payloads : Fanned(c, b) => Fanned(c, b)'
           \/ \A b \in Payloads : ~Fanned(c, b)'
    BY <1>1, <1>10, QuietFanned
  <2>3. Reached(c, m) /\ Reached(c, n)
    BY <1>2, <2>2
  <2>4. author[l] # NoEndpoint /\ author[m] # NoEndpoint /\ author[n] # NoEndpoint
    BY <1>2, <2>1 DEF SameStream, SameAuthor
  <2>5. Reached(c, l) /\ SameAuthor(n, l)
    BY <1>4, <1>6, <2>3, <2>4
  <2>6. Got(c, n) => ~Fanned(c, l)
    BY <1>1, <1>3, <2>5 DEF ReachedInOrder
  <2> QED
    BY <1>2, <2>2, <2>5, <2>6
<1>11. \/ \E d \in Clients, k \in Payloads, key \in Nat : PublishSent(d, k, key)
       \/ \E p \in Peers : OnPublish(p) /\ UNCHANGED <<clientVars, ghostVars>>
       \/ \E d \in Clients : PollMessage(d) /\ Head(inq[main[d]]).type = "fanout"
       \/ Quiet /\ delivered' = delivered
  BY <1>1, StepKinds
<1> QED
  BY <1>7, <1>8, <1>9, <1>10, <1>11

-----------------------------------------------------------------------------
(* The theorems.                                                           *)

LEMMA InitOrderInv == BusInit => OrderInv
<1> SUFFICES ASSUME BusInit PROVE OrderInv
  OBVIOUS
<1>1. /\ \A c \in Clients : pc[c] = "none" /\ main[c] = NoEndpoint /\ delivered[c] = <<>>
      /\ \A p \in Peers : rx[p] = <<>>
      /\ \A m \in Payloads : author[m] = NoEndpoint
  BY DEF BusInit, ServerInit, ENetInit
<1>2. /\ \A m \in Payloads : ~Waiting(m)
      /\ \A c \in Clients, m \in Payloads : ~Reached(c, m) /\ ~Got(c, m)
  BY <1>1, HoldsNothing DEF Waiting, Reached, Fanned, Got
<1>3. SentSound
  BY <1>1 DEF SentSound, InCall
<1>4. QueuesInOrder
  BY <1>1 DEF QueuesInOrder, InOrder
<1>5. ReachedInOrder
  BY <1>1, <1>2 DEF ReachedInOrder
<1>6. StillSubscribed /\ NoneOvertaken /\ NoGaps
  BY <1>1, <1>2 DEF StillSubscribed, NoneOvertaken, NoGaps
<1> QED
  BY <1>3, <1>4, <1>5, <1>6 DEF OrderInv

(* OrderInv is inductive, given BusInv.                                    *)
LEMMA StepKeepsOrder ==
  ASSUME BusInv, OrderInv, [BusNext]_busVars
  PROVE  OrderInv'
<1>1. BusTypeOK /\ ClientInv /\ ResolveInv /\ FanoutInv /\ SentSound /\ QueuesInOrder
  BY DEF BusInv, ServerInv, OrderInv
<1>2. SentSound' /\ QueuesInOrder'
  BY <1>1, StepKeepsSent, StepKeepsQueues
<1>3. ReachedInOrder'
  BY StepKeepsReached
<1>4. StillSubscribed' /\ NoneOvertaken'
  BY StepKeepsSubscribed, StepKeepsOvertaken
<1>5. NoGaps'
  BY StepKeepsNoGaps
<1> QED
  BY <1>2, <1>3, <1>4, <1>5 DEF OrderInv

(* The order and the gaps of what is on its way, throughout: each client   *)
(* sends in the order of its calls, the server forwards in that order, and *)
(* what does not come after something that did is lost with a link, and    *)
(* all that follows with it.                                               *)
THEOREM OrderInvariant == BusSpec => []OrderInv
BY InitOrderInv, StepKeepsOrder, BusInvariant, PTL DEF BusSpec

(* The publishes of one client to one topic are given to a callback in the *)
(* order of the calls and without gaps, although each may have resolved    *)
(* its topic on the way, links fail and the server restarts.               *)
THEOREM DeliveriesAreOrdered == BusSpec => []DeliveryOrdered
<1>1. ASSUME BusInv, OrderInv PROVE DeliveryOrdered
  <2>1. SUFFICES ASSUME NEW c \in Clients, NEW i \in DOMAIN delivered[c],
                        NEW j \in DOMAIN delivered[c], i < j,
                        author[delivered[c][i].payload] = author[delivered[c][j].payload],
                        intended[delivered[c][i].payload] = intended[delivered[c][j].payload]
                 PROVE  LET m == delivered[c][i].payload
                            n == delivered[c][j].payload
                        IN  /\ m < n
                            /\ \A l \in Payloads \cap (m .. n) :
                                 author[l] = author[m] /\ intended[l] = intended[m] =>
                                   \E k \in i .. j : delivered[c][k].payload = l
    BY DEF DeliveryOrdered
  <2> DEFINE s == delivered[c]
             m == s[i].payload
             n == s[j].payload
  <2>2. Got(c, m) /\ Got(c, n)
    BY DEF Got
  <2>3. /\ m \in Payloads /\ n \in Payloads /\ author[m] \in Endpoints
        /\ i \in Nat /\ j \in Nat /\ DOMAIN s \subseteq Nat
    <3>1. s \in Seq([payload: Payloads, topic: Topics \cup {NoTopic}])
      BY <1>1 DEF BusInv, BusTypeOK
    <3>2. \A k \in DOMAIN s : k \in Nat
      BY <3>1
    <3> QED
      BY <1>1, <2>2, <3>2, ReachedSound DEF BusInv, ServerInv, DeliveryInv, Reached
  <2>4. \A k, l \in DOMAIN s :
          k < l /\ author[s[k].payload] = author[s[l].payload] => s[k].payload < s[l].payload
    BY <1>1 DEF OrderInv, ReachedInOrder
  <2>5. m < n
    BY <2>1, <2>4
  <2>6. ASSUME NEW l \in Payloads \cap (m .. n), author[l] = author[m],
               intended[l] = intended[m]
        PROVE  \E k \in i .. j : s[k].payload = l
    <3>1. m \in Nat /\ n \in Nat /\ l \in Nat
      BY <2>3, <2>6, BusAssumption
    <3>2. CASE l = m
      BY <2>1, <2>3, <3>2
    <3>3. CASE l = n
      BY <2>1, <2>3, <3>3
    <3>4. ASSUME m < l, l < n PROVE \E k \in i .. j : s[k].payload = l
      <4>1. SameStream(m, l) /\ SameStream(l, n) /\ SameAuthor(n, l)
        BY <2>1, <2>3, <2>6, ENetAssumption DEF SameStream, SameAuthor
      <4>2. Reached(c, l)
        BY <1>1, <2>2, <2>3, <3>4, <4>1 DEF OrderInv, NoGaps, Reached
      <4>3. ~Fanned(c, l)
        BY <1>1, <2>2, <2>3, <3>1, <3>4, <4>1 DEF OrderInv, ReachedInOrder
      <4>4. PICK k \in DOMAIN s : s[k].payload = l
        BY <4>2, <4>3 DEF Reached, Got
      <4>5. k # i /\ k # j /\ k \in Nat
        BY <2>3, <3>1, <3>4, <4>4
      <4>6. ~(k < i) /\ ~(j < k)
        <5>1. ASSUME k < i PROVE FALSE
          <6>1. l < m
            BY <2>4, <2>6, <4>4, <5>1
          <6> QED
            BY <3>1, <3>4, <6>1
        <5>2. ASSUME j < k PROVE FALSE
          <6>1. n < l
            BY <2>1, <2>4, <2>6, <4>4, <5>2
          <6> QED
            BY <3>1, <3>4, <6>1
        <5> QED
          BY <5>1, <5>2
      <4>7. k \in i .. j
        BY <2>3, <4>5, <4>6
      <4> QED
        BY <4>4, <4>7
    <3> QED
      BY <2>6, <3>1, <3>2, <3>3, <3>4
  <2> QED
    BY <2>5, <2>6
<1> QED
  BY <1>1, BusInvariant, OrderInvariant, PTL
=============================================================================
