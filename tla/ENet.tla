-------------------------------- MODULE ENet --------------------------------
(***************************************************************************)
(* The ENet transport between one server host and its remote hosts, as far *)
(* as src/ relies on it (ENet itself is an external library).              *)
(*                                                                         *)
(* The server host owns a fixed array of peer slots (enet_host_create asks *)
(* for 8).  A slot is taken when a handshake is accepted and released when *)
(* the DISCONNECT event of the peer has been reported.  An endpoint is one *)
(* client-side ENet host; it connects once in its life.  Every send of the *)
(* code is reliable and on channel 0, so while a link lasts packets arrive *)
(* once and in order.  When a link ends, by enet_peer_disconnect, which    *)
(* resets the peer's queues, or by a timeout, the packets that were not    *)
(* yet reported as RECEIVE events are gone, and neither side learns which. *)
(***************************************************************************)
EXTENDS Protocol, Sequences

CONSTANTS
  Peers,              \* the peer slots of the server host
  Endpoints,          \* the client-side hosts
  NoEndpoint,
  MaxSends,           \* bound: packets sent by all endpoints together
  LossyLinks          \* endpoints whose link may time out while both its ends are alive

ASSUME ENetAssumption ==
  /\ NoEndpoint \notin Endpoints
  /\ MaxSends \in Nat
  /\ LossyLinks \subseteq Endpoints

VARIABLES
  peer_state,         \* slot -> "free", "pending" (CONNECT not yet reported), "connected"
  remote,             \* slot -> the endpoint at the other end, NoEndpoint once it is gone
  rx,                 \* slot -> packets received, not yet reported by enet_host_service
  endpoint,           \* endpoint -> "new", "open", "down" (saw DISCONNECT), "closed"
  inq,                \* endpoint -> packets received, not yet reported to the client
  sends               \* packets sent by endpoints so far

enetVars == <<peer_state, remote, rx, endpoint, inq, sends>>

ENetInit ==
  /\ peer_state = [p \in Peers |-> "free"]
  /\ remote = [p \in Peers |-> NoEndpoint]
  /\ rx = [p \in Peers |-> <<>>]
  /\ endpoint = [e \in Endpoints |-> "new"]
  /\ inq = [e \in Endpoints |-> <<>>]
  /\ sends = 0

ENetTypeOK ==
  /\ peer_state \in [Peers -> {"free", "pending", "connected"}]
  /\ remote \in [Peers -> Endpoints \cup {NoEndpoint}]
  /\ rx \in [Peers -> Seq(Packets)]
  /\ endpoint \in [Endpoints -> {"new", "open", "down", "closed"}]
  /\ inq \in [Endpoints -> Seq(Packets)]
  /\ sends \in Nat

Linked(e) == \E p \in Peers : remote[p] = e

(* remote after the link of endpoint e is cut.                             *)
Unlink(e) == [p \in Peers |-> IF remote[p] = e THEN NoEndpoint ELSE remote[p]]

-----------------------------------------------------------------------------
(* The client side.                                                        *)

(* enet_host_connect: a free slot takes the handshake.  With no free slot  *)
(* the server host does not answer and the client runs into its timeout.   *)
HostConnect(p, e) ==
  /\ peer_state[p] = "free"
  /\ endpoint[e] = "new"
  /\ peer_state' = [peer_state EXCEPT ![p] = "pending"]
  /\ remote' = [remote EXCEPT ![p] = e]
  /\ endpoint' = [endpoint EXCEPT ![e] = "open"]
  /\ UNCHANGED <<rx, inq, sends>>

(* The same, but the answer to the handshake comes too late: the client    *)
(* has given up and the slot is taken for nobody.                          *)
HostConnectLate(p, e) ==
  /\ peer_state[p] = "free"
  /\ endpoint[e] = "new"
  /\ peer_state' = [peer_state EXCEPT ![p] = "pending"]
  /\ endpoint' = [endpoint EXCEPT ![e] = "closed"]
  /\ UNCHANGED <<remote, rx, inq, sends>>

(* Mutant: without the reliable flag a later packet may arrive first.      *)
HostSend_Overtakes(e, packet) ==
  /\ endpoint[e] \in {"open", "down"}
  /\ sends < MaxSends
  /\ sends' = sends + 1
  /\ rx' = [p \in Peers |-> IF remote[p] = e THEN <<packet>> \o rx[p] ELSE rx[p]]
  /\ UNCHANGED <<peer_state, remote, endpoint, inq>>

(* enet_peer_send by the client: without a link the packet is dropped and  *)
(* nobody is told (the code ignores the return value).                     *)
HostSend(e, packet) ==
  /\ endpoint[e] \in {"open", "down"}
  /\ sends < MaxSends
  /\ sends' = sends + 1
  /\ rx' = [p \in Peers |->
              IF remote[p] = e THEN Append(rx[p], packet) ELSE rx[p]]
  /\ UNCHANGED <<peer_state, remote, endpoint, inq>>

(* enet_host_service reports a RECEIVE event to the client.                *)
HostReceive(e) ==
  /\ endpoint[e] = "open"
  /\ inq[e] # <<>>
  /\ inq' = [inq EXCEPT ![e] = Tail(@)]
  /\ UNCHANGED <<peer_state, remote, rx, endpoint, sends>>

(* enet_host_service reports DISCONNECT: the link is dead or timed out.    *)
HostDisconnected(e) ==
  /\ endpoint[e] = "open"
  /\ e \in LossyLinks \/ ~Linked(e)
  /\ endpoint' = [endpoint EXCEPT ![e] = "down"]
  /\ inq' = [inq EXCEPT ![e] = <<>>]
  /\ remote' = Unlink(e)
  /\ UNCHANGED <<peer_state, rx, sends>>

(* Mutant: the host is destroyed without telling the server.               *)
HostDestroy_Silent(e) ==
  /\ endpoint[e] \in {"open", "down"}
  /\ endpoint' = [endpoint EXCEPT ![e] = "closed"]
  /\ inq' = [inq EXCEPT ![e] = <<>>]
  /\ UNCHANGED <<peer_state, remote, rx, sends>>

(* enet_peer_disconnect or enet_peer_reset, then enet_host_destroy.        *)
HostDestroy(e) ==
  /\ endpoint[e] \in {"open", "down"}
  /\ endpoint' = [endpoint EXCEPT ![e] = "closed"]
  /\ inq' = [inq EXCEPT ![e] = <<>>]
  /\ remote' = Unlink(e)
  /\ UNCHANGED <<peer_state, rx, sends>>

-----------------------------------------------------------------------------
(* The server side.                                                        *)

(* A CONNECT event for slot p.                                             *)
ReportConnect(p) ==
  /\ peer_state[p] = "pending"
  /\ peer_state' = [peer_state EXCEPT ![p] = "connected"]
  /\ UNCHANGED <<remote, rx, endpoint, inq, sends>>

(* A RECEIVE event for slot p takes Head(rx[p]); the handler sends packet  *)
(* to the slots in Q (none of them reaches an endpoint that is gone).      *)
ReportReceive(p, Q, packet) ==
  /\ peer_state[p] = "connected"
  /\ rx[p] # <<>>
  /\ rx' = [rx EXCEPT ![p] = Tail(@)]
  /\ inq' = [e \in Endpoints |->
               IF \E q \in Q : remote[q] = e THEN Append(inq[e], packet) ELSE inq[e]]
  /\ UNCHANGED <<peer_state, remote, endpoint, sends>>

(* The far end of slot p is gone, or is taken for gone.                    *)
LinkLost(p) == remote[p] \in LossyLinks \cup {NoEndpoint}

(* The slot is released; packets not yet reported are dropped with it.     *)
ReleaseSlot(p) ==
  /\ peer_state' = [peer_state EXCEPT ![p] = "free"]
  /\ remote' = [remote EXCEPT ![p] = NoEndpoint]
  /\ rx' = [rx EXCEPT ![p] = <<>>]
  /\ UNCHANGED <<endpoint, inq, sends>>

(* A DISCONNECT event for slot p.                                          *)
ReportDisconnect(p) ==
  /\ peer_state[p] = "connected"
  /\ LinkLost(p)
  /\ ReleaseSlot(p)

(* A handshake that never completes ends without any event.                *)
AbandonPending(p) ==
  /\ peer_state[p] = "pending"
  /\ LinkLost(p)
  /\ ReleaseSlot(p)

(* Mutant: links survive the server they were made with.                   *)
ServerHostReplaced_KeepsLinks ==
  /\ peer_state' = [p \in Peers |-> "free"]
  /\ rx' = [p \in Peers |-> <<>>]
  /\ UNCHANGED <<remote, endpoint, inq, sends>>

(* enet_host_destroy of the server host, or the end of its process, and a  *)
(* new host: all slots are free, endpoints keep what they have received.   *)
ServerHostReplaced ==
  /\ peer_state' = [p \in Peers |-> "free"]
  /\ remote' = [p \in Peers |-> NoEndpoint]
  /\ rx' = [p \in Peers |-> <<>>]
  /\ UNCHANGED <<endpoint, inq, sends>>
=============================================================================
