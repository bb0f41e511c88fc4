------------------------------- MODULE PubSub -------------------------------
(***************************************************************************)
(* What the bus promises to applications, in terms of topic names only: no *)
(* keys, caches, slots, records or temporary connections.  A publish on a  *)
(* connection that is up goes, once and in order, to everybody else who is *)
(* subscribed at the moment the server forwards it.  The end of a          *)
(* connection takes with it what was still on the way, on either side, and *)
(* the subscriptions; a crash of the server does that to everybody.        *)
(***************************************************************************)
EXTENDS Sequences

CONSTANTS Clients, Topics, Payloads, NoTopic

VARIABLES
  up,                 \* clients whose connection is up
  wanted,             \* client -> topics it has asked for
  subscribed,         \* client -> topics the server forwards to it
  topic,              \* payload -> the topic it was published to, or NoTopic
  outbox,             \* client -> payloads published, not yet forwarded
  mailbox,            \* client -> payloads forwarded to it, not yet read
  delivered           \* client -> payloads it has read

vars == <<up, wanted, subscribed, topic, outbox, mailbox, delivered>>

Init ==
  /\ up = {}
  /\ wanted = [c \in Clients |-> {}]
  /\ subscribed = [c \in Clients |-> {}]
  /\ topic = [m \in Payloads |-> NoTopic]
  /\ outbox = [c \in Clients |-> <<>>]
  /\ mailbox = [c \in Clients |-> <<>>]
  /\ delivered = [c \in Clients |-> <<>>]

Join(c) ==
  /\ c \notin up
  /\ up' = up \cup {c}
  /\ UNCHANGED <<wanted, subscribed, topic, outbox, mailbox, delivered>>

Want(c, t) ==
  /\ wanted' = [wanted EXCEPT ![c] = @ \cup {t}]
  /\ UNCHANGED <<up, subscribed, topic, outbox, mailbox, delivered>>

(* The server takes note of a subscription.                                *)
Subscribe(c, t) ==
  /\ c \in up /\ t \in wanted[c]
  /\ subscribed' = [subscribed EXCEPT ![c] = @ \cup {t}]
  /\ UNCHANGED <<up, wanted, topic, outbox, mailbox, delivered>>

(* A publish is on its way; on a dead connection it goes nowhere.          *)
Publish(c, t, m) ==
  /\ topic[m] = NoTopic
  /\ topic' = [topic EXCEPT ![m] = t]
  /\ outbox' = IF c \in up THEN [outbox EXCEPT ![c] = Append(@, m)] ELSE outbox
  /\ UNCHANGED <<up, wanted, subscribed, mailbox, delivered>>

(* The server forwards the oldest publish of c.                            *)
Forward(c) ==
  /\ outbox[c] # <<>>
  /\ LET m == Head(outbox[c])
     IN  mailbox' = [d \in Clients |->
           IF d # c /\ topic[m] \in subscribed[d] THEN Append(mailbox[d], m) ELSE mailbox[d]]
  /\ outbox' = [outbox EXCEPT ![c] = Tail(@)]
  /\ UNCHANGED <<up, wanted, subscribed, topic, delivered>>

Deliver(c) ==
  /\ mailbox[c] # <<>>
  /\ delivered' = [delivered EXCEPT ![c] = Append(@, Head(mailbox[c]))]
  /\ mailbox' = [mailbox EXCEPT ![c] = Tail(@)]
  /\ UNCHANGED <<up, wanted, subscribed, topic, outbox>>

(* One side takes the connection of c for dead and drops what it holds.    *)
Cut(c) ==
  /\ up' = up \ {c}
  /\ subscribed' = [subscribed EXCEPT ![c] = {}]
  /\ \/ outbox' = [outbox EXCEPT ![c] = <<>>] /\ UNCHANGED mailbox
     \/ mailbox' = [mailbox EXCEPT ![c] = <<>>] /\ UNCHANGED outbox
  /\ UNCHANGED <<wanted, topic, delivered>>

Crash ==
  /\ up' = {}
  /\ subscribed' = [c \in Clients |-> {}]
  /\ outbox' = [c \in Clients |-> <<>>]
  /\ UNCHANGED <<wanted, topic, mailbox, delivered>>

Next ==
  \/ Crash
  \/ \E c \in Clients :
       \/ Join(c) \/ Forward(c) \/ Deliver(c) \/ Cut(c)
       \/ \E t \in Topics :
            Want(c, t) \/ Subscribe(c, t) \/ \E m \in Payloads : Publish(c, t, m)

Spec == Init /\ [][Next]_vars
=============================================================================
