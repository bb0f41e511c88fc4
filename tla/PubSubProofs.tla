---------------------------- MODULE PubSubProofs ----------------------------
(***************************************************************************)
(* The bus implements module PubSub, for every number of clients, topics,  *)
(* calls, slots, hosts and restarts: BusSpec => ImplementsPubSub, where    *)
(* the queues of ENet are mapped to the payloads in them.                  *)
(***************************************************************************)
EXTENDS OrderProofs, WellFoundedInduction

USE DEF enetVars, topicMapVars, registryVars, historyVars, serverVars,
        clientVars, ghostVars, busVars

-----------------------------------------------------------------------------
(* Induction, as a statement about sets: a set of numbers has a least one. *)
LEMMA LeastNat ==
  ASSUME NEW T, T \subseteq Nat, T # {}
  PROVE  \E x \in T : \A y \in T : ~(y < x)
<1> DEFINE R == {ss \in Nat \X Nat : ss[1] < ss[2]}
<1>1. IsWellFoundedOn(R, Nat)
  BY NatLessThanWellFounded DEF OpToRel
<1> HIDE DEF R
<1>2. PICK x \in T : \A y \in T : ~(<<y, x>> \in R)
  BY <1>1, WFMin
<1>3. ASSUME NEW y \in T, y < x PROVE FALSE
  <2>1. <<y, x>> \in R
    BY <1>3 DEF R
  <2> QED
    BY <1>2, <2>1
<1> QED
  BY <1>3

(* What holds of 0 and is passed on from each number to the next, up to    *)
(* n, holds up to n.                                                       *)
LEMMA UpToInduction ==
  ASSUME NEW n \in Nat, NEW S, 0 \in S, \A i \in 0 .. n : i < n /\ i \in S => i + 1 \in S
  PROVE  \A i \in 0 .. n : i \in S
<1> DEFINE T == {i \in Nat : i <= n /\ i \notin S}
<1>1. SUFFICES ASSUME T # {} PROVE FALSE
  OBVIOUS
<1>2. PICK x \in T : \A y \in T : ~(y < x)
  BY <1>1, LeastNat
<1>3. x \in Nat /\ x # 0 /\ x - 1 \in Nat /\ x - 1 < x /\ x <= n
  BY <1>2
<1>4. x - 1 \in S
  BY <1>2, <1>3
<1>5. x - 1 \in 0 .. n /\ x - 1 < n /\ (x - 1) + 1 = x
  BY <1>3
<1>6. x \in S
  BY <1>4, <1>5
<1> QED
  BY <1>2, <1>6

-----------------------------------------------------------------------------
(* What PayloadsOf does to a queue.                                        *)

(* The payloads among the first i packets, given those among fewer.        *)
UpTo(f, q, type, i) ==
  IF i = 0 THEN <<>>
  ELSE IF q[i].type = type THEN Append(f[i - 1], q[i].payload) ELSE f[i - 1]

(* The recursive function behind PayloadsOf exists.                        *)
LEMMA PrefixesExist ==
  ASSUME NEW q \in Seq(Packets), NEW type
  PROVE  \E f : f = [i \in 0 .. Len(q) |-> UpTo(f, q, type, i)]
<1> DEFINE S == {n \in Nat : \E f : f = [i \in 0 .. n |-> UpTo(f, q, type, i)]}
<1>1. Len(q) \in Nat
  OBVIOUS
<1>2. 0 \in S
  <2>1. [i \in 0 .. 0 |-> <<>>] = [i \in 0 .. 0 |-> UpTo([j \in 0 .. 0 |-> <<>>], q, type, i)]
    BY DEF UpTo
  <2> QED
    BY <2>1
<1>3. ASSUME NEW n \in S PROVE n + 1 \in S
  <2>1. PICK f : f = [i \in 0 .. n |-> UpTo(f, q, type, i)]
    BY <1>3
  <2> DEFINE g == [i \in 0 .. n + 1 |-> IF i <= n THEN f[i] ELSE UpTo(f, q, type, n + 1)]
  <2>2. \A i \in 0 .. n : g[i] = f[i]
    BY <1>3
  <2>3. g[n + 1] = UpTo(f, q, type, n + 1)
    BY <1>3
  <2>4. \A i \in 0 .. n + 1 : UpTo(g, q, type, i) = UpTo(f, q, type, i)
    <3>1. \A i \in 0 .. n + 1 : i # 0 => i - 1 \in 0 .. n
      BY <1>3
    <3> QED
      BY <2>2, <3>1 DEF UpTo
  <2>5. \A i \in 0 .. n + 1 : g[i] = UpTo(g, q, type, i)
    <3>1. \A i \in 0 .. n + 1 : i \in 0 .. n \/ i = n + 1
      BY <1>3
    <3>2. \A i \in 0 .. n : f[i] = UpTo(f, q, type, i)
      BY <2>1
    <3> QED
      BY <2>2, <2>3, <2>4, <3>1, <3>2
  <2>6. g = [i \in 0 .. n + 1 |-> UpTo(g, q, type, i)]
    BY <2>5
  <2> QED
    BY <1>3, <2>6
<1> HIDE DEF S
<1>4. \A i \in 0 .. Len(q) : i \in S
  BY <1>1, <1>2, <1>3, UpToInduction
<1>5. Len(q) \in S
  BY <1>1, <1>4
<1> QED
  BY <1>5 DEF S

(* PayloadsOf is the last value of such a function.                        *)
LEMMA Prefixes ==
  ASSUME NEW q \in Seq(Packets), NEW type
  PROVE  \E f : /\ f = [i \in 0 .. Len(q) |-> UpTo(f, q, type, i)]
                /\ PayloadsOf(q, type) = f[Len(q)]
<1> DEFINE f == CHOOSE g : g = [i \in 0 .. Len(q) |-> UpTo(g, q, type, i)]
<1>1. PayloadsOf(q, type) = f[Len(q)]
  BY DEF PayloadsOf, UpTo
<1>2. f = [i \in 0 .. Len(q) |-> UpTo(f, q, type, i)]
  BY PrefixesExist
<1> QED
  BY <1>1, <1>2

(* They are sequences.                                                     *)
LEMMA PrefixesTyped ==
  ASSUME NEW q \in Seq(Packets), NEW type, NEW f,
         f = [i \in 0 .. Len(q) |-> UpTo(f, q, type, i)],
         NEW P, \A x \in Packets : x.type = type => x.payload \in P
  PROVE  \A i \in 0 .. Len(q) : f[i] \in Seq(P)
<1> DEFINE S == {i \in 0 .. Len(q) : f[i] \in Seq(P)}
<1>1. Len(q) \in Nat
  OBVIOUS
<1>2. 0 \in S
  BY <1>1 DEF UpTo
<1>3. ASSUME NEW i \in 0 .. Len(q), i < Len(q), i \in S PROVE i + 1 \in S
  <2>1. i + 1 \in 0 .. Len(q) /\ i + 1 # 0 /\ (i + 1) - 1 = i /\ i + 1 \in 1 .. Len(q)
    BY <1>1, <1>3
  <2>2. f[i + 1] = IF q[i + 1].type = type THEN Append(f[i], q[i + 1].payload) ELSE f[i]
    BY <2>1 DEF UpTo
  <2>3. q[i + 1] \in Packets
    BY <2>1
  <2>4. f[i] \in Seq(P)
    BY <1>3
  <2>5. f[i + 1] \in Seq(P)
    <3>1. CASE q[i + 1].type = type
      <4>1. q[i + 1].payload \in P
        BY <2>3, <3>1
      <4>2. \A s \in Seq(P), a \in P : Append(s, a) \in Seq(P)
        OBVIOUS
      <4> QED
        BY <2>2, <2>4, <3>1, <4>1, <4>2
    <3> QED
      BY <2>2, <2>4, <3>1
  <2> QED
    BY <2>1, <2>5
<1> HIDE DEF S
<1>4. \A i \in 0 .. Len(q) : i \in S
  BY <1>1, <1>2, <1>3, UpToInduction
<1> QED
  BY <1>4 DEF S

(* The payloads of a queue are of the type its packets allow.              *)
LEMMA PayloadsTyped ==
  ASSUME NEW q \in Seq(Packets), NEW type, NEW P,
         \A x \in Packets : x.type = type => x.payload \in P
  PROVE  PayloadsOf(q, type) \in Seq(P)
<1>1. PICK f : /\ f = [i \in 0 .. Len(q) |-> UpTo(f, q, type, i)]
               /\ PayloadsOf(q, type) = f[Len(q)]
  BY Prefixes
<1>2. Len(q) \in 0 .. Len(q)
  OBVIOUS
<1> QED
  BY <1>1, <1>2, PrefixesTyped

(* A queue without packets of the type has no payloads.                    *)
LEMMA NoPayloads ==
  ASSUME NEW q \in Seq(Packets), NEW type, \A i \in DOMAIN q : q[i].type # type
  PROVE  PayloadsOf(q, type) = <<>>
<1>1. PICK f : /\ f = [i \in 0 .. Len(q) |-> UpTo(f, q, type, i)]
               /\ PayloadsOf(q, type) = f[Len(q)]
  BY Prefixes
<1> DEFINE S == {i \in 0 .. Len(q) : f[i] = <<>>}
<1>2. Len(q) \in Nat /\ DOMAIN q = 1 .. Len(q)
  OBVIOUS
<1>3. 0 \in S
  BY <1>1, <1>2 DEF UpTo
<1>4. ASSUME NEW i \in 0 .. Len(q), i < Len(q), i \in S PROVE i + 1 \in S
  <2>1. i + 1 \in 0 .. Len(q) /\ i + 1 # 0 /\ (i + 1) - 1 = i /\ i + 1 \in DOMAIN q
    BY <1>2, <1>4
  <2>2. f[i + 1] = f[i]
    BY <1>1, <2>1 DEF UpTo
  <2> QED
    BY <1>4, <2>1, <2>2
<1> HIDE DEF S
<1>5. \A i \in 0 .. Len(q) : i \in S
  BY <1>2, <1>3, <1>4, UpToInduction
<1>6. Len(q) \in 0 .. Len(q)
  BY <1>2
<1> QED
  BY <1>1, <1>5, <1>6 DEF S

(* A packet appended to the queue comes last.                              *)
LEMMA PayloadsAppend ==
  ASSUME NEW q \in Seq(Packets), NEW x \in Packets, NEW type
  PROVE  PayloadsOf(Append(q, x), type) =
           IF x.type = type THEN Append(PayloadsOf(q, type), x.payload)
           ELSE PayloadsOf(q, type)
<1> DEFINE r == Append(q, x)
           n == Len(q)
<1>1. /\ r \in Seq(Packets) /\ n \in Nat /\ Len(r) = n + 1
      /\ \A i \in 1 .. n : r[i] = q[i]
      /\ r[n + 1] = x
  OBVIOUS
<1> HIDE DEF r, n
<1>2. PICK f : /\ f = [i \in 0 .. n |-> UpTo(f, q, type, i)]
               /\ PayloadsOf(q, type) = f[n]
  BY Prefixes DEF n
<1>3. PICK g : /\ g = [i \in 0 .. n + 1 |-> UpTo(g, r, type, i)]
               /\ PayloadsOf(r, type) = g[n + 1]
  BY <1>1, Prefixes
<1> DEFINE S == {i \in 0 .. n : f[i] = g[i]}
<1>4. 0 \in S
  BY <1>1, <1>2, <1>3 DEF UpTo
<1>5. ASSUME NEW i \in 0 .. n, i < n, i \in S PROVE i + 1 \in S
  <2>1. /\ i + 1 \in 0 .. n /\ i + 1 \in 0 .. n + 1 /\ i + 1 # 0 /\ (i + 1) - 1 = i
        /\ i + 1 \in 1 .. n
    BY <1>1, <1>5
  <2>2. f[i + 1] = IF q[i + 1].type = type THEN Append(f[i], q[i + 1].payload) ELSE f[i]
    BY <1>2, <2>1 DEF UpTo
  <2>3. g[i + 1] = IF r[i + 1].type = type THEN Append(g[i], r[i + 1].payload) ELSE g[i]
    BY <1>3, <2>1 DEF UpTo
  <2> QED
    BY <1>1, <1>5, <2>1, <2>2, <2>3
<1> HIDE DEF S
<1>6. \A i \in 0 .. n : i \in S
  BY <1>1, <1>4, <1>5, UpToInduction
<1>7. f[n] = g[n]
  <2>1. n \in 0 .. n
    BY <1>1
  <2> QED
    BY <1>6, <2>1 DEF S
<1>8. g[n + 1] = IF x.type = type THEN Append(g[n], x.payload) ELSE g[n]
  <2>1. n + 1 \in 0 .. n + 1 /\ n + 1 # 0 /\ (n + 1) - 1 = n
    BY <1>1
  <2> QED
    BY <1>1, <1>3, <2>1 DEF UpTo
<1> QED
  BY <1>2, <1>3, <1>7, <1>8 DEF r

(* A packet taken from the queue was the first.                            *)
LEMMA PayloadsTail ==
  ASSUME NEW q \in Seq(Packets), q # <<>>, NEW type
  PROVE  PayloadsOf(q, type) =
           IF Head(q).type = type THEN <<Head(q).payload>> \o PayloadsOf(Tail(q), type)
           ELSE PayloadsOf(Tail(q), type)
<1> DEFINE r == Tail(q)
           n == Len(r)
           h == Head(q)
           P == {x.payload : x \in Packets}
           Front(s) == IF h.type = type THEN <<h.payload>> \o s ELSE s
<1>1. /\ r \in Seq(Packets) /\ n \in Nat /\ Len(q) = n + 1
      /\ \A i \in 1 .. n : r[i] = q[i + 1]
      /\ h = q[1] /\ h \in Packets
  OBVIOUS
<1>2. \A x \in Packets : x.payload \in P
  OBVIOUS
<1> HIDE DEF r, n, h, P
<1>3. PICK f : /\ f = [i \in 0 .. n + 1 |-> UpTo(f, q, type, i)]
               /\ PayloadsOf(q, type) = f[n + 1]
  BY <1>1, Prefixes
<1>4. PICK g : /\ g = [i \in 0 .. n |-> UpTo(g, r, type, i)]
               /\ PayloadsOf(r, type) = g[n]
  BY <1>1, Prefixes DEF n
<1>5. \A i \in 0 .. n : g[i] \in Seq(P)
  BY <1>1, <1>2, <1>4, PrefixesTyped DEF n
<1> DEFINE S == {i \in 0 .. n : f[i + 1] = Front(g[i])}
<1>6. 0 \in S
  <2>1. 0 \in 0 .. n /\ 0 \in 0 .. n + 1 /\ 1 \in 0 .. n + 1
    BY <1>1
  <2>2. f[0] = <<>> /\ g[0] = <<>>
    BY <1>3, <1>4, <2>1 DEF UpTo
  <2>3. f[1] = IF h.type = type THEN Append(f[0], h.payload) ELSE f[0]
    <3>1. f[1] = UpTo(f, q, type, 1)
      BY <1>3, <2>1
    <3>2. 1 # 0 /\ 1 - 1 = 0
      OBVIOUS
    <3> QED
      BY <1>1, <3>1, <3>2 DEF UpTo
  <2>4. Append(<<>>, h.payload) = <<h.payload>> \o <<>>
    OBVIOUS
  <2>5. f[1] = Front(g[0])
    BY <2>2, <2>3, <2>4
  <2>6. 0 + 1 = 1
    OBVIOUS
  <2> QED
    BY <2>1, <2>5, <2>6
<1>7. ASSUME NEW i \in 0 .. n, i < n, i \in S PROVE i + 1 \in S
  <2>1. /\ i + 1 \in 0 .. n /\ i + 2 \in 0 .. n + 1 /\ i + 1 # 0 /\ (i + 1) - 1 = i
        /\ i + 2 # 0 /\ (i + 2) - 1 = i + 1 /\ i + 1 \in 1 .. n /\ (i + 1) + 1 = i + 2
    BY <1>1, <1>7
  <2> DEFINE y == q[i + 2]
  <2>2. y \in Packets /\ r[i + 1] = y
    <3>1. i + 2 \in 1 .. Len(q)
      BY <1>1, <2>1
    <3> QED
      BY <1>1, <2>1, <3>1
  <2>3. f[i + 2] = IF y.type = type THEN Append(f[i + 1], y.payload) ELSE f[i + 1]
    BY <1>3, <2>1 DEF UpTo
  <2>4. g[i + 1] = IF y.type = type THEN Append(g[i], y.payload) ELSE g[i]
    BY <1>4, <2>1, <2>2 DEF UpTo
  <2>5. f[i + 1] = Front(g[i])
    BY <1>7
  <2>6. Append(Front(g[i]), y.payload) = Front(Append(g[i], y.payload))
    <3>1. g[i] \in Seq(P) /\ y.payload \in P /\ h.payload \in P
      BY <1>1, <1>2, <1>5, <2>2
    <3>2. \A s \in Seq(P), a, b \in P : Append(<<a>> \o s, b) = <<a>> \o Append(s, b)
      OBVIOUS
    <3> QED
      BY <3>1, <3>2
  <2> QED
    BY <2>1, <2>3, <2>4, <2>5, <2>6
<1> HIDE DEF S
<1>8. \A i \in 0 .. n : i \in S
  BY <1>1, <1>6, <1>7, UpToInduction
<1>9. f[n + 1] = Front(g[n])
  <2>1. n \in 0 .. n
    BY <1>1
  <2> QED
    BY <1>8, <2>1 DEF S
<1> QED
  BY <1>3, <1>4, <1>9 DEF r, h

(* The first payload leaves with its packet.                               *)
LEMMA PayloadsHead ==
  ASSUME NEW q \in Seq(Packets), q # <<>>, NEW type, Head(q).type = type
  PROVE  /\ PayloadsOf(q, type) # <<>>
         /\ Head(PayloadsOf(q, type)) = Head(q).payload
         /\ Tail(PayloadsOf(q, type)) = PayloadsOf(Tail(q), type)
<1> DEFINE P == {x.payload : x \in Packets}
<1>1. Tail(q) \in Seq(Packets) /\ Head(q) \in Packets
  OBVIOUS
<1>2. PayloadsOf(Tail(q), type) \in Seq(P) /\ Head(q).payload \in P
  BY <1>1, PayloadsTyped
<1>3. PayloadsOf(q, type) = <<Head(q).payload>> \o PayloadsOf(Tail(q), type)
  BY PayloadsTail
<1>4. \A s \in Seq(P), a \in P :
        <<a>> \o s # <<>> /\ Head(<<a>> \o s) = a /\ Tail(<<a>> \o s) = s
  OBVIOUS
<1> HIDE DEF P
<1> QED
  BY <1>2, <1>3, <1>4

-----------------------------------------------------------------------------
(* The abstract state, one variable at a time.                             *)

SameUp == \A c \in Clients : SlotsOf(c)' = SlotsOf(c)
SameSubscribed == \A c \in Clients : SubscribedTo(c)' = SubscribedTo(c)
SameTopics == \A m \in Payloads : PublishedTo(m)' = PublishedTo(m)
SameOutboxes == \A c \in Clients : Outbox(c)' = Outbox(c)
SameMailboxes == \A c \in Clients : Mailbox(c)' = Mailbox(c)
SameRead == \A c \in Clients : ReadBy(c)' = ReadBy(c)

(* A step that changes none of them stutters.                              *)
LEMMA Unchanged ==
  /\ SameUp => Up' = Up
  /\ SameSubscribed =>
       [c \in Clients |-> SubscribedTo(c)]' = [c \in Clients |-> SubscribedTo(c)]
  /\ SameTopics => [m \in Payloads |-> PublishedTo(m)]' = [m \in Payloads |-> PublishedTo(m)]
  /\ SameOutboxes => [c \in Clients |-> Outbox(c)]' = [c \in Clients |-> Outbox(c)]
  /\ SameMailboxes => [c \in Clients |-> Mailbox(c)]' = [c \in Clients |-> Mailbox(c)]
  /\ SameRead => [c \in Clients |-> ReadBy(c)]' = [c \in Clients |-> ReadBy(c)]
BY DEF SameUp, SameSubscribed, SameTopics, SameOutboxes, SameMailboxes, SameRead, Up

AbstractStep == [PubSub!Next]_(PubSub!vars)

(* A step that applications do not see.                                    *)
LEMMA StutterStep ==
  ASSUME SameUp, SameSubscribed, SameTopics, SameOutboxes, SameMailboxes, SameRead,
         wanted' = wanted
  PROVE  AbstractStep
<1>1. UNCHANGED PubSub!vars
  BY Unchanged DEF PubSub!vars
<1> QED
  BY <1>1 DEF AbstractStep

(* When a step of the bus is Join of PubSub.                               *)
LEMMA JoinStep ==
  ASSUME NEW c \in Clients, c \notin Up, Up' = Up \cup {c},
         SameSubscribed, SameTopics, SameOutboxes, SameMailboxes, SameRead, wanted' = wanted
  PROVE  AbstractStep
<1>1. PubSub!Join(c)
  BY Unchanged DEF PubSub!Join
<1> QED
  BY <1>1 DEF AbstractStep, PubSub!Next

(* When it is Cut: one side drops what it holds.                           *)
LEMMA CutStep ==
  ASSUME NEW c \in Clients, Up' = Up \ {c}, SubscribedTo(c)' = {},
         \A d \in Clients \ {c} : SubscribedTo(d)' = SubscribedTo(d),
         SameTopics, SameRead, wanted' = wanted,
         \/ /\ Outbox(c)' = <<>> /\ SameMailboxes
            /\ \A d \in Clients \ {c} : Outbox(d)' = Outbox(d)
         \/ /\ Mailbox(c)' = <<>> /\ SameOutboxes
            /\ \A d \in Clients \ {c} : Mailbox(d)' = Mailbox(d)
  PROVE  AbstractStep
<1>1. [d \in Clients |-> SubscribedTo(d)]' = [[d \in Clients |-> SubscribedTo(d)] EXCEPT ![c] = {}]
  OBVIOUS
<1>2. \/ /\ [d \in Clients |-> Outbox(d)]' = [[d \in Clients |-> Outbox(d)] EXCEPT ![c] = <<>>]
         /\ [d \in Clients |-> Mailbox(d)]' = [d \in Clients |-> Mailbox(d)]
      \/ /\ [d \in Clients |-> Mailbox(d)]' = [[d \in Clients |-> Mailbox(d)] EXCEPT ![c] = <<>>]
         /\ [d \in Clients |-> Outbox(d)]' = [d \in Clients |-> Outbox(d)]
  BY Unchanged
<1>3. PubSub!Cut(c)
  BY <1>1, <1>2, Unchanged DEF PubSub!Cut
<1> QED
  BY <1>3 DEF AbstractStep, PubSub!Next

(* When it is Crash.                                                       *)
LEMMA CrashStep ==
  ASSUME Up' = {}, \A c \in Clients : SubscribedTo(c)' = {} /\ Outbox(c)' = <<>>,
         SameTopics, SameMailboxes, SameRead, wanted' = wanted
  PROVE  AbstractStep
<1>1. [c \in Clients |-> SubscribedTo(c)]' = [c \in Clients |-> {}]
  OBVIOUS
<1>2. [c \in Clients |-> Outbox(c)]' = [c \in Clients |-> <<>>]
  OBVIOUS
<1>3. PubSub!Crash
  BY <1>1, <1>2, Unchanged DEF PubSub!Crash
<1> QED
  BY <1>3 DEF AbstractStep, PubSub!Next

(* When it is Want.                                                        *)
LEMMA WantStep ==
  ASSUME NEW c \in Clients, NEW t \in Topics, wanted' = [wanted EXCEPT ![c] = @ \cup {t}],
         SameUp, SameSubscribed, SameTopics, SameOutboxes, SameMailboxes, SameRead
  PROVE  AbstractStep
<1>1. PubSub!Want(c, t)
  BY Unchanged DEF PubSub!Want
<1> QED
  BY <1>1 DEF AbstractStep, PubSub!Next

(* When it is Subscribe.                                                   *)
LEMMA SubscribeStep ==
  ASSUME NEW c \in Clients, NEW t \in Topics, c \in Up, t \in wanted[c],
         SubscribedTo(c)' = SubscribedTo(c) \cup {t},
         \A d \in Clients \ {c} : SubscribedTo(d)' = SubscribedTo(d),
         SameUp, SameTopics, SameOutboxes, SameMailboxes, SameRead, wanted' = wanted
  PROVE  AbstractStep
<1>1. [d \in Clients |-> SubscribedTo(d)]' =
        [[d \in Clients |-> SubscribedTo(d)] EXCEPT ![c] = @ \cup {t}]
  OBVIOUS
<1>2. PubSub!Subscribe(c, t)
  BY <1>1, Unchanged DEF PubSub!Subscribe
<1> QED
  BY <1>2 DEF AbstractStep, PubSub!Next

(* When it is Publish.                                                     *)
LEMMA PublishStep ==
  ASSUME NEW c \in Clients, NEW t \in Topics, NEW m \in Payloads, PublishedTo(m) = NoTopic,
         PublishedTo(m)' = t, \A n \in Payloads \ {m} : PublishedTo(n)' = PublishedTo(n),
         Outbox(c)' = IF c \in Up THEN Append(Outbox(c), m) ELSE Outbox(c),
         \A d \in Clients \ {c} : Outbox(d)' = Outbox(d),
         SameUp, SameSubscribed, SameMailboxes, SameRead, wanted' = wanted
  PROVE  AbstractStep
<1>1. [n \in Payloads |-> PublishedTo(n)]' = [[n \in Payloads |-> PublishedTo(n)] EXCEPT ![m] = t]
  OBVIOUS
<1>2. [d \in Clients |-> Outbox(d)]' =
        IF c \in Up THEN [[d \in Clients |-> Outbox(d)] EXCEPT ![c] = Append(@, m)]
        ELSE [d \in Clients |-> Outbox(d)]
  <2>1. CASE c \in Up
    <3>1. [d \in Clients |-> Outbox(d)]' =
            [[d \in Clients |-> Outbox(d)] EXCEPT ![c] = Append(@, m)]
      BY <2>1
    <3> QED
      BY <2>1, <3>1
  <2>2. CASE c \notin Up
    <3>1. SameOutboxes
      BY <2>2 DEF SameOutboxes
    <3> QED
      BY <2>2, <3>1, Unchanged
  <2> QED
    BY <2>1, <2>2
<1>3. PubSub!Publish(c, t, m)
  BY <1>1, <1>2, Unchanged DEF PubSub!Publish
<1> QED
  BY <1>3 DEF AbstractStep, PubSub!Next

(* When it is Forward: no subscriber is left out.                          *)
LEMMA ForwardStep ==
  ASSUME NEW c \in Clients, NEW m \in Payloads, Outbox(c) # <<>>, Head(Outbox(c)) = m,
         Outbox(c)' = Tail(Outbox(c)), \A d \in Clients \ {c} : Outbox(d)' = Outbox(d),
         \A d \in Clients : Mailbox(d)' =
           IF d # c /\ PublishedTo(m) \in SubscribedTo(d) THEN Append(Mailbox(d), m)
           ELSE Mailbox(d),
         SameUp, SameSubscribed, SameTopics, SameRead, wanted' = wanted
  PROVE  AbstractStep
<1> DEFINE mailboxes == [d \in Clients |-> Mailbox(d)]
           outboxes == [d \in Clients |-> Outbox(d)]
           topics == [n \in Payloads |-> PublishedTo(n)]
           subscribed == [d \in Clients |-> SubscribedTo(d)]
<1>1. outboxes' = [outboxes EXCEPT ![c] = Tail(@)]
  OBVIOUS
<1>2. outboxes[c] # <<>> /\ Head(outboxes[c]) = m
  OBVIOUS
<1>3. mailboxes' = [d \in Clients |->
        IF d # c /\ topics[m] \in subscribed[d] THEN Append(mailboxes[d], m) ELSE mailboxes[d]]
  OBVIOUS
<1>4. PubSub!Forward(c)
  BY <1>1, <1>2, <1>3, Unchanged DEF PubSub!Forward
<1> QED
  BY <1>4 DEF AbstractStep, PubSub!Next

(* When it is Deliver.                                                     *)
LEMMA DeliverStep ==
  ASSUME NEW c \in Clients, Mailbox(c) # <<>>, Mailbox(c)' = Tail(Mailbox(c)),
         ReadBy(c)' = Append(ReadBy(c), Head(Mailbox(c))),
         \A d \in Clients \ {c} : Mailbox(d)' = Mailbox(d) /\ ReadBy(d)' = ReadBy(d),
         SameUp, SameSubscribed, SameTopics, SameOutboxes, wanted' = wanted
  PROVE  AbstractStep
<1> DEFINE mailboxes == [d \in Clients |-> Mailbox(d)]
           read == [d \in Clients |-> ReadBy(d)]
<1>1. /\ mailboxes[c] # <<>>
      /\ mailboxes' = [mailboxes EXCEPT ![c] = Tail(@)]
      /\ read' = [read EXCEPT ![c] = Append(@, Head(mailboxes[c]))]
  OBVIOUS
<1>2. PubSub!Deliver(c)
  BY <1>1, Unchanged DEF PubSub!Deliver
<1> QED
  BY <1>2 DEF AbstractStep, PubSub!Next

-----------------------------------------------------------------------------
(* What a step leaves alone.                                               *)

(* The outbox of a client is the only queue that holds publishes of its    *)
(* main connection.                                                        *)
LEMMA ChosenQueue ==
  ASSUME NEW Q, NEW w, NEW e, NEW p \in Peers, QueuedBy(Q[p], w, e),
         \A q \in Peers : QueuedBy(Q[q], w, e) => q = p
  PROVE  (CHOOSE q \in Peers : QueuedBy(Q[q], w, e)) = p
<1> HIDE DEF QueuedBy
<1>1. (CHOOSE q \in Peers : QueuedBy(Q[q], w, e)) \in Peers
  OBVIOUS
<1>2. QueuedBy(Q[CHOOSE q \in Peers : QueuedBy(Q[q], w, e)], w, e)
  OBVIOUS
<1> QED
  BY <1>1, <1>2

(* The outbox of a client is the one queue that holds a publish of its     *)
(* main connection.                                                        *)
LEMMA OutboxIs ==
  ASSUME QueuesInOrder, NEW c \in Clients
  PROVE  /\ \A p \in Peers : QueuedBy(rx[p], author, main[c]) =>
              Outbox(c) = PayloadsOf(rx[p], "publish")
         /\ (\A p \in Peers : ~QueuedBy(rx[p], author, main[c])) => Outbox(c) = <<>>
<1>1. ASSUME NEW p \in Peers, QueuedBy(rx[p], author, main[c])
      PROVE  Outbox(c) = PayloadsOf(rx[p], "publish")
  <2>1. \A q \in Peers : QueuedBy(rx[q], author, main[c]) => q = p
    BY <1>1 DEF QueuesInOrder, QueuedBy
  <2>2. (CHOOSE q \in Peers : QueuedBy(rx[q], author, main[c])) = p
    BY <1>1, <2>1, ChosenQueue
  <2> QED
    BY <1>1, <2>2 DEF Outbox
<1> QED
  BY <1>1 DEF Outbox

(* The same in the next state.                                             *)
LEMMA OutboxWillBe ==
  ASSUME QueuesInOrder', NEW c \in Clients
  PROVE  /\ \A p \in Peers : QueuedBy(rx'[p], author', main'[c]) =>
              Outbox(c)' = PayloadsOf(rx'[p], "publish")
         /\ (\A p \in Peers : ~QueuedBy(rx'[p], author', main'[c])) => Outbox(c)' = <<>>
<1>1. ASSUME NEW p \in Peers, QueuedBy(rx'[p], author', main'[c])
      PROVE  Outbox(c)' = PayloadsOf(rx'[p], "publish")
  <2>1. \A q \in Peers : QueuedBy(rx'[q], author', main'[c]) => q = p
    BY <1>1 DEF QueuesInOrder, QueuedBy
  <2>2. (CHOOSE q \in Peers : QueuedBy(rx'[q], author', main'[c])) = p
    BY <1>1, <2>1, ChosenQueue
  <2> QED
    BY <1>1, <2>2 DEF Outbox
<1> QED
  BY <1>1 DEF Outbox

(* An outbox stays when its queue keeps its publishes.                     *)
LEMMA SameOutbox ==
  ASSUME QueuesInOrder, QueuesInOrder', NEW c \in Clients,
         \A p \in Peers :
           /\ QueuedBy(rx'[p], author', main'[c]) <=> QueuedBy(rx[p], author, main[c])
           /\ QueuedBy(rx[p], author, main[c]) =>
                PayloadsOf(rx'[p], "publish") = PayloadsOf(rx[p], "publish")
  PROVE  Outbox(c)' = Outbox(c)
<1>1. CASE \E p \in Peers : QueuedBy(rx[p], author, main[c])
  BY <1>1, OutboxIs, OutboxWillBe
<1>2. CASE \A p \in Peers : ~QueuedBy(rx[p], author, main[c])
  BY <1>2, OutboxIs, OutboxWillBe
<1> QED
  BY <1>1, <1>2

(* A queue that passes, or takes, something else than a publish or fanout. *)
Passes(q, r, type) ==
  \/ r = q
  \/ q # <<>> /\ r = Tail(q) /\ Head(q).type # type
  \/ \E x \in Packets : r = Append(q, x) /\ x.type # type

(* A packet of another type changes no payloads.                           *)
LEMMA PassesPayloads ==
  ASSUME NEW q \in Seq(Packets), NEW r, NEW type, Passes(q, r, type)
  PROVE  PayloadsOf(r, type) = PayloadsOf(q, type)
<1>1. CASE q # <<>> /\ r = Tail(q) /\ Head(q).type # type
  BY <1>1, PayloadsTail
<1>2. ASSUME NEW x \in Packets, r = Append(q, x), x.type # type
      PROVE  PayloadsOf(r, type) = PayloadsOf(q, type)
  BY <1>2, PayloadsAppend
<1> QED
  BY <1>1, <1>2 DEF Passes

(* Nor does it change whose publishes a queue holds.                       *)
LEMMA PassesQueued ==
  ASSUME NEW q \in Seq(Packets), NEW r, Passes(q, r, "publish"), NEW w, NEW e
  PROVE  QueuedBy(r, w, e) <=> QueuedBy(q, w, e)
<1>1. \A s : QueuedBy(s, w, e) <=> \E m : Holds(s, "publish", m) /\ w[m] = e
  BY DEF QueuedBy, Holds
<1>2. CASE q # <<>> /\ r = Tail(q) /\ Head(q).type # "publish"
  <2>1. \A m : Holds(r, "publish", m) <=> Holds(q, "publish", m)
    BY <1>2, HoldsTail
  <2> QED
    BY <1>1, <2>1
<1>3. ASSUME NEW x \in Packets, r = Append(q, x), x.type # "publish"
      PROVE  QueuedBy(r, w, e) <=> QueuedBy(q, w, e)
  <2>1. \A m : Holds(r, "publish", m) <=> Holds(q, "publish", m)
    BY <1>3, HoldsAppend
  <2> QED
    BY <1>1, <2>1
<1> QED
  BY <1>2, <1>3 DEF Passes

(* Nothing moves between outboxes, mailboxes and what was read.            *)
Calm ==
  /\ author' = author /\ main' = main /\ delivered' = delivered
  /\ \A p \in Peers : Passes(rx[p], rx'[p], "publish")
  /\ \A c \in Clients : main[c] # NoEndpoint => Passes(inq[main[c]], inq'[main[c]], "fanout")

(* A step that sends no publish changes the topic of none.                 *)
LEMMA SamePublished ==
  ASSUME BusInv, OrderInv, [BusNext]_busVars, author' = author
  PROVE  SameTopics
<1>1. ASSUME NEW m \in Payloads, author[m] # NoEndpoint PROVE intended'[m] = intended[m]
  BY <1>1, StreamsStay
<1> QED
  BY <1>1 DEF SameTopics, PublishedTo

(* Queues that keep their publishes keep the outboxes.                     *)
LEMMA CalmOutboxes ==
  ASSUME BusInv, OrderInv, [BusNext]_busVars, author' = author, main' = main,
         \A p \in Peers : Passes(rx[p], rx'[p], "publish")
  PROVE  SameOutboxes
<1>1. QueuesInOrder /\ QueuesInOrder'
  BY StepKeepsOrder DEF OrderInv
<1>2. \A p \in Peers : rx[p] \in Seq(Packets)
  BY DEF BusInv, BusTypeOK, ServerTypeOK, ENetTypeOK
<1>3. ASSUME NEW c \in Clients PROVE Outbox(c)' = Outbox(c)
  BY <1>1, <1>2, PassesPayloads, PassesQueued, SameOutbox
<1> QED
  BY <1>3 DEF SameOutboxes

(* A connection that keeps its fanouts keeps the mailbox.                  *)
LEMMA CalmMailbox ==
  ASSUME BusInv, NEW c \in Clients, main'[c] = main[c],
         main[c] # NoEndpoint => Passes(inq[main[c]], inq'[main[c]], "fanout")
  PROVE  Mailbox(c)' = Mailbox(c)
<1>1. main[c] # NoEndpoint => inq[main[c]] \in Seq(Packets)
  BY DEF BusInv, BusTypeOK, ServerTypeOK, ENetTypeOK
<1> QED
  BY <1>1, PassesPayloads DEF Mailbox

(* A calm step shows in none of the payloads.                              *)
LEMMA CalmStep ==
  ASSUME BusInv, OrderInv, [BusNext]_busVars, Calm
  PROVE  SameTopics /\ SameOutboxes /\ SameMailboxes /\ SameRead
<1>1. SameTopics /\ SameOutboxes
  BY SamePublished, CalmOutboxes DEF Calm
<1>2. SameMailboxes
  BY CalmMailbox DEF Calm, SameMailboxes
<1>3. SameRead
  BY DEF Calm, SameRead, ReadBy
<1> QED
  BY <1>1, <1>2, <1>3

(* The slots of the clients, and their subscriptions.                      *)
LEMMA SameSubscription ==
  ASSUME NEW c \in Clients, SlotsOf(c)' = SlotsOf(c), UNCHANGED <<topicMapVars, registryVars>>,
         \A p \in SlotsOf(c) : peer_state'[p] = peer_state[p]
  PROVE  SubscribedTo(c)' = SubscribedTo(c)
BY DEF SubscribedTo

(* Who is up and subscribed stays when the slots of main connections do.   *)
LEMMA SameSlots ==
  ASSUME main' = main, UNCHANGED <<topicMapVars, registryVars>>,
         \A p \in Peers, c \in Clients : main[c] # NoEndpoint =>
           /\ remote'[p] = main[c] <=> remote[p] = main[c]
           /\ remote[p] = main[c] => peer_state'[p] = peer_state[p]
  PROVE  SameUp /\ SameSubscribed
<1>1. SameUp
  BY DEF SameUp, SlotsOf
<1>2. \A c \in Clients : \A p \in SlotsOf(c) : peer_state'[p] = peer_state[p]
  BY DEF SlotsOf
<1>3. SameSubscribed
  BY <1>1, <1>2, SameSubscription DEF SameUp, SameSubscribed
<1> QED
  BY <1>1, <1>3

-----------------------------------------------------------------------------
(* The steps of the clients.                                               *)

(* A connection is made that is no client's main connection.               *)
LEMMA OtherConnects ==
  ASSUME BusInv, OrderInv, [BusNext]_busVars, ConnectFails \/ \E e \in Endpoints : Connected(e),
         UNCHANGED <<main, wanted, delivered>>
  PROVE  AbstractStep
<1>1. ASSUME NEW e \in Endpoints, NEW p \in Peers, Connect(p, e) \/ ConnectLate(p, e)
      PROVE  AbstractStep
  <2>1. /\ endpoint[e] = "new" /\ peer_state[p] = "free" /\ rx' = rx /\ inq' = inq
        /\ author' = author /\ UNCHANGED <<topicMapVars, registryVars>>
        /\ peer_state' = [peer_state EXCEPT ![p] = "pending"]
        /\ remote' = remote \/ remote' = [remote EXCEPT ![p] = e]
    BY <1>1 DEF Connect, ConnectLate, HostConnect, HostConnectLate, Untouched
  <2>2. \A c \in Clients : main[c] # e
    BY <2>1, ENetAssumption DEF BusInv, ClientInv, HostsSound
  <2>3. remote[p] = NoEndpoint
    BY <2>1 DEF BusInv, ServerInv, FanoutInv, LinksSound
  <2>4. \A q \in Peers, c \in Clients : main[c] # NoEndpoint =>
          /\ remote'[q] = main[c] <=> remote[q] = main[c]
          /\ remote[q] = main[c] => peer_state'[q] = peer_state[q]
    BY <2>1, <2>2, <2>3 DEF BusInv, BusTypeOK, ServerTypeOK, ENetTypeOK
  <2>5. SameUp /\ SameSubscribed
    BY <2>1, <2>4, SameSlots
  <2>6. Calm
    BY <2>1 DEF Calm, Passes
  <2> QED
    BY <2>5, <2>6, CalmStep, StutterStep
<1>2. CASE UNCHANGED serverVars
  <2>1. Calm
    BY <1>2 DEF Calm, Passes
  <2>2. SameUp /\ SameSubscribed
    BY <1>2, SameSlots
  <2> QED
    BY <2>1, <2>2, CalmStep, StutterStep
<1> QED
  BY <1>1, <1>2 DEF ConnectFails, Connected

(* A temporary connection is used or closed.                               *)
LEMMA OtherSends ==
  ASSUME BusInv, OrderInv, [BusNext]_busVars, NEW e \in Endpoints, NEW packet \in Packets,
         packet.type # "publish", Send(e, packet), UNCHANGED <<main, delivered>>
  PROVE  /\ SameUp /\ SameSubscribed /\ SameTopics /\ SameOutboxes
         /\ SameMailboxes /\ SameRead
<1>1. /\ remote' = remote /\ peer_state' = peer_state /\ inq' = inq /\ author' = author
      /\ UNCHANGED <<topicMapVars, registryVars>>
      /\ \A p \in Peers : rx'[p] = rx[p] \/ rx'[p] = Append(rx[p], packet)
  BY DEF Send, HostSend, Untouched
<1>2. Calm
  BY <1>1 DEF Calm, Passes
<1>3. SameUp /\ SameSubscribed
  BY <1>1, SameSlots
<1> QED
  BY <1>2, <1>3, CalmStep

(* The end of a temporary connection, the one of get_topic_key, is not     *)
(* seen.                                                                   *)
LEMMA OtherCloses ==
  ASSUME BusInv, OrderInv, [BusNext]_busVars, NEW e \in Endpoints, Close(e),
         \A c \in Clients : main[c] # e, UNCHANGED <<main, wanted, delivered>>
  PROVE  AbstractStep
<1>1. /\ remote' = Unlink(e) /\ peer_state' = peer_state /\ author' = author /\ rx' = rx
      /\ inq' = [inq EXCEPT ![e] = <<>>]
      /\ UNCHANGED <<topicMapVars, registryVars>>
  BY DEF Close, HostDestroy, Untouched
<1>2. \A c \in Clients : main[c] # NoEndpoint => inq'[main[c]] = inq[main[c]]
  BY <1>1 DEF BusInv, BusTypeOK, ServerTypeOK, ENetTypeOK
<1>3. Calm
  BY <1>1, <1>2 DEF Calm, Passes
<1>4. \A p \in Peers, c \in Clients : main[c] # NoEndpoint =>
        (remote'[p] = main[c] <=> remote[p] = main[c])
  BY <1>1 DEF Unlink
<1>5. SameUp /\ SameSubscribed
  BY <1>1, <1>4, SameSlots
<1> QED
  BY <1>3, <1>5, CalmStep, StutterStep

(* No step of get_topic_key before its caller goes on is seen, failures    *)
(* included.                                                               *)
LEMMA ResolvingStep ==
  ASSUME BusInv, OrderInv, [BusNext]_busVars, NEW c \in Clients,
         \/ ConstructFails(c) \/ TmpConnect(c) \/ TmpConnectFails(c)
         \/ TmpRequest(c) \/ TmpReceive(c) \/ TmpReceiveFails(c)
  PROVE  AbstractStep
<1> USE DEF BusInv
<1>1. CASE ConstructFails(c) \/ TmpConnect(c) \/ TmpConnectFails(c)
  BY <1>1, OtherConnects DEF ConstructFails, TmpConnect, TmpConnectFails, Throw
<1>2. CASE TmpRequest(c)
  <2>1. /\ temporary[c] \in Endpoints /\ op[c].topic \in Topics
    BY <1>2, InUse DEF TmpRequest, Goto, InCall
  <2>2. /\ topic_request(op[c].topic) \in Packets
        /\ topic_request(op[c].topic).type # "publish"
    BY <2>1, PacketsTyped DEF topic_request, construct
  <2>3. Send(temporary[c], topic_request(op[c].topic)) /\ UNCHANGED <<main, wanted, delivered>>
    BY <1>2 DEF TmpRequest
  <2> QED
    BY <2>1, <2>2, <2>3, OtherSends, StutterStep
<1>3. CASE TmpReceive(c) \/ TmpReceiveFails(c)
  <2>1. temporary[c] \in Endpoints
    BY <1>3, InUse DEF TmpReceive, TmpReceiveFails, Throw, Goto
  <2>2. \A d \in Clients : main[d] # temporary[c]
    BY <2>1, ENetAssumption DEF ClientInv, HostsSound
  <2>3. Close(temporary[c]) /\ UNCHANGED <<main, wanted, delivered>>
    BY <1>3 DEF TmpReceive, TmpReceiveFails, Throw
  <2> QED
    BY <2>1, <2>2, <2>3, OtherCloses
<1> QED
  BY <1>1, <1>2, <1>3

(* No publish waits on behalf of nobody, or of a host that never sent.     *)
LEMMA NothingQueued ==
  ASSUME BusInv, NEW p \in Peers, NEW e, e \in Endpoints => endpoint[e] = "new"
  PROVE  ~QueuedBy(rx[p], author, e)
BY WaitingSound DEF QueuedBy, BusInv, ServerInv

(* An empty queue holds no payloads.                                       *)
LEMMA EmptyMailbox == PayloadsOf(<<>>, "fanout") = <<>> /\ PayloadsOf(<<>>, "publish") = <<>>
<1>1. <<>> \in Seq(Packets) /\ DOMAIN <<>> = {}
  OBVIOUS
<1> QED
  BY <1>1, NoPayloads

(* The constructor connects: the client joins, with nothing on the way.    *)
LEMMA ConstructStep ==
  ASSUME BusInv, OrderInv, [BusNext]_busVars, NEW c \in Clients, Construct(c)
  PROVE  AbstractStep
<1> USE ENetAssumption
<1>1. PICK e \in Endpoints, p \in Peers : Connect(p, e) /\ main' = [main EXCEPT ![c] = e]
  BY DEF Construct, Connected
<1>2. /\ endpoint[e] = "new" /\ peer_state[p] = "free" /\ rx' = rx /\ inq' = inq
      /\ author' = author /\ UNCHANGED <<topicMapVars, registryVars, wanted, delivered>>
      /\ peer_state' = [peer_state EXCEPT ![p] = "pending"]
      /\ remote' = [remote EXCEPT ![p] = e]
  BY <1>1 DEF Connect, HostConnect, Untouched, Construct
<1>3. /\ DOMAIN main = Clients /\ DOMAIN remote = Peers /\ DOMAIN peer_state = Peers
      /\ \A d \in Clients : main[d] # NoEndpoint => main[d] \in Endpoints
  BY DEF BusInv, BusTypeOK, ServerTypeOK, ENetTypeOK
<1>4. main[c] = NoEndpoint /\ main'[c] = e
  BY <1>1, <1>3 DEF BusInv, ClientInv, CallSound, Construct, Goto
<1>5. \A d \in Clients : main[d] # e
  BY <1>2 DEF BusInv, ClientInv, HostsSound
<1>6. remote[p] = NoEndpoint
  BY <1>2 DEF BusInv, ServerInv, FanoutInv, LinksSound
<1>7. SlotsOf(c) = {} /\ SlotsOf(c)' = {p}
  <2>1. \A q \in Peers : remote[q] # e
    BY <1>2 DEF BusInv, ServerInv, FanoutInv, LinksSound
  <2> QED
    BY <1>2, <1>3, <1>4, <2>1 DEF SlotsOf
<1>8. \A d \in Clients \ {c} : SlotsOf(d)' = SlotsOf(d) /\ p \notin SlotsOf(d)
  BY <1>1, <1>2, <1>3, <1>5, <1>6 DEF SlotsOf
<1>9. c \notin Up /\ Up' = Up \cup {c}
  BY <1>7, <1>8 DEF Up
<1>10. SameSubscribed
  <2>1. SubscribedTo(c) = {} /\ SubscribedTo(c)' = {}
    <3>1. peer_state'[p] = "pending"
      BY <1>2, <1>3
    <3> QED
      BY <1>7, <3>1 DEF SubscribedTo
  <2>2. ASSUME NEW d \in Clients \ {c} PROVE SubscribedTo(d)' = SubscribedTo(d)
    <3>1. \A q \in SlotsOf(d) : peer_state'[q] = peer_state[q]
      BY <1>2, <1>8
    <3> QED
      BY <1>2, <1>8, <3>1, SameSubscription
  <2> QED
    BY <2>1, <2>2 DEF SameSubscribed
<1>11. SameTopics
  BY <1>2, SamePublished
<1>12. SameOutboxes
  <2>1. QueuesInOrder /\ QueuesInOrder'
    BY StepKeepsOrder DEF OrderInv
  <2>2. \A q \in Peers : ~QueuedBy(rx[q], author, e) /\ ~QueuedBy(rx[q], author, NoEndpoint)
    BY <1>2, NothingQueued
  <2>3. Outbox(c)' = Outbox(c)
    BY <1>2, <1>4, <2>1, <2>2, SameOutbox
  <2>4. ASSUME NEW d \in Clients \ {c} PROVE Outbox(d)' = Outbox(d)
    <3>1. main'[d] = main[d]
      BY <1>1, <1>3
    <3> QED
      BY <1>2, <2>1, <3>1, SameOutbox
  <2> QED
    BY <2>3, <2>4 DEF SameOutboxes
<1>13. SameMailboxes
  <2>1. inq[e] = <<>>
    BY <1>2 DEF BusInv, ClientInv, HostsSound
  <2>2. Mailbox(c)' = Mailbox(c)
    BY <1>2, <1>4, <2>1, EmptyMailbox DEF Mailbox
  <2>3. ASSUME NEW d \in Clients \ {c} PROVE Mailbox(d)' = Mailbox(d)
    BY <1>1, <1>2, <1>3 DEF Mailbox
  <2> QED
    BY <2>2, <2>3 DEF SameMailboxes
<1>14. SameRead
  BY <1>2 DEF SameRead, ReadBy
<1> QED
  BY <1>2, <1>9, <1>10, <1>11, <1>12, <1>13, <1>14, JoinStep

(* The main connection ends on the client's side: what was forwarded and   *)
(* not read is gone; what the server has received is not.                  *)
LEMMA LeaveStep ==
  ASSUME BusInv, OrderInv, [BusNext]_busVars, NEW c \in Clients,
         Destroy(c) \/ PollDisconnected(c)
  PROVE  AbstractStep
<1> USE ENetAssumption
<1> DEFINE e == main[c]
<1>1. /\ remote' = Unlink(e) /\ peer_state' = peer_state /\ author' = author /\ rx' = rx
      /\ inq' = [inq EXCEPT ![e] = <<>>]
      /\ UNCHANGED <<topicMapVars, registryVars, main, wanted, delivered>>
  BY DEF Destroy, PollDisconnected, Close, Lose, HostDestroy, HostDisconnected, Untouched
<1>2. /\ e \in Endpoints /\ DOMAIN inq = Endpoints
      /\ \A d \in Clients : main[d] # NoEndpoint => main[d] \in Endpoints
      /\ \A d \in Clients : d # c => main[d] # e
  <2>1. pc[c] = "idle"
    BY DEF Destroy, PollDisconnected, Goto
  <2> QED
    BY <2>1, InUse DEF BusInv, BusTypeOK, ServerTypeOK, ENetTypeOK, ClientInv, HostsSound
<1>3. SlotsOf(c)' = {}
  BY <1>1, <1>2 DEF SlotsOf, Unlink
<1>4. \A d \in Clients \ {c} : SlotsOf(d)' = SlotsOf(d)
  BY <1>1, <1>2 DEF SlotsOf, Unlink
<1>5. Up' = Up \ {c}
  BY <1>3, <1>4 DEF Up
<1>6. SubscribedTo(c)' = {}
  BY <1>3 DEF SubscribedTo
<1>7. \A d \in Clients \ {c} : SubscribedTo(d)' = SubscribedTo(d)
  BY <1>1, <1>4, SameSubscription
<1>8. SameTopics /\ SameRead
  BY <1>1, SamePublished DEF SameRead, ReadBy
<1>9. SameOutboxes
  BY <1>1, CalmOutboxes DEF Passes
<1>10. Mailbox(c)' = <<>>
  BY <1>1, <1>2, EmptyMailbox DEF Mailbox
<1>11. \A d \in Clients \ {c} : Mailbox(d)' = Mailbox(d)
  BY <1>1, <1>2 DEF Mailbox
<1> QED
  BY <1>1, <1>5, <1>6, <1>7, <1>8, <1>9, <1>10, <1>11, CutStep

(* The payloads of a record sequence.                                      *)
LEMMA ReadAppend ==
  ASSUME NEW S, NEW s \in Seq(S), NEW y \in S
  PROVE  [i \in DOMAIN Append(s, y) |-> Append(s, y)[i].payload] =
           Append([i \in DOMAIN s |-> s[i].payload], y.payload)
<1> DEFINE P == {x.payload : x \in S}
           r == [i \in DOMAIN s |-> s[i].payload]
           n == Len(s)
<1>1. n \in Nat /\ DOMAIN s = 1 .. n /\ \A i \in 1 .. n : s[i] \in S
  OBVIOUS
<1>2. r \in Seq(P) /\ Len(r) = n /\ y.payload \in P
  BY <1>1
<1> HIDE DEF P, n
<1>3. /\ DOMAIN Append(r, y.payload) = 1 .. n + 1
      /\ \A i \in 1 .. n : Append(r, y.payload)[i] = r[i]
      /\ Append(r, y.payload)[n + 1] = y.payload
  BY <1>2
<1>4. /\ DOMAIN Append(s, y) = 1 .. n + 1
      /\ \A i \in 1 .. n : Append(s, y)[i] = s[i]
      /\ Append(s, y)[n + 1] = y
  BY DEF n
<1>5. \A i \in 1 .. n + 1 : Append(s, y)[i].payload = Append(r, y.payload)[i]
  <2>1. \A i \in 1 .. n + 1 : i \in 1 .. n \/ i = n + 1
    BY <1>1
  <2>2. \A i \in 1 .. n : r[i] = s[i].payload
    BY <1>1
  <2> QED
    BY <1>3, <1>4, <2>1, <2>2
<1>6. Append(r, y.payload) = [i \in 1 .. n + 1 |-> Append(r, y.payload)[i]]
  BY <1>2
<1> QED
  BY <1>4, <1>5, <1>6

(* A callback is given the oldest fanout; other packets are passed over.   *)
LEMMA PollStep ==
  ASSUME BusInv, OrderInv, [BusNext]_busVars, NEW c \in Clients, PollMessage(c)
  PROVE  AbstractStep
<1> USE ENetAssumption
<1> DEFINE e == main[c]
           h == Head(inq[e])
<1>1. /\ remote' = remote /\ peer_state' = peer_state /\ author' = author /\ rx' = rx
      /\ inq[e] # <<>> /\ inq' = [inq EXCEPT ![e] = Tail(@)]
      /\ UNCHANGED <<topicMapVars, registryVars, main, wanted>>
  BY DEF PollMessage, Poll, HostReceive, Untouched
<1>2. /\ e \in Endpoints /\ DOMAIN inq = Endpoints /\ inq[e] \in Seq(Packets)
      /\ \A d \in Clients : main[d] # NoEndpoint => main[d] \in Endpoints
      /\ \A d \in Clients : d # c => main[d] # e
  <2>1. pc[c] = "idle"
    BY DEF PollMessage
  <2> QED
    BY <2>1, InUse DEF BusInv, BusTypeOK, ServerTypeOK, ENetTypeOK, ClientInv, HostsSound
<1>3. SameUp /\ SameSubscribed
  BY <1>1, SameSlots
<1>4. \A d \in Clients \ {c} : main[d] # NoEndpoint => inq'[main[d]] = inq[main[d]]
  BY <1>1, <1>2
<1>5. inq'[e] = Tail(inq[e])
  BY <1>1, <1>2
<1>6. CASE h.type # "fanout"
  <2>1. delivered' = delivered
    BY <1>6 DEF PollMessage
  <2>2. Calm
    BY <1>1, <1>4, <1>5, <1>6, <2>1 DEF Calm, Passes
  <2> QED
    BY <1>1, <1>3, <2>2, CalmStep, StutterStep
<1>7. CASE h.type = "fanout"
  <2>1. SameTopics
    BY <1>1, SamePublished
  <2>2. SameOutboxes
    BY <1>1, CalmOutboxes DEF Passes
  <2>3. /\ Mailbox(c) = PayloadsOf(inq[e], "fanout")
        /\ Mailbox(c)' = PayloadsOf(Tail(inq[e]), "fanout")
    BY <1>1, <1>2, <1>5 DEF Mailbox
  <2>4. /\ Mailbox(c) # <<>> /\ Head(Mailbox(c)) = h.payload
        /\ Mailbox(c)' = Tail(Mailbox(c))
    BY <1>1, <1>2, <1>7, <2>3, PayloadsHead
  <2>5. \A d \in Clients \ {c} : Mailbox(d)' = Mailbox(d)
    BY <1>1, <1>4 DEF Mailbox
  <2> DEFINE R == [payload: Payloads, topic: Topics \cup {NoTopic}]
  <2>6. PICK y \in R :
          y.payload = h.payload /\ delivered' = [delivered EXCEPT ![c] = Append(@, y)]
    BY <1>7, DeliverFacts DEF BusInv, ServerInv, OrderInv
  <2>7. delivered[c] \in Seq(R) /\ DOMAIN delivered = Clients
    BY DEF BusInv, BusTypeOK
  <2>8. ReadBy(c)' = Append(ReadBy(c), h.payload)
    <3>1. delivered'[c] = Append(delivered[c], y)
      BY <2>6, <2>7
    <3> HIDE DEF R
    <3> QED
      BY <2>6, <2>7, <3>1, ReadAppend DEF ReadBy
  <2>9. \A d \in Clients \ {c} : ReadBy(d)' = ReadBy(d)
    BY <2>6, <2>7 DEF ReadBy
  <2> QED
    BY <1>1, <1>3, <2>1, <2>2, <2>4, <2>5, <2>8, <2>9, DeliverStep
<1> QED
  BY <1>6, <1>7

(* A publish is sent.                                                      *)
LEMMA SentStep ==
  ASSUME BusInv, OrderInv, [BusNext]_busVars, NEW c \in Clients, NEW n \in Payloads,
         NEW key \in Nat, PublishSent(c, n, key), wanted' = wanted
  PROVE  AbstractStep
<1> USE ENetAssumption
<1> DEFINE e == main[c]
           x == publish(key, n)
<1>1. /\ remote' = remote /\ peer_state' = peer_state /\ inq' = inq
      /\ author[n] = NoEndpoint /\ author' = [author EXCEPT ![n] = e]
      /\ \A p \in Peers : rx'[p] = IF remote[p] = e THEN Append(rx[p], x) ELSE rx[p]
      /\ UNCHANGED <<topicMapVars, registryVars, main, delivered>>
  BY DEF PublishSent, Send, HostSend, Untouched, publish, construct
<1>2. x \in Packets /\ x.type = "publish" /\ x.payload = n
  BY PacketsTyped DEF publish, construct
<1>3. /\ e \in Endpoints /\ DOMAIN author = Payloads
      /\ \A p \in Peers : rx[p] \in Seq(Packets)
      /\ \A d \in Clients : d # c => main[d] # e
  BY DEF PublishSent, BusInv, BusTypeOK, ServerTypeOK, ENetTypeOK, ClientInv, HostsSound
<1> HIDE DEF x
<1>4. SameUp /\ SameSubscribed
  BY <1>1, SameSlots
<1>5. SameMailboxes /\ SameRead
  BY <1>1 DEF SameMailboxes, Mailbox, SameRead, ReadBy
<1>6. /\ intended'[n] \in Topics /\ PublishedTo(n) = NoTopic
      /\ PublishedTo(n)' = intended'[n]
  BY <1>1, <1>3 DEF PublishSent, PublishedTo
<1>7. ASSUME NEW m \in Payloads \ {n} PROVE PublishedTo(m)' = PublishedTo(m)
  <2>1. author'[m] = author[m]
    BY <1>1, <1>3
  <2>2. author[m] # NoEndpoint => intended'[m] = intended[m]
    BY StreamsStay
  <2> QED
    BY <2>1, <2>2 DEF PublishedTo
<1>8. ASSUME NEW p \in Peers, NEW i \in DOMAIN rx[p], rx[p][i].type = "publish"
      PROVE  LET m == rx[p][i].payload IN
               /\ author[m] \in Endpoints /\ author'[m] = author[m]
               /\ remote[p] # NoEndpoint => author[m] = remote[p]
               /\ \A q \in Peers : remote[q] = author[m] => q = p
  <2>1. /\ rx[p][i].payload \in Payloads /\ author[rx[p][i].payload] \in Endpoints
        /\ \A q \in Peers : remote[q] = author[rx[p][i].payload] => q = p
    BY <1>8, WaitingSound DEF BusInv, ServerInv
  <2>2. rx[p][i].payload # n
    BY <1>1, <2>1
  <2> QED
    BY <1>1, <1>3, <1>8, <2>1, <2>2 DEF OrderInv, QueuesInOrder
<1>9. \A p \in Peers : \A f : QueuedBy(rx[p], author', f) <=> QueuedBy(rx[p], author, f)
  BY <1>8 DEF QueuedBy
<1>10. ASSUME NEW p \in Peers, remote[p] = e
       PROVE  /\ \A f : QueuedBy(rx'[p], author', f) <=> QueuedBy(rx[p], author, f) \/ f = e
              /\ \A f : QueuedBy(rx[p], author, f) => f = e
              /\ PayloadsOf(rx'[p], "publish") = Append(PayloadsOf(rx[p], "publish"), n)
  <2>1. rx'[p] = Append(rx[p], x)
    BY <1>1, <1>10
  <2>2. \A s, w, f : QueuedBy(s, w, f) <=> \E m : Holds(s, "publish", m) /\ w[m] = f
    BY DEF QueuedBy, Holds
  <2>3. \A m : Holds(rx'[p], "publish", m) <=> Holds(rx[p], "publish", m) \/ m = n
    BY <1>2, <1>3, <2>1, HoldsAppend
  <2>4. author'[n] = e
    BY <1>1, <1>3
  <2>5. \A f : QueuedBy(rx'[p], author', f) <=> QueuedBy(rx[p], author', f) \/ f = e
    BY <2>2, <2>3, <2>4
  <2>6. \A f : QueuedBy(rx[p], author, f) => f = e
    BY <1>3, <1>8, <1>10 DEF QueuedBy
  <2>7. PayloadsOf(rx'[p], "publish") = Append(PayloadsOf(rx[p], "publish"), n)
    BY <1>2, <1>3, <2>1, PayloadsAppend
  <2> QED
    BY <1>9, <2>5, <2>6, <2>7
<1>11. QueuesInOrder /\ QueuesInOrder'
  BY StepKeepsOrder DEF OrderInv
<1>12. ASSUME NEW d \in Clients \ {c} PROVE Outbox(d)' = Outbox(d)
  <2>1. main'[d] = main[d] /\ main[d] # e
    BY <1>1, <1>3
  <2>2. ASSUME NEW p \in Peers
        PROVE  /\ QueuedBy(rx'[p], author', main'[d]) <=> QueuedBy(rx[p], author, main[d])
               /\ QueuedBy(rx[p], author, main[d]) =>
                    PayloadsOf(rx'[p], "publish") = PayloadsOf(rx[p], "publish")
    <3>1. CASE remote[p] = e
      BY <1>10, <2>1, <3>1
    <3>2. CASE remote[p] # e
      <4>1. rx'[p] = rx[p]
        BY <1>1, <3>2
      <4> QED
        BY <1>9, <2>1, <4>1
    <3> QED
      BY <3>1, <3>2
  <2> QED
    BY <1>11, <2>2, SameOutbox
<1>13. CASE c \in Up
  <2>1. PICK p \in Peers : remote[p] = e
    BY <1>13 DEF Up, SlotsOf
  <2>2. \A q \in Peers : QueuedBy(rx[q], author, e) => q = p
    BY <1>8, <2>1 DEF QueuedBy
  <2>3. Outbox(c) = PayloadsOf(rx[p], "publish")
    <3>1. CASE QueuedBy(rx[p], author, e)
      BY <1>11, <3>1, OutboxIs
    <3>2. CASE ~QueuedBy(rx[p], author, e)
      <4>1. \A i \in DOMAIN rx[p] : rx[p][i].type # "publish"
        BY <1>3, <1>8, <2>1, <3>2 DEF QueuedBy
      <4>2. PayloadsOf(rx[p], "publish") = <<>>
        BY <1>3, <4>1, NoPayloads
      <4>3. Outbox(c) = <<>>
        BY <1>11, <2>2, <3>2, OutboxIs
      <4> QED
        BY <4>2, <4>3
    <3> QED
      BY <3>1, <3>2
  <2>4. Outbox(c)' = PayloadsOf(rx'[p], "publish")
    <3>1. QueuedBy(rx'[p], author', main'[c])
      BY <1>1, <1>10, <2>1
    <3> QED
      BY <1>11, <3>1, OutboxWillBe
  <2>5. Outbox(c)' = Append(Outbox(c), n)
    BY <1>10, <2>1, <2>3, <2>4
  <2> QED
    BY <1>4, <1>5, <1>6, <1>7, <1>12, <1>13, <2>5, PublishStep
<1>14. CASE c \notin Up
  <2>1. \A p \in Peers : remote[p] # e
    BY <1>3, <1>14 DEF Up, SlotsOf
  <2>2. \A p \in Peers : rx'[p] = rx[p]
    BY <1>1, <2>1
  <2>3. Outbox(c)' = Outbox(c)
    BY <1>1, <1>9, <1>11, <2>2, SameOutbox
  <2> QED
    BY <1>4, <1>5, <1>6, <1>7, <1>12, <1>14, <2>3, PublishStep
<1> QED
  BY <1>13, <1>14

(* What a call does with the key: nothing to be seen, or a publish.        *)
LEMMA PerformStep ==
  ASSUME BusInv, OrderInv, [BusNext]_busVars, NEW c \in Clients, main[c] \in Endpoints,
         NEW kind \in Kinds, NEW key \in Nat, NEW payload,
         kind = "publish" => payload \in Payloads,
         UNCHANGED serverVars \/ Perform(c, kind, key, payload), UNCHANGED <<main, delivered>>
  PROVE  \/ /\ SameUp /\ SameSubscribed /\ SameTopics /\ SameOutboxes
            /\ SameMailboxes /\ SameRead
         \/ kind = "publish" /\ (wanted' = wanted => AbstractStep)
<1> USE ENetAssumption
<1>1. CASE UNCHANGED serverVars
  <2>1. Calm
    BY <1>1 DEF Calm, Passes
  <2>2. SameUp /\ SameSubscribed
    BY <1>1, SameSlots
  <2> QED
    BY <2>1, <2>2, CalmStep
<1>2. CASE kind = "subscribe" /\ Send(main[c], subscribe(key))
  <2>1. subscribe(key) \in Packets /\ subscribe(key).type # "publish"
    BY PacketsTyped DEF subscribe, construct
  <2> QED
    BY <1>2, <2>1, OtherSends
<1>3. CASE kind = "publish" /\ Send(main[c], publish(key, payload))
  <2>1. author[payload] = NoEndpoint /\ author' = [author EXCEPT ![payload] = main[c]]
    BY <1>3 DEF Send, publish, construct
  <2>2. author' # author
    BY <1>3, <2>1 DEF BusInv, BusTypeOK, ServerTypeOK
  <2>3. PICK d \in Clients, n \in Payloads, k \in Nat : PublishSent(d, n, k)
    BY <2>2, AuthorSteps DEF BusInv, OrderInv
  <2> QED
    BY <1>3, <2>3, SentStep
<1> QED
  BY <1>1, <1>2, <1>3 DEF Perform

(* The calls of the application, and the end of a call.                    *)
LEMMA CallStep ==
  ASSUME BusInv, OrderInv, [BusNext]_busVars, NEW c \in Clients, NEW t \in Topics,
         \/ CallGetTopicKey(c, t) \/ CallSubscribe(c, t)
         \/ \E m \in Payloads : CallPublish(c, t, m) \/ CallPublishKey(c, t, m)
  PROVE  AbstractStep
<1>1. ASSUME NEW kind \in Kinds, NEW payload, Call(c, kind, t, payload),
             kind = "publish" => payload \in Payloads
      PROVE  \/ /\ SameUp /\ SameSubscribed /\ SameTopics /\ SameOutboxes
                /\ SameMailboxes /\ SameRead
             \/ kind = "publish" /\ (wanted' = wanted => AbstractStep)
  <2>1. main[c] \in Endpoints
    BY <1>1, InUse DEF Call, BusInv
  <2>2. UNCHANGED <<main, delivered>>
    BY <1>1 DEF Call
  <2>3. CASE UNCHANGED serverVars
    BY <1>1, <2>1, <2>2, <2>3, PerformStep
  <2>4. CASE t \in DOMAIN m_topic_map[c] /\ Perform(c, kind, m_topic_map[c][t], payload)
    <3>1. m_topic_map[c][t] \in Nat
      BY <2>4 DEF BusInv, BusTypeOK
    <3> QED
      BY <1>1, <2>1, <2>2, <2>4, <3>1, PerformStep
  <2> QED
    BY <1>1, <2>3, <2>4 DEF Call
<1>2. CASE CallGetTopicKey(c, t)
  <2>1. /\ SameUp /\ SameSubscribed /\ SameTopics /\ SameOutboxes /\ SameMailboxes /\ SameRead
        /\ wanted' = wanted
    BY <1>1, <1>2 DEF CallGetTopicKey, Kinds
  <2> QED
    BY <2>1, StutterStep
<1>3. CASE CallSubscribe(c, t)
  <2>1. /\ SameUp /\ SameSubscribed /\ SameTopics /\ SameOutboxes /\ SameMailboxes /\ SameRead
        /\ wanted' = [wanted EXCEPT ![c] = @ \cup {t}]
    BY <1>1, <1>3 DEF CallSubscribe, Kinds
  <2> QED
    BY <2>1, WantStep
<1>4. ASSUME NEW m \in Payloads, CallPublish(c, t, m) PROVE AbstractStep
  <2>1. Call(c, "publish", t, m) /\ wanted' = wanted
    BY <1>4 DEF CallPublish
  <2> QED
    BY <1>1, <2>1, StutterStep DEF Kinds
<1> QED
  BY <1>2, <1>3, <1>4 DEF CallPublishKey

(* The send on the main connection after the topic was resolved.           *)
LEMMA UseStep ==
  ASSUME BusInv, OrderInv, [BusNext]_busVars, NEW c \in Clients, Use(c)
  PROVE  AbstractStep
<1>1. /\ main[c] \in Endpoints /\ op[c].kind \in Kinds /\ op[c].key \in Nat
      /\ op[c].kind = "publish" => op[c].payload \in Payloads
  BY InUse DEF Use, Goto, InCall, BusInv
<1>2. Perform(c, op[c].kind, op[c].key, op[c].payload) /\ UNCHANGED <<main, wanted, delivered>>
  BY DEF Use
<1> QED
  BY <1>1, <1>2, PerformStep, StutterStep

-----------------------------------------------------------------------------
(* The steps of the server.                                                *)

(* Publishes are sent on main connections, and a slot holds those of one.  *)
AuthorInv ==
  /\ \A m \in Payloads : author[m] # NoEndpoint => \E c \in Clients : main[c] = author[m]
  /\ \A p \in Peers : \A i, j \in DOMAIN rx[p] :
       rx[p][i].type = "publish" /\ rx[p][j].type = "publish" =>
         author[rx[p][i].payload] = author[rx[p][j].payload]

(* Every step keeps AuthorInv: a slot that is taken again has an empty     *)
(* queue.                                                                  *)
LEMMA StepKeepsAuthors ==
  ASSUME BusInv, OrderInv, AuthorInv, [BusNext]_busVars
  PROVE  AuthorInv'
<1> USE ENetAssumption
<1>1. \A c \in Clients : main[c] # NoEndpoint => main'[c] = main[c]
  BY HistorySteps DEF BusInv
<1>2. ASSUME NEW m \in Payloads, author'[m] # NoEndpoint
      PROVE  \E c \in Clients : main'[c] = author'[m]
  <2>1. CASE author[m] # NoEndpoint
    <3>1. author'[m] = author[m]
      BY <2>1, StreamsStay
    <3> QED
      BY <1>1, <1>2, <2>1, <3>1 DEF AuthorInv
  <2>2. CASE author[m] = NoEndpoint
    <3>1. PICK c \in Clients, n \in Payloads, key \in Nat :
            PublishSent(c, n, key) /\ author' = [author EXCEPT ![n] = main[c]]
      BY <1>2, <2>2, AuthorSteps DEF BusInv, OrderInv
    <3>2. author'[m] = main[c] /\ main'[c] = main[c]
      BY <1>2, <2>2, <3>1 DEF PublishSent, BusInv, BusTypeOK, ServerTypeOK
    <3> QED
      BY <3>2
  <2> QED
    BY <2>1, <2>2
<1>3. ASSUME NEW p \in Peers, NEW i \in DOMAIN rx[p], rx[p][i].type = "publish"
      PROVE  LET m == rx[p][i].payload IN
               /\ author[m] \in Endpoints /\ author'[m] = author[m]
               /\ remote[p] # NoEndpoint => author[m] = remote[p]
  <2>1. rx[p][i].payload \in Payloads /\ author[rx[p][i].payload] \in Endpoints
    BY <1>3, WaitingSound DEF BusInv, ServerInv
  <2> QED
    BY <1>3, <2>1, StreamsStay DEF OrderInv, QueuesInOrder
<1>4. ASSUME NEW p \in Peers, NEW i \in DOMAIN rx'[p], NEW j \in DOMAIN rx'[p],
             rx'[p][i].type = "publish", rx'[p][j].type = "publish"
      PROVE  author'[rx'[p][i].payload] = author'[rx'[p][j].payload]
  <2>1. rx[p] \in Seq(Packets)
    BY DEF BusInv, BusTypeOK, ServerTypeOK, ENetTypeOK
  <2>2. \A k, l \in DOMAIN rx[p] : rx[p][k].type = "publish" /\ rx[p][l].type = "publish" =>
          author'[rx[p][k].payload] = author'[rx[p][l].payload]
    BY <1>3 DEF AuthorInv
  <2>3. CASE rx'[p] = rx[p]
    BY <1>4, <2>2, <2>3
  <2>4. CASE rx'[p] = <<>>
    BY <1>4, <2>4
  <2>5. CASE rx[p] # <<>> /\ rx'[p] = Tail(rx[p])
    <3>1. /\ i + 1 \in DOMAIN rx[p] /\ rx'[p][i] = rx[p][i + 1]
          /\ j + 1 \in DOMAIN rx[p] /\ rx'[p][j] = rx[p][j + 1]
      BY <1>4, <2>1, <2>5, InTail
    <3> QED
      BY <1>4, <2>2, <3>1
  <2>6. ASSUME NEW x \in Packets, rx'[p] = Append(rx[p], x),
               x.type = "publish" => author'[x.payload] = remote[p] /\ remote[p] \in Endpoints
        PROVE  author'[rx'[p][i].payload] = author'[rx'[p][j].payload]
    <3>1. \A k \in DOMAIN rx'[p] : (k \in DOMAIN rx[p] /\ rx'[p][k] = rx[p][k]) \/ rx'[p][k] = x
      BY <2>1, <2>6, InAppend
    <3>2. \A k \in DOMAIN rx[p] : x.type = "publish" /\ rx[p][k].type = "publish" =>
            author'[rx[p][k].payload] = remote[p]
      BY <1>3, <2>6
    <3> QED
      BY <1>4, <2>2, <2>6, <3>1, <3>2
  <2>7. QueueStep(p)
    BY EveryQueueSteps DEF BusInv, OrderInv
  <2> QED
    BY <2>3, <2>4, <2>5, <2>6, <2>7 DEF QueueStep
<1> QED
  BY <1>2, <1>4 DEF AuthorInv

(* The server ends: all connections go down, and what it holds is gone.    *)
LEMMA RestartStep ==
  ASSUME BusInv, OrderInv, [BusNext]_busVars, Restart, UNCHANGED <<clientVars, ghostVars>>
  PROVE  AbstractStep
<1> USE ENetAssumption
<1>1. /\ \A p \in Peers : remote'[p] = NoEndpoint /\ rx'[p] = <<>>
      /\ inq' = inq /\ author' = author
  BY DEF Restart, ServerHostReplaced
<1>2. \A c \in Clients : SlotsOf(c)' = {}
  BY <1>1 DEF SlotsOf
<1>3. Up' = {} /\ \A c \in Clients : SubscribedTo(c)' = {}
  BY <1>2 DEF Up, SubscribedTo
<1>4. \A c \in Clients : Outbox(c)' = <<>>
  <2>1. \A p \in Peers : \A e : ~QueuedBy(rx'[p], author', e)
    BY <1>1 DEF QueuedBy
  <2> QED
    BY <2>1, StepKeepsOrder, OutboxWillBe DEF OrderInv
<1>5. SameTopics /\ SameMailboxes /\ SameRead
  BY <1>1, SamePublished DEF SameMailboxes, Mailbox, SameRead, ReadBy
<1> QED
  BY <1>3, <1>4, <1>5, CrashStep

(* A slot is released: if its client is still there, or has left something *)
(* behind, that is gone.                                                   *)
LEMMA ReleaseStep ==
  ASSUME BusInv, OrderInv, AuthorInv, [BusNext]_busVars, NEW p \in Peers, ReleaseSlot(p),
         UNCHANGED <<clientVars, ghostVars, topicMapVars, historyVars>>,
         \A q \in Peers \ {p} : peer_state[q] = "connected" =>
           client'[peer_data'[q]].subscribed_topics = client[peer_data[q]].subscribed_topics
  PROVE  AbstractStep
<1> USE ENetAssumption
<1>1. /\ remote' = [remote EXCEPT ![p] = NoEndpoint] /\ rx' = [rx EXCEPT ![p] = <<>>]
      /\ peer_state' = [peer_state EXCEPT ![p] = "free"] /\ inq' = inq
  BY DEF ReleaseSlot
<1>2. /\ DOMAIN remote = Peers /\ DOMAIN rx = Peers /\ DOMAIN peer_state = Peers
      /\ \A d \in Clients : main[d] # NoEndpoint => main[d] \in Endpoints
  BY DEF BusInv, BusTypeOK, ServerTypeOK, ENetTypeOK
<1>3. /\ \A q \in Peers \ {p} : rx'[q] = rx[q] /\ remote'[q] = remote[q]
                                  /\ peer_state'[q] = peer_state[q]
      /\ rx'[p] = <<>> /\ remote'[p] = NoEndpoint
  BY <1>1, <1>2
<1>4. ASSUME NEW q \in Peers, NEW i \in DOMAIN rx[q], rx[q][i].type = "publish"
      PROVE  LET e == author[rx[q][i].payload] IN
               /\ e \in Endpoints
               /\ remote[q] # NoEndpoint => e = remote[q]
               /\ \A r \in Peers : remote[r] = e => r = q
  BY <1>4, WaitingSound DEF BusInv, ServerInv, OrderInv, QueuesInOrder
<1>5. SameTopics /\ SameMailboxes /\ SameRead
  BY <1>1, SamePublished DEF SameMailboxes, Mailbox, SameRead, ReadBy
<1>6. QueuesInOrder /\ QueuesInOrder'
  BY StepKeepsOrder DEF OrderInv
<1>7. ASSUME NEW d \in Clients, p \notin SlotsOf(d)
      PROVE  SlotsOf(d)' = SlotsOf(d) /\ SubscribedTo(d)' = SubscribedTo(d)
  <2>1. SlotsOf(d)' = SlotsOf(d) /\ \A q \in SlotsOf(d) : q \in Peers \ {p}
    BY <1>3, <1>7 DEF SlotsOf
  <2>2. \A q \in SlotsOf(d) :
          /\ peer_state'[q] = peer_state[q]
          /\ peer_state[q] = "connected" =>
               client'[peer_data'[q]].subscribed_topics = client[peer_data[q]].subscribed_topics
    BY <1>3, <2>1
  <2>3. SubscribedTo(d)' = SubscribedTo(d)
    BY <2>1, <2>2 DEF SubscribedTo
  <2> QED
    BY <2>1, <2>3
<1>8. ASSUME NEW d \in Clients, ~QueuedBy(rx[p], author, main[d])
      PROVE  Outbox(d)' = Outbox(d)
  <2>1. ~QueuedBy(rx'[p], author', main'[d])
    BY <1>3 DEF QueuedBy
  <2> QED
    BY <1>3, <1>6, <1>8, <2>1, SameOutbox
<1> DEFINE Occupies(c) == p \in SlotsOf(c) \/ QueuedBy(rx[p], author, main[c])
<1>9. CASE \A c \in Clients : ~Occupies(c)
  <2>1. SameUp /\ SameSubscribed /\ SameOutboxes
    BY <1>7, <1>8, <1>9 DEF SameUp, SameSubscribed, SameOutboxes
  <2> QED
    BY <1>5, <2>1, StutterStep
<1>10. ASSUME NEW c \in Clients, Occupies(c) PROVE AbstractStep
  <2>1. main[c] \in Endpoints
    BY <1>2, <1>4, <1>10 DEF SlotsOf, QueuedBy
  <2>2. \A d \in Clients \ {c} : main[d] # main[c]
    BY <2>1 DEF BusInv, ClientInv, HostsSound
  <2>3. \A i \in DOMAIN rx[p] : rx[p][i].type = "publish" => author[rx[p][i].payload] = main[c]
    BY <1>4, <1>10, <2>1 DEF SlotsOf, QueuedBy, AuthorInv
  <2>4. ASSUME NEW d \in Clients \ {c} PROVE ~Occupies(d)
    <3>1. ~QueuedBy(rx[p], author, main[d])
      BY <2>2, <2>3 DEF QueuedBy
    <3>2. p \notin SlotsOf(d)
      <4>1. CASE p \in SlotsOf(c)
        BY <2>2, <4>1 DEF SlotsOf
      <4>2. CASE QueuedBy(rx[p], author, main[c])
        BY <1>4, <2>2, <4>2 DEF SlotsOf, QueuedBy
      <4> QED
        BY <1>10, <4>1, <4>2
    <3> QED
      BY <3>1, <3>2
  <2>5. \A q \in Peers : remote[q] = main[c] => q = p
    <3>1. CASE p \in SlotsOf(c)
      BY <3>1 DEF SlotsOf, BusInv, ServerInv, FanoutInv, LinksSound
    <3>2. CASE QueuedBy(rx[p], author, main[c])
      BY <1>4, <3>2 DEF QueuedBy
    <3> QED
      BY <1>10, <3>1, <3>2
  <2>6. SlotsOf(c)' = {}
    BY <1>3, <2>1, <2>5 DEF SlotsOf
  <2>7. SubscribedTo(c)' = {}
    BY <2>6 DEF SubscribedTo
  <2>8. Up' = Up \ {c}
    BY <1>7, <2>4, <2>6 DEF Up
  <2>9. Outbox(c)' = <<>>
    <3>1. ASSUME NEW q \in Peers, QueuedBy(rx'[q], author', main'[c]) PROVE FALSE
      <4>1. q # p
        BY <1>3, <3>1 DEF QueuedBy
      <4>2. QueuedBy(rx[q], author, main[c])
        BY <1>3, <3>1, <4>1
      <4>3. CASE p \in SlotsOf(c)
        BY <1>4, <4>1, <4>2, <4>3 DEF SlotsOf, QueuedBy
      <4>4. CASE QueuedBy(rx[p], author, main[c])
        BY <1>6, <4>1, <4>2, <4>4 DEF QueuedBy, QueuesInOrder
      <4> QED
        BY <1>10, <4>3, <4>4
    <3> QED
      BY <1>6, <3>1, OutboxWillBe
  <2>10. \A d \in Clients \ {c} : Outbox(d)' = Outbox(d) /\ SubscribedTo(d)' = SubscribedTo(d)
    BY <1>7, <1>8, <2>4
  <2> QED
    BY <1>5, <2>7, <2>8, <2>9, <2>10, CutStep
<1> QED
  BY <1>9, <1>10

(* A slot that is released, with or without a record.                      *)
LEMMA DisconnectStep ==
  ASSUME BusInv, OrderInv, AuthorInv, [BusNext]_busVars, NEW p \in Peers,
         OnDisconnect(p) \/ OnAbandoned(p), UNCHANGED <<clientVars, ghostVars>>
  PROVE  AbstractStep
<1>1. ReleaseSlot(p) /\ UNCHANGED <<topicMapVars, historyVars>>
  BY DEF OnDisconnect, OnAbandoned, ReportDisconnect, AbandonPending
<1>2. RegistryConsistent /\ client \in [Addrs -> ClientRecords]
  BY DEF BusInv, ServerInv, BusTypeOK, ServerTypeOK
<1>3. ASSUME NEW q \in Peers \ {p}, peer_state[q] = "connected"
      PROVE  client'[peer_data'[q]] = client[peer_data[q]]
  <2>1. CASE OnAbandoned(p)
    BY <2>1 DEF OnAbandoned
  <2>2. CASE OnDisconnect(p)
    <3> DEFINE a == peer_data[p]
    <3>1. /\ a \in live /\ client[a].m_peer = p /\ m_client_map[client[a].m_id] = a
      BY <1>2, <2>2 DEF OnDisconnect, ReportDisconnect, RegistryConsistent
    <3>2. client' = [client EXCEPT ![a] = NoRecord] /\ peer_data' = peer_data
      BY <2>2, <3>1 DEF OnDisconnect, destroy_client
    <3>3. peer_data[q] # a
      BY <1>2, <1>3, <3>1 DEF RegistryConsistent
    <3> QED
      BY <1>2, <3>2, <3>3
  <2> QED
    BY <2>1, <2>2
<1> QED
  BY <1>1, <1>3, ReleaseStep

(* A new record: its client was up before, and has no subscriptions yet.   *)
LEMMA AcceptStep ==
  ASSUME BusInv, OrderInv, [BusNext]_busVars, NEW p \in Peers,
         OnConnect(p), UNCHANGED <<clientVars, ghostVars>>
  PROVE  AbstractStep
<1>1. /\ remote' = remote /\ rx' = rx /\ inq' = inq /\ author' = author
      /\ peer_state[p] = "pending" /\ peer_state' = [peer_state EXCEPT ![p] = "connected"]
      /\ m_map' = m_map
  BY DEF OnConnect, ReportConnect
<1>2. /\ RegistryConsistent /\ client \in [Addrs -> ClientRecords] /\ live \subseteq Addrs
      /\ DOMAIN peer_state = Peers /\ DOMAIN peer_data = Peers
  BY DEF BusInv, ServerInv, BusTypeOK, ServerTypeOK, ENetTypeOK
<1>3. PICK a \in Addrs \ live :
        /\ client' = [client EXCEPT ![a] =
             [m_id |-> m_next_client_id, m_peer |-> p, subscribed_topics |-> {}]]
        /\ peer_data' = [peer_data EXCEPT ![p] = a]
  BY DEF OnConnect, create_client
<1>4. Calm
  BY <1>1 DEF Calm, Passes
<1>5. SameUp
  BY <1>1 DEF SameUp, SlotsOf
<1>6. client'[peer_data'[p]].subscribed_topics = {}
  BY <1>2, <1>3
<1>7. ASSUME NEW q \in Peers \ {p}, peer_state[q] = "connected"
      PROVE  client'[peer_data'[q]] = client[peer_data[q]]
  <2>1. peer_data[q] \in live
    BY <1>2, <1>7 DEF RegistryConsistent
  <2> QED
    BY <1>2, <1>3, <2>1
<1>8. ASSUME NEW c \in Clients PROVE SubscribedTo(c)' = SubscribedTo(c)
  <2>1. SlotsOf(c)' = SlotsOf(c) /\ SlotsOf(c) \subseteq Peers
    BY <1>5 DEF SameUp, SlotsOf
  <2>2. ASSUME NEW q \in SlotsOf(c), NEW t \in DOMAIN m_map
        PROVE  (/\ peer_state'[q] = "connected"
                /\ m_map[t] \in client'[peer_data'[q]].subscribed_topics)
               <=> (/\ peer_state[q] = "connected"
                    /\ m_map[t] \in client[peer_data[q]].subscribed_topics)
    <3>1. CASE q = p
      BY <1>1, <1>6, <3>1
    <3>2. CASE q # p
      BY <1>1, <1>2, <1>7, <2>1, <3>2
    <3> QED
      BY <3>1, <3>2
  <2> QED
    BY <1>1, <2>1, <2>2 DEF SubscribedTo
<1>9. SameSubscribed
  BY <1>8 DEF SameSubscribed
<1> QED
  BY <1>4, <1>5, <1>9, CalmStep, StutterStep

(* A packet that is no publish is handled: outboxes and mailboxes stay.    *)
LEMMA HandledCalmly ==
  ASSUME BusInv, NEW p \in Peers, NEW Q, NEW packet, packet \in Packets \/ Q = {},
         packet.type # "fanout" \/ Q = {}, ReportReceive(p, Q, packet),
         Head(rx[p]).type # "publish", UNCHANGED <<author, main, delivered>>
  PROVE  Calm /\ SameUp
<1>1. \A q \in Peers : rx'[q] = rx[q] \/ (q = p /\ rx[p] # <<>> /\ rx'[p] = Tail(rx[p]))
  BY DEF ReportReceive
<1>2. \A e \in Endpoints : inq'[e] = inq[e] \/ (Q # {} /\ inq'[e] = Append(inq[e], packet))
  BY DEF ReportReceive
<1>3. \A c \in Clients : main[c] # NoEndpoint => main[c] \in Endpoints
  BY DEF BusInv, BusTypeOK
<1>4. SameUp
  BY DEF ReportReceive, SameUp, SlotsOf
<1> QED
  BY <1>1, <1>2, <1>3, <1>4 DEF Calm, Passes

(* A request: a new topic has a new key, which nobody is subscribed to.    *)
LEMMA RequestStep ==
  ASSUME BusInv, OrderInv, [BusNext]_busVars, NEW p \in Peers,
         OnTopicRequest(p), UNCHANGED <<clientVars, ghostVars>>
  PROVE  AbstractStep
<1> USE ENetAssumption
<1> DEFINE topic == Head(rx[p]).payload
<1>1. /\ ServerTypeOK /\ RegistryConsistent /\ KeysUnique
      /\ ENetTypeOK /\ TopicMapTypeOK
  BY DEF BusInv, ServerInv, BusTypeOK, ServerTypeOK
<1>2. /\ get_or_create(topic) /\ Head(rx[p]).type = "topic_request" /\ rx[p] # <<>>
      /\ ReportReceive(p, {client[peer_data[p]].m_peer}, topic_response(KeyOf(topic), topic))
      /\ UNCHANGED <<registryVars, author>>
  BY DEF OnTopicRequest, Receiving
<1>3. topic \in Topics
  BY <1>1, <1>2, HeadTyped, PacketFields
<1>4. /\ topic_response(KeyOf(topic), topic) \in Packets
      /\ topic_response(KeyOf(topic), topic).type # "fanout"
  <2>1. KeyOf(topic) \in Nat
    BY <1>1, <1>2, <1>3, TopicMapTyped
  <2> QED
    BY <1>3, <2>1, PacketsTyped DEF topic_response, construct
<1>5. KeysUnique' /\ \A t \in DOMAIN m_map : t \in DOMAIN m_map' /\ m_map'[t] = m_map[t]
  BY <1>1, <1>2, GetOrCreateKeepsKeys
<1> HIDE DEF topic
<1>6. Calm /\ SameUp
  BY <1>2, <1>4, HandledCalmly
<1>7. ASSUME NEW c \in Clients PROVE SubscribedTo(c)' = SubscribedTo(c)
  <2>1. SlotsOf(c)' = SlotsOf(c) /\ peer_state' = peer_state
    BY <1>2, <1>6 DEF SameUp, ReportReceive
  <2>2. ASSUME NEW q \in SlotsOf(c), peer_state[q] = "connected", NEW t \in DOMAIN m_map',
               m_map'[t] \in client[peer_data[q]].subscribed_topics
        PROVE  t \in DOMAIN m_map
    <3>1. /\ q \in Peers /\ peer_data[q] \in live /\ client[peer_data[q]].m_peer = q
          /\ remote[q] = main[c] /\ main[c] # NoEndpoint
      BY <1>1, <2>2 DEF RegistryConsistent, SlotsOf
    <3>2. PICK u \in DOMAIN m_map : m_map[u] = m_map'[t]
      BY <2>2, <3>1 DEF BusInv, DeliveryInv, SubscriptionsSound, Wants, KnownAs
    <3> QED
      BY <1>5, <2>2, <3>2 DEF KeysUnique
  <2> QED
    BY <1>2, <1>5, <2>1, <2>2 DEF SubscribedTo
<1> QED
  BY <1>6, <1>7, CalmStep, StutterStep DEF SameSubscribed

(* Packets that on_message ignores are not seen.                           *)
LEMMA IgnoredStep ==
  ASSUME BusInv, OrderInv, [BusNext]_busVars, NEW p \in Peers,
         OnIgnored(p), UNCHANGED <<clientVars, ghostVars>>
  PROVE  AbstractStep
<1>1. /\ ReportReceive(p, {}, Head(rx[p])) /\ Head(rx[p]).type # "publish"
      /\ UNCHANGED <<author, topicMapVars, registryVars>>
  BY DEF OnIgnored, Receiving
<1>2. Calm /\ SameUp
  BY <1>1, HandledCalmly
<1>3. SameSubscribed
  BY <1>1, <1>2, SameSubscription DEF SameUp, SameSubscribed, ReportReceive
<1> QED
  BY <1>2, <1>3, CalmStep, StutterStep

(* A subscribe: the key means a topic the client wants, and only that one. *)
LEMMA NotedStep ==
  ASSUME BusInv, OrderInv, [BusNext]_busVars, NEW p \in Peers,
         OnSubscribe(p), UNCHANGED <<clientVars, ghostVars>>
  PROVE  AbstractStep
<1> USE ENetAssumption
<1> DEFINE k == Head(rx[p]).topic_key
           a == peer_data[p]
<1>1. /\ RegistryConsistent /\ KeysUnique /\ client \in [Addrs -> ClientRecords]
      /\ live \subseteq Addrs
  BY DEF BusInv, ServerInv, BusTypeOK, ServerTypeOK
<1>2. /\ ReportReceive(p, {}, Head(rx[p])) /\ Head(rx[p]).type = "subscribe"
      /\ rx[p] # <<>> /\ peer_state[p] = "connected" /\ peer_state' = peer_state
      /\ client' = [client EXCEPT ![a].subscribed_topics =
                                     client[a].subscribed_topics \cup {k}]
      /\ UNCHANGED <<author, m_map, peer_data>>
  BY DEF OnSubscribe, SetSubscriptions, Receiving, ReportReceive
<1>3. Calm /\ SameUp
  BY <1>2, HandledCalmly
<1>4. a \in live /\ client[a].m_peer = p
  BY <1>1, <1>2 DEF RegistryConsistent
<1>5. client'[a].subscribed_topics = client[a].subscribed_topics \cup {k}
  BY <1>1, <1>2, <1>4 DEF ClientRecords
<1>6. ASSUME NEW q \in Peers \ {p}, peer_state[q] = "connected"
      PROVE  client'[peer_data[q]] = client[peer_data[q]]
  <2>1. peer_data[q] \in live /\ peer_data[q] # a
    BY <1>1, <1>4, <1>6 DEF RegistryConsistent
  <2> QED
    BY <1>1, <1>2, <2>1
<1>7. ASSUME NEW c \in Clients, p \notin SlotsOf(c) PROVE SubscribedTo(c)' = SubscribedTo(c)
  <2>1. SlotsOf(c)' = SlotsOf(c) /\ \A q \in SlotsOf(c) : q \in Peers \ {p}
    BY <1>3, <1>7 DEF SameUp, SlotsOf
  <2>2. \A q \in SlotsOf(c) :
          peer_state[q] = "connected" => client'[peer_data[q]] = client[peer_data[q]]
    BY <1>6, <2>1
  <2> QED
    BY <1>2, <2>1, <2>2 DEF SubscribedTo
<1>8. CASE \A c \in Clients : p \notin SlotsOf(c)
  BY <1>3, <1>7, <1>8, CalmStep, StutterStep DEF SameSubscribed
<1>9. ASSUME NEW c \in Clients, p \in SlotsOf(c) PROVE AbstractStep
  <2>1. remote[p] = main[c] /\ main[c] # NoEndpoint
    BY <1>9 DEF SlotsOf
  <2>2. SlotsOf(c) = {p}
    BY <2>1 DEF SlotsOf, BusInv, ServerInv, FanoutInv, LinksSound
  <2>3. \A d \in Clients \ {c} : p \notin SlotsOf(d)
    BY <2>1 DEF SlotsOf, BusInv, ClientInv, HostsSound
  <2>4. 1 \in DOMAIN rx[p] /\ Head(rx[p]) = rx[p][1]
    BY <1>2 DEF BusInv, BusTypeOK, ServerTypeOK, ENetTypeOK
  <2>5. PICK t \in wanted[c] : t \in DOMAIN m_map /\ m_map[t] = k
    BY <1>2, <2>1, <2>4 DEF BusInv, DeliveryInv, KeysSound, KeySound, Wants, KnownAs
  <2>6. t \in Topics
    BY <2>5 DEF BusInv, BusTypeOK
  <2>7. SubscribedTo(c) = {u \in DOMAIN m_map : m_map[u] \in client[a].subscribed_topics}
    BY <1>2, <2>2 DEF SubscribedTo
  <2>8. SubscribedTo(c)' = {u \in DOMAIN m_map : m_map[u] \in client[a].subscribed_topics \cup {k}}
    <3>1. SlotsOf(c)' = {p}
      BY <1>3, <2>2 DEF SameUp
    <3> QED
      BY <1>2, <1>5, <3>1 DEF SubscribedTo
  <2>9. SubscribedTo(c)' = SubscribedTo(c) \cup {t}
    <3>1. \A u \in DOMAIN m_map : m_map[u] = k <=> u = t
      BY <1>1, <2>5 DEF KeysUnique
    <3> HIDE DEF k, a
    <3> QED
      BY <2>5, <2>7, <2>8, <3>1
  <2>10. c \in Up
    BY <2>2 DEF Up
  <2> QED
    BY <1>3, <1>7, <2>3, <2>5, <2>6, <2>9, <2>10, CalmStep, SubscribeStep
<1> QED
  BY <1>8, <1>9

(* The loop over the clients finds whom the topic is for: all others that  *)
(* are subscribed to it and linked.                                        *)
LEMMA TargetsAreSubscribers ==
  ASSUME BusInv, OrderInv, NEW p \in Peers, OnPublish(p), NEW c \in Clients,
         main[c] = author[Head(rx[p]).payload], NEW d \in Clients
  PROVE  Target(p, d) <=> d # c /\ PublishedTo(Head(rx[p]).payload) \in SubscribedTo(d)
<1> USE ENetAssumption
<1> DEFINE m == Head(rx[p]).payload
           k == Head(rx[p]).topic_key
           b == peer_data[p]
           t == intended[m]
<1>1. RegistryConsistent /\ KeysUnique /\ LinksSound
  BY DEF BusInv, ServerInv, FanoutInv
<1>2. Head(rx[p]).type = "publish" /\ rx[p] # <<>> /\ peer_state[p] = "connected"
  BY DEF OnPublish, Receiving
<1>3. 1 \in DOMAIN rx[p] /\ Head(rx[p]) = rx[p][1]
  BY <1>2 DEF BusInv, BusTypeOK, ServerTypeOK, ENetTypeOK
<1>4. /\ author[m] \in Endpoints
      /\ \A q \in Peers : remote[q] = author[m] => q = p
      /\ remote[p] # NoEndpoint => author[m] = remote[p]
  BY <1>2, <1>3, WaitingSound DEF BusInv, ServerInv, OrderInv, QueuesInOrder
<1>5. t \in DOMAIN m_map /\ m_map[t] = k /\ PublishedTo(m) = t
  BY <1>2, <1>3, <1>4 DEF BusInv, DeliveryInv, KeysSound, KeySound, KnownAs, PublishedTo
<1>6. b \in live /\ client[b].m_peer = p /\ b \in m_clients
  BY <1>1, <1>2 DEF RegistryConsistent
<1> HIDE DEF m, k, b, t
<1>7. ASSUME Target(p, d) PROVE d # c /\ t \in SubscribedTo(d)
  <2>1. PICK a \in FanoutTargets(b, k) : remote[client[a].m_peer] = main[d] /\ main[d] # NoEndpoint
    BY <1>7 DEF Target, b, k
  <2>2. a \in live /\ client[a].m_id # client[b].m_id /\ k \in client[a].subscribed_topics
    BY <1>1, <2>1 DEF FanoutTargets, RegistryConsistent
  <2> DEFINE q == client[a].m_peer
  <2>3. q \in Peers /\ peer_state[q] = "connected" /\ peer_data[q] = a
    BY <1>1, <2>2 DEF RegistryConsistent
  <2>4. q \in SlotsOf(d)
    BY <2>1, <2>3 DEF SlotsOf
  <2>5. t \in SubscribedTo(d)
    BY <1>5, <2>2, <2>3, <2>4 DEF SubscribedTo
  <2>6. ASSUME d = c PROVE FALSE
    <3>1. q = p
      BY <1>4, <2>1, <2>3, <2>6 DEF m
    <3>2. a = b
      BY <2>3, <3>1 DEF b
    <3> QED
      BY <2>2, <3>2
  <2> QED
    BY <2>5, <2>6
<1>8. ASSUME d # c, t \in SubscribedTo(d) PROVE Target(p, d)
  <2>1. PICK q \in SlotsOf(d) :
          peer_state[q] = "connected" /\ m_map[t] \in client[peer_data[q]].subscribed_topics
    BY <1>8 DEF SubscribedTo
  <2> DEFINE a == peer_data[q]
  <2>2. q \in Peers /\ remote[q] = main[d] /\ main[d] # NoEndpoint
    BY <2>1 DEF SlotsOf
  <2>3. a \in m_clients /\ client[a].m_peer = q
    BY <1>1, <2>1, <2>2 DEF RegistryConsistent
  <2>4. ASSUME client[a].m_id = client[b].m_id PROVE FALSE
    <3>1. a = b
      BY <1>1, <1>6, <2>3, <2>4 DEF RegistryConsistent
    <3>2. q = p
      BY <1>6, <2>3, <3>1
    <3>3. main[d] = main[c] /\ main[c] # NoEndpoint
      BY <1>4, <2>2, <3>2 DEF m
    <3> QED
      BY <1>8, <3>3 DEF BusInv, ClientInv, HostsSound
  <2>5. a \in FanoutTargets(b, k)
    BY <1>5, <2>1, <2>3, <2>4 DEF FanoutTargets
  <2> QED
    BY <2>2, <2>3, <2>5 DEF Target, b, k
<1> QED
  BY <1>5, <1>7, <1>8 DEF m

(* A publish is forwarded.                                                 *)
LEMMA FanoutStep ==
  ASSUME BusInv, OrderInv, AuthorInv, [BusNext]_busVars, NEW p \in Peers,
         OnPublish(p), UNCHANGED <<clientVars, ghostVars>>
  PROVE  AbstractStep
<1> USE ENetAssumption
<1> DEFINE m == Head(rx[p]).payload
           x == fanout(Head(rx[p]).topic_key, m)
           Q == {client[a].m_peer : a \in FanoutTargets(peer_data[p], Head(rx[p]).topic_key)}
<1>1. /\ Head(rx[p]).type = "publish" /\ rx[p] # <<>> /\ remote' = remote
      /\ peer_state' = peer_state /\ rx' = [rx EXCEPT ![p] = Tail(@)]
      /\ \A e \in Endpoints :
           inq'[e] = IF \E q \in Q : remote[q] = e THEN Append(inq[e], x) ELSE inq[e]
      /\ UNCHANGED <<author, topicMapVars, registryVars>>
  BY DEF OnPublish, Receiving, ReportReceive
<1>2. /\ rx[p] \in Seq(Packets) /\ DOMAIN rx = Peers
      /\ \A e \in Endpoints : inq[e] \in Seq(Packets)
      /\ \A d \in Clients : main[d] # NoEndpoint => main[d] \in Endpoints
  BY DEF BusInv, BusTypeOK, ServerTypeOK, ENetTypeOK
<1>3. 1 \in DOMAIN rx[p] /\ Head(rx[p]) = rx[p][1] /\ Head(rx[p]) \in Packets
  BY <1>1, <1>2
<1>4. m \in Payloads /\ author[m] \in Endpoints
  BY <1>1, <1>3, WaitingSound DEF BusInv, ServerInv
<1>5. x \in Packets /\ x.type = "fanout" /\ x.payload = m
  BY <1>3, <1>4, PacketFields, PacketsTyped DEF fanout, construct
<1>6. PICK c \in Clients : main[c] = author[m]
  BY <1>4 DEF AuthorInv
<1>7. \A d \in Clients \ {c} : main[d] # main[c]
  BY <1>4, <1>6 DEF BusInv, ClientInv, HostsSound
<1>8. SameUp /\ SameSubscribed
  BY <1>1, SameSlots
<1>9. SameTopics /\ SameRead
  BY <1>1, SamePublished DEF SameRead, ReadBy
<1>10. QueuesInOrder /\ QueuesInOrder'
  BY StepKeepsOrder DEF OrderInv
<1>11. \A i \in DOMAIN rx[p] : rx[p][i].type = "publish" => author[rx[p][i].payload] = main[c]
  BY <1>1, <1>3, <1>6 DEF AuthorInv
<1>12. rx'[p] = Tail(rx[p]) /\ \A q \in Peers \ {p} : rx'[q] = rx[q]
  BY <1>1, <1>2
<1>13. \A i \in DOMAIN rx'[p] : rx'[p][i].type = "publish" => author[rx'[p][i].payload] = main[c]
  BY <1>1, <1>2, <1>11, <1>12, InTail
<1>14. Outbox(c) = PayloadsOf(rx[p], "publish")
  <2>1. QueuedBy(rx[p], author, main[c])
    BY <1>1, <1>3, <1>6 DEF QueuedBy
  <2> QED
    BY <1>10, <2>1, OutboxIs
<1>15. Outbox(c)' = PayloadsOf(rx'[p], "publish")
  <2>1. CASE QueuedBy(rx'[p], author', main'[c])
    BY <1>10, <2>1, OutboxWillBe
  <2>2. CASE ~QueuedBy(rx'[p], author', main'[c])
    <3>1. \A i \in DOMAIN rx'[p] : rx'[p][i].type # "publish"
      BY <1>1, <1>13, <2>2 DEF QueuedBy
    <3>2. rx'[p] \in Seq(Packets)
      BY <1>1, <1>2, <1>12
    <3>3. PayloadsOf(rx'[p], "publish") = <<>>
      BY <3>1, <3>2, NoPayloads
    <3>4. ASSUME NEW q \in Peers, q # p PROVE ~QueuedBy(rx'[q], author', main'[c])
      BY <1>1, <1>3, <1>6, <1>10, <1>12, <3>4 DEF QueuedBy, QueuesInOrder
    <3>5. Outbox(c)' = <<>>
      BY <1>10, <2>2, <3>4, OutboxWillBe
    <3> QED
      BY <3>3, <3>5
  <2> QED
    BY <2>1, <2>2
<1>16. Outbox(c) # <<>> /\ Head(Outbox(c)) = m /\ Outbox(c)' = Tail(Outbox(c))
  BY <1>1, <1>2, <1>12, <1>14, <1>15, PayloadsHead
<1>17. ASSUME NEW d \in Clients \ {c} PROVE Outbox(d)' = Outbox(d)
  <2>1. ~QueuedBy(rx[p], author, main[d]) /\ ~QueuedBy(rx'[p], author', main'[d])
    BY <1>1, <1>7, <1>11, <1>13 DEF QueuedBy
  <2> QED
    BY <1>1, <1>10, <1>12, <2>1, SameOutbox
<1>18. ASSUME NEW d \in Clients
       PROVE  Mailbox(d)' = IF Target(p, d) THEN Append(Mailbox(d), m) ELSE Mailbox(d)
  <2>1. CASE main[d] = NoEndpoint
    BY <2>1 DEF Mailbox, Target
  <2>2. CASE main[d] # NoEndpoint
    <3>1. Target(p, d) <=> \E q \in Q : remote[q] = main[d]
      BY <2>2 DEF Target
    <3>2. inq'[main[d]] = IF Target(p, d) THEN Append(inq[main[d]], x) ELSE inq[main[d]]
      BY <1>1, <1>2, <2>2, <3>1
    <3>3. PayloadsOf(Append(inq[main[d]], x), "fanout") =
            Append(PayloadsOf(inq[main[d]], "fanout"), m)
      BY <1>2, <1>5, <2>2, PayloadsAppend
    <3> HIDE DEF x, m
    <3> QED
      BY <2>2, <3>2, <3>3 DEF Mailbox
  <2> QED
    BY <2>1, <2>2
<1>19. ASSUME NEW d \in Clients
       PROVE  Mailbox(d)' = IF d # c /\ PublishedTo(m) \in SubscribedTo(d)
                            THEN Append(Mailbox(d), m) ELSE Mailbox(d)
  BY <1>6, <1>18, TargetsAreSubscribers
<1> HIDE DEF m
<1> QED
  BY <1>4, <1>8, <1>9, <1>16, <1>17, <1>19, ForwardStep

-----------------------------------------------------------------------------
(* The theorems.                                                           *)

LEMMA InitImplements == BusInit => PubSub!Init
<1> SUFFICES ASSUME BusInit PROVE PubSub!Init
  OBVIOUS
<1>1. /\ \A c \in Clients : main[c] = NoEndpoint /\ delivered[c] = <<>>
      /\ \A p \in Peers : rx[p] = <<>>
      /\ \A m \in Payloads : author[m] = NoEndpoint
      /\ wanted = [c \in Clients |-> {}]
  BY DEF BusInit, ServerInit, ENetInit
<1>2. \A c \in Clients : SlotsOf(c) = {}
  BY <1>1 DEF SlotsOf
<1>3. Up = {} /\ \A c \in Clients : SubscribedTo(c) = {}
  BY <1>2 DEF Up, SubscribedTo
<1>4. \A c \in Clients : Outbox(c) = <<>> /\ Mailbox(c) = <<>> /\ ReadBy(c) = <<>>
  <2>1. \A p \in Peers : \A e : ~QueuedBy(rx[p], author, e)
    BY <1>1 DEF QueuedBy
  <2>2. \A c \in Clients : ReadBy(c) = <<>>
    BY <1>1 DEF ReadBy
  <2> QED
    BY <1>1, <2>1, <2>2 DEF Outbox, Mailbox
<1>5. \A m \in Payloads : PublishedTo(m) = NoTopic
  BY <1>1 DEF PublishedTo
<1> QED
  BY <1>1, <1>3, <1>4, <1>5 DEF PubSub!Init

(* Nothing has been sent at first.                                         *)
LEMMA InitAuthors == BusInit => AuthorInv
BY DEF BusInit, ServerInit, ENetInit, AuthorInv

(* Every step of the bus is one of PubSub or changes nothing of it.        *)
LEMMA StepImplements ==
  ASSUME BusInv, OrderInv, AuthorInv, [BusNext]_busVars
  PROVE  AbstractStep
<1>1. CASE UNCHANGED busVars
  <2>1. Calm
    BY <1>1 DEF Calm, Passes
  <2>2. SameUp /\ SameSubscribed
    BY <1>1, SameSlots
  <2> QED
    BY <1>1, <2>1, <2>2, CalmStep, StutterStep
<1>2. CASE ServerStep
  <2>1. CASE Restart
    BY <1>2, <2>1, RestartStep DEF ServerStep
  <2>2. ASSUME NEW p \in Peers, OnUnsubscribe(p) PROVE FALSE
    <3>1. 1 \in DOMAIN rx[p] /\ rx[p][1].type = "unsubscribe"
      BY <2>2 DEF OnUnsubscribe, Receiving, BusInv, BusTypeOK, ServerTypeOK, ENetTypeOK
    <3> QED
      BY <3>1 DEF OrderInv, StillSubscribed
  <2>3. ASSUME NEW p \in Peers,
               \/ OnConnect(p) \/ OnDisconnect(p) \/ OnAbandoned(p)
               \/ OnTopicRequest(p) \/ OnSubscribe(p) \/ OnPublish(p) \/ OnIgnored(p)
        PROVE  AbstractStep
    BY <1>2, <2>3, AcceptStep, DisconnectStep, RequestStep, NotedStep, FanoutStep, IgnoredStep
       DEF ServerStep
  <2> QED
    BY <1>2, <2>1, <2>2, <2>3 DEF ServerStep, process
<1>3. ASSUME NEW c \in Clients, Application(c) PROVE AbstractStep
  BY <1>3, ConstructStep, ResolvingStep, LeaveStep, CallStep DEF Application
<1>4. ASSUME NEW c \in Clients, LibraryStep(c) PROVE AbstractStep
  BY <1>4, ResolvingStep, UseStep DEF LibraryStep
<1>5. ASSUME NEW c \in Clients, Receive(c) PROVE AbstractStep
  BY <1>5, PollStep, LeaveStep DEF Receive
<1> QED
  BY <1>1, <1>2, <1>3, <1>4, <1>5 DEF BusNext

(* Publishes are sent on main connections only, and the publishes that     *)
(* wait in a slot come from one connection, although slots are reused.     *)
THEOREM AuthorsInvariant == BusSpec => []AuthorInv
BY InitAuthors, StepKeepsAuthors, BusInvariant, OrderInvariant, PTL DEF BusSpec

(* The bus keeps the promise of module PubSub: whatever the keys, caches,  *)
(* slots, records and temporary connections do, applications see clients   *)
(* that are up or not, a publish that goes to all others subscribed at     *)
(* that moment, queues that keep their order, and nothing lost but with a  *)
(* connection.                                                             *)
THEOREM BusImplementsPubSub == BusSpec => ImplementsPubSub
<1>1. BusInv /\ OrderInv /\ AuthorInv /\ [BusNext]_busVars => [PubSub!Next]_(PubSub!vars)
  BY StepImplements DEF AbstractStep
<1> QED
  BY <1>1, InitImplements, BusInvariant, OrderInvariant, AuthorsInvariant, PTL
     DEF BusSpec, ImplementsPubSub, PubSub!Spec
=============================================================================
