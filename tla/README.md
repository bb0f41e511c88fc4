# A verification project for spraybus

TLA+ models of the spraybus message bus, checked with TLC on small instances
and, as far as safety goes, proved with TLAPS for all instances. Every definition is
a translation of code of this repository; `PROJECT.json` maps each one to its
lines.

## The system

| Part | State | Operations | Talks to |
| --- | --- | --- | --- |
| Wire protocol (`networking/protocol.hpp`) | none | build and read packets | everybody |
| `TopicMap` (`server/topic_map.hpp`) | name -> key, next key | `get_or_create` | server |
| `networking::server::Server` | `m_client_map`, `m_clients`, `m_next_client_id`, `peer->data` of 8 slots | `process`, `create_client`, `destroy_client`, `send` | ENet |
| `server::Server` (`server/server.cpp`) | subscriptions of each client, the topic map | `on_message` | its base class |
| ENet (external) | peer slots, links, queues | connect, send, service, disconnect | both sides |
| `networking::client::Client` | one ENet host with one peer | construct, destroy, `process`, `recv`, `send` | server |
| `client::Client` (`client/client.cpp`) | two caches, name -> key and key -> name | `get_topic_key`, `publish`, `subscribe`, `process`, `poll` | a main and a temporary connection |
| `AsyncClient` (Python) | command queue, futures, message queue, thread, flags | `connect`, `close`, `publish`, `subscribe`, `get_topic_key`, `recv` | one worker thread that owns a native client |
| `Constructor`, `Packet`, `Message` (`protocol.hpp`, `networking/client/client.hpp`) | a reused buffer; owned ENet packets | construct, move, destroy, read | sender and receiver |
| Drivers (`drivers/`), `env.hpp`, `interrupts.hpp` | `Options`, `should_run` | `parse_options`, `run`, `run_forever`, the signal handler | environment, each other |
| Bindings, logging, launchers | little | glue | the above |

The server is one thread that handles one ENet event after the other. Clients
are other processes. A client that needs the key of a topic opens a second
connection, asks, and closes it, while its main connection stays open, so a
call is a sequence of steps that other clients, the server and the network
interleave with. Nothing is persisted: a restarted server hands out the keys
1, 2, ... again, while clients keep the keys they cached. `AsyncClient` adds a
second kind of concurrency: coroutines on an event loop and a worker thread.

What is hard, and what each part must guarantee, is the hazard list of
`PROJECT.json`. In short: pointers and ids in the registry must agree while
slots and addresses are reused; a key must mean one topic; a fanout must reach
those who asked, not its author, in order, under the right name; stale caches
must not mislead a new server; calls must come back, slots too; nothing may be
lost or run twice between event loop and worker.

## Modules

    Protocol <- TopicMap, ENet <- Server <- Bus  ( implements PubSub )
    Wire      AsyncClient      Drivers

    Server <- ServerProofs <- BusProofs -> Bus
    BusProofs <- OrderProofs <- PubSubProofs
    AsyncClient <- AsyncProofs <- WaitProofs
    Wire <- WireProofs      Drivers <- DriversProofs

An arrow is EXTENDS. `Bus` instantiates `PubSub` with a refinement mapping.

* **Protocol**: packets as records of type, key and payload.
* **TopicMap**: `get_or_create` and the two variables of the class.
* **ENet** (external): what the code relies on. Slots are free, pending or
  connected; links deliver in order and once while they last. When a link ends,
  what was not yet reported as an event is gone. A handshake may complete after
  the client gave up.
* **Server**: the registry and every case of `process` and `on_message`, one
  action each. A record lives at an address that is reused after
  `destroy_client`, as heap nodes are; `peer_data` is never cleared, as in the
  code. `m_clients` is a set: order and multiplicity of the vector cannot be
  observed, for a send to one peer never depends on another. The clients are an
  arbitrary environment that may send any packet, so `Server` says what holds
  whatever clients do. `asked` and `author` are history variables.
* **Bus**: the server and applications that use the C++ client library.
  `get_topic_key` is cut into the steps at which others can interfere: cache
  lookup (`Call`), temporary connection (`TmpConnect`), request (`TmpRequest`),
  answer with both cache updates and the destructor (`TmpReceive`), and the send
  on the main connection (`Use`). Each step can fail as the code lets it fail.
  `Resolvers`, `Subscribers`, `Publishers` and `Leavers` say which calls which
  application makes.
  A publish by key takes a key an earlier call has put in the cache.
* **PubSub**: what a user of the library relies on, without keys, caches, slots
  or connections: a client is up or not, a publish of a client that is up waits
  in its outbox, is forwarded to every other client subscribed at that moment,
  waits in their mailboxes in order, and is delivered. Links that end take the
  waiting payloads with them; a server crash ends them all. `Bus` maps `up` to
  "some slot's far end is my main connection", `subscribed` through the server's
  topic map and records, outbox and mailbox to the queues of ENet.
* **Wire**: the bytes below `Protocol`. A `Constructor` fills its one buffer, the
  buffer's bytes are copied into packets, and a receiver of either byte order
  reads them. Numbers are byte sequences, so the 64-bit key keeps its width.
  `Packet` objects own received packets through construction, moves,
  assignments and destruction in any order a program may choose.
* **Drivers**: the server program and the command line client as two processes in
  one environment. `parse_options` is one action per kind of word; `run` and
  `main` end with their exit codes; `run_forever` and `process` are loops that
  other steps, SIGINT included, interleave with. On both sides the test of
  `should_run` and the `process()` after it are steps of their own, and so is the
  destructor of the client, which comes before the end of `main`. The library's
  calls are one step each here. A host name without an address leaves the outcome of a
  connection open, since the code then uses an uninitialised address.
* **AsyncClient**: coroutine steps from await to await, worker steps with one
  shared access each, `_commands` and the loop's callbacks as FIFOs, one future
  per call and one `_started` per session. The native client is reduced to its
  outcomes. A task resumes some time after its future is done; which of several
  waiting `recv()` calls is woken is left open. `Disciplined` says that
  `connect()` and `close()` overlap no other call and are not cancelled.
* **MCServer, MCBus, MCAsync, MCWire, MCDrivers**: instances for TLC.
* **ServerProofs, BusProofs, OrderProofs, PubSubProofs, WireProofs, AsyncProofs,
  WaitProofs, DriversProofs**: theorems.

Definitions whose name ends in `_Something` after the name of another one are
mutants: the same definition with a plausible mistake. Each property is known
to fail for at least one of them.

## Runs

| Run | Question | Bounds |
| --- | --- | --- |
| `server` | Does the server survive arbitrary clients and a lossy network? | 2 slots, 3 hosts, 2 addresses, 3 ids, 3 sends, 1 restart: enough for a slot and an address to be reused by a third host while a second one is connected |
| `bus_safety` | Do keys, caches, labels and deliveries agree, across a restart, and is `PubSub` implemented? | 2 clients that both subscribe and publish; 2 topics, 3 calls, 3 slots, 1 restart |
| `bus_order` | Are publishes delivered in order and without gaps? | 1 publisher, 1 subscriber, 3 payloads, 5 calls, both may resolve and leave |
| `bus_failures` | Timeouts, late handshakes, lost links, sends on dead links | 3 slots, 4 hosts, 2 calls, 1 subscriber, 1 publisher; calls time out at every host, and hosts 2 and 3 may lose their links |
| `bus_liveness` | Do calls return, payloads arrive, slots come back? | 3 slots for 2 clients, 2 calls, both may leave |
| `bus_labels` | Are labels right across a restart? **No** | 1 restart, 2 topics, 3 calls |
| `bus_reliable` | Is a publish safe once `publish` returned? **No** | as `bus_liveness` |
| `async_failures` | Is anything lost, doubled, reordered, orphaned or left waiting? | 4 calls, 2 sessions, 2 messages per session, the native client may fail at any poll |
| `async_hang` | Does every call come back, whatever the calls and failures? **No** | 3 calls, 1 session, calls may overlap `close()`, the native client may fail |
| `async_workers` | Is there one worker, whatever the calls? **No** | 5 calls, 3 sessions |
| `wire` | Does a packet mean what was asked for, and is it freed once? | 3 packets, 2 Packet objects, two keys (one with 8 different bytes), payloads of 0 and 2 bytes, foreign packets of 0, 15 and 16 bytes, all four pairs of byte orders |
| `drivers` | Are command lines understood, exit codes true, and do both programs end? | all lines of at most 2 of 6 option words before 8 tails, 8 environments, 1 waiting event |

In `bus_failures` three slots let both clients be connected while one of them
resolves a topic, so payloads are delivered before, between and after failures.
Hosts are taken in order, and the second and the third can each be a main or a
temporary connection of either client, so both kinds of link are lost, alone and
together. Nobody leaves: what destroying a client drops is in `bus_order` and
`bus_liveness`.

One waiting event is enough in `drivers`: the server's loop only asks whether
there is one, and traffic may put the next one there whenever one was taken.
`ImplementsPubSub` is checked in three of the runs, since restart, order and
failures are each too large to combine. `UsesServer` in `bus_failures` says that
the clients of `Bus` are an environment `ServerSpec` allows, which carries the
theorems on `Server` over.

Symmetry sets are used only where no liveness property is checked and the roles
are invariant under them. Slots and hosts of `Bus` are numbers taken in order,
as ENet takes its peers, and are not symmetric. Deadlock is not checked where a
run stops when its bounded calls are used up; `wire` and `drivers` check it.

### What the failing runs show

* `bus_labels`: a fanout received from the old server is read after the client
  resolved a topic with the new one, whose key is the same number; it is handed
  over under the wrong name.
* `bus_reliable`: `~Client` disconnects at once, which drops what the server
  has not dispatched (and what was not acknowledged). The `pub` command of the
  CLI publishes and exits.
* `async_hang`: a call queued to a worker that has left its loop waits for ever.
  There are two ways. `_fail_pending` drains the queue once; a command or a
  `close()` queued after that, while `_worker_error` is not yet set or the thread
  not yet dead, is never taken out, and `close()` after a failed `connect()` is
  enough. And without any failure the worker stops at the first `close()`; a
  `publish()` or a second `close()` queued behind it, while the first one is
  still waiting for the thread, is left there. TLC prints one of the two; with
  `NativeFails = FALSE` only the second is left and with `Disciplined = TRUE`
  only the first, and each alone violates `CallsComplete`. For callers whose
  `connect()` and `close()` overlap nothing, `CallsCompleteUnlessStranded` in
  `async_failures` says that no call hangs in any other way.
* `async_workers`: a `close()` that resumes from its join after another
  `close()` and a `connect()` sets `_thread` to `None` and orphans the new
  worker.

## Fairness

`FairBusSpec`: the server's loop handles pending events (`run_forever` polls
without end, and ENet serves its peers in turn), hence weak fairness of the
handlers of every slot; a library call that has begun runs on; an application
keeps calling `process` or `poll` while it makes no other call. Nothing is
assumed of when applications make calls or leave. Liveness is checked on a
network that loses no link (`LossyLinks = {}`, `Timeouts = FALSE`): with
lost links nothing can be promised, and the code promises nothing.

`FairSpec` of `AsyncClient`: the loop runs its callbacks and resumes its tasks,
and threads run. `PollMessage` is bounded by `MaxMessages`: under an endless
stream of messages `_poll_messages` would never return to the commands.

`FairDriversSpec`: programs run (weak fairness of each program's steps), and ENet
reports a server that is gone (strong fairness, as the client is in its `poll`
again and again). Nothing is assumed of signals or of the traffic of others;
`StopsWhenQuiet` has the end of that traffic as its premise, because without it
the property fails: `process` returns only when no event is ready.

## Proofs

The theorems hold for all values of the constants that satisfy the `ASSUME`s of
the modules, which TLC evaluates in the runs: null values are not members of
their sets, bounds are naturals, keys are naturals, bytes are bytes, a word that
starts with `--host=` or `--port=` is no other option. No bound of a run is used.
The invariants below were checked by TLC on the bounds of the runs before they
were proved.

### Server

* `TypeCorrect`: `[]ServerTypeOK`, inductive as it stands. That a request
  carries a topic name and a publish a payload is part of the type `Packets`.
* `KeysAreUnique`, `KeysAreStable`: from `TopicMapSteps` (only a request or a
  restart touches the map) and `GetOrCreateKeepsKeys`.
* `RegistryIsConsistent`: `RegistryConsistent` is inductive once it ties every
  live record to a connected slot and every connected slot to a live record in
  both directions. `ConnectKeepsRegistry` and `DisconnectKeepsRegistry` are the
  two steps that matter; all others are `OtherStepsKeepRegistry`.
* `FanoutsAreWanted`: `FanoutWanted` is not inductive. `FanoutInv` follows a
  packet back: an endpoint is at the far end of one slot at most and never
  again once it has gone (`LinksSound`), the packets in a slot's queue come from
  its far end or from one that has gone (`QueuesSound`), records hold only keys
  asked for (`RecordsSound`), and so fanouts go where they should
  (`InboxesSound`). `PublishTargetsWanted` is the key step; it needs the registry
  to know that a target with another id sits in another slot.
* `ForwardedAtMostOnce`: a payload is in one queue only until it is forwarded,
  and in no queue after that.

`ServerSpec` includes restarts and the lossy network, so the theorems cover
them. They bound neither slots nor sends: `MaxSends`, `MaxClientId` and
`MaxRestarts` are arbitrary naturals.

### Bus

`BusInvariant` proves `BusInv`, which is the server's invariant (its steps are
reused, not proved again) together with

* `ResolveInv`: what a call that resolves a topic knows at each of its steps.
  A key in the answer of a temporary connection, or in a cache, is the server's
  for that topic as long as the server is the one that handed it out (`Fresh`).
  A client whose main connection is up was connected to the server that runs, so
  what it resolved since it connected is of that server.
* `DeliveryInv`: every publish on its way, in whatever queue, carries the key of
  the topic its application named (`KeysSound`), a subscribe is sent only for a
  key whose name is cached, and what is delivered came through such queues.

From it follow `KeysAreOfTheirServer`, `CachesAreCoherent`, `DeliveriesAreSound`,
`LabelsAreTrueSinceStart` and `BusTypeCorrect`; `ServerHoldsInBus` carries the
invariants of `Server` over, and `BusUsesServer` shows step by step that `Bus`
implements `ServerSpec`. The last one assumes `Keys = Nat`: the environment of
`Server` sends any key of `Keys`, so it must offer all those clients may cache.

### Order

`DeliveriesAreOrdered` (module `OrderProofs`) needs more than `BusInv`: a payload
between two that were delivered may be anywhere, so every place a payload can be
in, and every way it can vanish, has to be accounted for. `OrderInvariant` proves
`OrderInv`, with `BusInv` as a given:

* `SentSound`: the payload of a publish call in progress is later than all its
  client has sent, although the call may still be resolving the topic.
* `QueuesInOrder`: waiting publishes are in order, and those of one connection are
  in one slot.
* `ReachedInOrder`: delivered, then waiting for the callback, then waiting at the
  server: a connection's payloads increase along this path.
* `StillSubscribed`: a client that a payload of a topic has reached is subscribed to
  the topic as long as it is linked. Nobody unsubscribes, since the client library
  has no such call.
* `NoneOvertaken`: whatever was sent after a payload that waits, waits or is lost;
  after one that reached a linked client, has reached it too, waits or is lost.
  `Lost` means that the author's link is down and only earlier payloads wait:
  nothing later can overtake the gap.
* `NoGaps`: between two payloads that have reached a client there is no gap.

Most steps are `Quiet` (`StepKinds`): they send no publish, forward none, run no
callback, and drop queues only together with the link. The others are a publish
sent, `OnPublish` and a callback. The step that could open a gap is `OnPublish`;
`TargetOfStream` shows that it forwards to every linked client that an earlier
payload of the same stream has reached, from `SubscriptionStays` and because the
key still means the same topic.

### Refinement of PubSub

`BusImplementsPubSub` (module `PubSubProofs`) proves `BusSpec => ImplementsPubSub`
from `BusInv`, `OrderInv` and one more invariant. The mapping is the operators `Up`,
`SubscribedTo`, `PublishedTo`, `Outbox`, `Mailbox` and `ReadBy` of `Bus`.

* *Queues to payloads.* `PayloadsOf` is a recursive function over the queue. The
  library's induction theorems cannot be used here, so `UpToInduction` argues from a
  least counterexample, as a statement about sets (`WFMin`, from WellFoundedInduction,
  takes no operator). It gives `PrefixesExist` (the function is defined at all),
  `PayloadsAppend`, `PayloadsTail` and `PayloadsHead`: appending to or taking from
  a queue does the same to its payloads if the packet is of the type, and nothing
  otherwise.
* *`AuthorInv`* (`AuthorsInvariant`): publishes are sent on main connections only, and
  those that wait in a slot come from one connection. `QueuesInOrder` alone says in
  which slot a connection's publishes are, not that they have it to themselves;
  without that an outbox would hold the payloads of two clients and a fanout would
  take the wrong one from its front.
* *Steps.* `JoinStep` to `DeliverStep` say which changes of the mapped state make up
  a step of `PubSub`; most steps of `Bus` are `Calm`, that is, no publish, fanout
  or callback moves. Then one lemma for each action of `Bus`:

  | Step of the bus | Step of `PubSub` |
  | --- | --- |
  | constructor connects | `Join` |
  | every step of `get_topic_key`, failures included; topic request answered; ignored packet; record made for a connection; end of a temporary connection | none |
  | subscribe called | `Want` |
  | publish sent, by name after resolving or by key, also on a dead link | `Publish` |
  | `on_message`, subscribe | `Subscribe` |
  | `on_message`, publish | `Forward` |
  | callback | `Deliver` |
  | slot released by the server, destructor or lost link at the client | `Cut`, once for each side, in either order |
  | restart | `Crash` |

The step with the most behind it is `FanoutStep`. `TargetsAreSubscribers` shows that
those the registry holds for the key are the clients subscribed to the topic the
application named, which rests on `KeysSound`, on the registry invariants of
`ServerProofs`, and on the author being excluded by its slot.

### Wire

Numbers are byte sequences, and the encoding is a permutation of bytes, so that
the theorems hold for all keys of 8 bytes, all names and all payloads. `RoundTrip`
(reading a constructed packet gives back type, key and payload) is the lemma that
matters; it rests on `SwapTwice` (reversing bytes twice) and `HeaderLayout` (the
fields do not overlap). `WireInv` says that what is in the buffer, on the wire
and received is a faithful packet or a foreign one, and that each packet is in
one object or destroyed (`Owned`). `PacketsAreUnderstood`,
`VersionNeedsSameOrder` and `PacketsAreOwnedOnce` follow.

### AsyncClient

`AsyncTypeCorrect` holds whatever the application does. The other theorems assume
`Disciplined`, as the run `async_failures` does; without it they are false, as
`async_workers` shows. Four layers, each using the ones before:

* `Discipline`: a `connect()` or `close()` in progress is the only call in
  progress, so the worker that is alive belongs to the latest session:
  `NoWorkerIsOrphaned`, `OneWorkerIfDisciplined`.
* `CommandInv`: executed commands, the one being handled and those in the queue
  are in the order of the calls, and a future has a result only if its command
  was executed, or its callback is on the way: `CommandsRunInOrder`.
* `MessageInv`: results of `recv()`, queue and callbacks of a session are in order,
  hold all of `1 .. polled`, and an error has nothing behind it because its worker
  will post nothing more: `MessagesAreConserved`. So an error at the head of a
  queue is all that is left, and a `recv()` that is given it has missed nothing.
  With `ErrorKnown` (an error in the queue of the latest session has set
  `_worker_error`; a new session begins with neither) also the other half of
  `ReadingEnds`: a `recv()` that begins after that reads nothing. Messages that
  nobody was waiting for when the error came stay in the queue for good.
* `WaitInv` (`WaitProofs`): what a waiting call waits for will be done by someone.
  `NobodyForgotten` is not inductive, for whether a queue is served depends on who
  may still be closing the worker. The strengthening says that the `close()` in the
  queue is unanswered and the last call made, so the worker that takes it leaves
  no command behind; that a `close()` answered with a result has a worker on its
  way out and one answered with an error a worker that has posted its error; that
  the thread on record serves, has failed or is being closed; and that a worker
  drains the queue only after it posted its error. A posted error stays posted
  (`LoopKeepsErrors`, `CallbackKeepsErrors`, `WorkerKeepsErrors`): `recv()` puts it
  back. The theorem `NobodyIsForgotten` is the safety core of `FailureReported` and
  `CallsCompleteUnlessStranded`: with fairness each of its alternatives leads to an
  answer, but for a call queued to a worker that has failed, the first case of
  `async_hang`. The second case needs calls that overlap a `close()`.

### Drivers

`ParseInv` is the invariant of the loop of `parse_options`: the number of flag
words directly before word `i` is even, so word `i` is not a value, all words
before it are options or values, and the last one that gave a host or a port has
been obeyed. `Run(j, n)` pins the maximum in `FlagsBefore` down, so that no
induction over the command line is needed. Then `CommandLineIsUnderstood`;
`ExitCodeIsHonest` adds what has been done in which state and that the flag
`should_run` is down exactly when the handler ran, at every step of the loop. A
SIGINT after the test of the flag does not help against a `process()` that
throws: the theorem gives such a `sub` the exit code 1. `PortsMeet` is the last.

### Only model-checked

* All liveness (`CallsReturn`, `EventualDelivery`, `SlotAvailable`, `FailureReported`,
  `CallsCompleteUnlessStranded`, `StopsWhenQuiet`, `SubEnds`): fairness and `ENABLED`
  are out of the prover's reach. Of those on `AsyncClient` the safety core is proved.

## Not modelled

* The diagnostic strings of packets, the text `join_message` builds and the usage
  text: formatting that nothing reads back.
* `broadcast`, `get_env_or_throw`, `run_forever` without a callback (called
  nowhere in the programs) and `TopicMap::get` (read-only, unused).
* `publish` with a numeric key the client did not resolve itself; the arbitrary
  clients of `Server` send any key.
* The Python bindings, which forward calls and convert values; their `call_once`
  around `init` runs under the interpreter lock. Logging, launchers, build files.
* Memory: packets leaked by a failed `enet_peer_send`, the host leaked by a
  constructor that throws. Message views that outlive their packet: the library
  itself makes none.
* Overflow of 64-bit keys and ids, which no execution reaches.

## Plan

1. Done: `Protocol`, `TopicMap`, `ENet`, `Server`, `Bus`, `AsyncClient`, their
   runs, and the theorems on `Server`.
2. Done: `PubSub` and the refinement, `Wire`, `Drivers`, publish by key, and the
   failure properties of `AsyncClient`.
3. Done: theorems on `Bus`, `Wire`, `AsyncClient` and `Drivers`.
4. Done: `DeliveryOrdered`.
5. Done: the refinement of `PubSub`.
6. Done: `NobodyForgotten`, the safety core of the liveness of `AsyncClient`.
7. Left: what only TLC checks, which is liveness.
