SPECIFICATION BusSpec
CONSTANTS
  Topics = {t1}
  Payloads = {1}
  Empty = Empty
  Peers = {1, 2, 3}
  Endpoints = {1, 2, 3, 4}
  NoEndpoint = NoEndpoint
  Addrs = {a1, a2, a3}
  NoAddr = NoAddr
  NoPeer = NoPeer
  Keys = {1}
  Clients = {c1, c2}
  Resolvers = {}
  Subscribers = {c1}
  Publishers = {c2}
  Leavers = {}
  NoTopic = NoTopic
  MaxSends = 6
  MaxClientId = 4
  MaxRestarts = 0
  MaxOps = 2
  LossyLinks = {2, 3}
  Timeouts = TRUE
SYMMETRY Symmetry
INVARIANT DeliverySound
INVARIANT CachesCoherent
PROPERTY UsesServer
PROPERTY ImplementsPubSub
CHECK_DEADLOCK FALSE
