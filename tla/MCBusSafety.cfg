SPECIFICATION BusSpec
CONSTANTS
  Topics = {t1, t2}
  Payloads = {1}
  Empty = Empty
  Peers = {1, 2, 3}
  Endpoints = {1, 2, 3, 4, 5}
  NoEndpoint = NoEndpoint
  Addrs = {a1, a2, a3}
  NoAddr = NoAddr
  NoPeer = NoPeer
  Keys = {1, 2}
  Clients = {c1, c2}
  Resolvers = {}
  Subscribers = {c1, c2}
  Publishers = {c1, c2}
  Leavers = {}
  NoTopic = NoTopic
  MaxSends = 8
  MaxClientId = 5
  MaxRestarts = 1
  MaxOps = 3
  LossyLinks = {}
  Timeouts = FALSE
SYMMETRY Symmetry
INVARIANT BusTypeOK
INVARIANT KeysMeanTheirTopic
INVARIANT DeliverySound
INVARIANT CachesCoherent
INVARIANT LabelsTrueSinceStart
PROPERTY ImplementsPubSub
CHECK_DEADLOCK FALSE
