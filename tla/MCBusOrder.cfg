SPECIFICATION BusSpec
CONSTANTS
  Topics = {t1}
  Payloads = {1, 2, 3}
  Empty = Empty
  Peers = {1, 2, 3}
  Endpoints = {1, 2, 3, 4}
  NoEndpoint = NoEndpoint
  Addrs = {a1, a2, a3}
  NoAddr = NoAddr
  NoPeer = NoPeer
  Keys = {1}
  Clients = {c1, c2}
  Resolvers = {c1, c2}
  Subscribers = {c1}
  Publishers = {c2}
  Leavers = {c1, c2}
  NoTopic = NoTopic
  MaxSends = 8
  MaxClientId = 4
  MaxRestarts = 0
  MaxOps = 5
  LossyLinks = {}
  Timeouts = FALSE
SYMMETRY Symmetry
INVARIANT DeliveryOrdered
PROPERTY ImplementsPubSub
CHECK_DEADLOCK FALSE
