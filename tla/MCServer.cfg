SPECIFICATION ServerSpec
CONSTANTS
  Topics = {t1, t2}
  Payloads = {m1}
  Empty = Empty
  Peers = {p1, p2}
  Endpoints = {e1, e2, e3}
  NoEndpoint = NoEndpoint
  Addrs = {a1, a2}
  NoAddr = NoAddr
  NoPeer = NoPeer
  Keys = {1}
  MaxSends = 3
  MaxClientId = 3
  MaxRestarts = 1
  LossyLinks = {e1, e2, e3}
SYMMETRY Symmetry
INVARIANT ServerTypeOK
INVARIANT KeysUnique
INVARIANT RegistryConsistent
INVARIANT FanoutWanted
PROPERTY KeysStable
CHECK_DEADLOCK FALSE
