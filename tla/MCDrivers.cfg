SPECIFICATION FairDriversSpec
CONSTANTS
  Argvs <- MCArgvs
  EnvHosts = {"unset", "nowhere"}
  EnvPorts = {"unset", "0", "1x", "70000"}
  Unset = "unset"
  HostIs <- MCHostIs
  PortIs <- MCPortIs
  Numerals <- MCNumerals
  Resolvable = {"localhost", "far"}
  ServerHost = "localhost"
  MaxPending = 1
INVARIANT DriversTypeOK
INVARIANT ParsedAsMeant
INVARIANT ExitHonest
INVARIANT SamePort
PROPERTY StopsWhenQuiet
PROPERTY SubEnds
