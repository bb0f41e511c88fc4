SPECIFICATION WireSpec
CONSTANTS
  Keys <- MCKeys
  Names <- MCNames
  Payloads <- MCPayloads
  Objects = {w1, w2}
  MaxSends = 3
SYMMETRY Symmetry
INVARIANT WireTypeOK
INVARIANT Understood
INVARIANT VersionAgrees
INVARIANT OwnedOnce
