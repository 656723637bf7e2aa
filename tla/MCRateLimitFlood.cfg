CONSTANTS
  reader = reader
  nonce = nonce
  sender = sender
  Callers <- MCCallers
  RekeyTimeout = 2
  MaxCalls = 2
  MaxTime = 3
SPECIFICATION Spec
INVARIANT TypeOK
INVARIANT FloodBounded
SYMMETRY CallerSymmetry
