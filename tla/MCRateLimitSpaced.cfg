CONSTANTS
  reader = reader
  nonce = nonce
  sender = sender
  Callers <- MCCallers
  RekeyTimeout = 2
  MaxCalls = 1
  MaxTime = 1
SPECIFICATION Spec
INVARIANT InitiationsSpaced
SYMMETRY CallerSymmetry
