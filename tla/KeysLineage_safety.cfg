SPECIFICATION Spec
CONSTANTS
  c1 = c1
  c2 = c2
  c3 = c3
  NoDoc = NoDoc
  NoCall = NoCall
  LegacyHash = legacyHash
  Lineages = {fable, k3}
  Models = {m1}
  Calls = {c1, c2, c3}
  MaxInputs = 2
  MaxRestarts = 1
SYMMETRY CallSymmetry
INVARIANTS
  PinsBacked
  OwnKeysOnly
PROPERTIES
  GradedFromCurrentKeys
\* Every slot is used once: the model stops when the last call has answered.
CHECK_DEADLOCK FALSE
