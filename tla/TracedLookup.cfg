SPECIFICATION TracedSpec
CONSTANTS
  Request = {"r1", "r2"}
  Block = {b1, b2}
  BlockSize = 2
  Tokens <- MCTokens
INVARIANTS OneLookupRecord
