SPECIFICATION Spec
CONSTANTS
  Request = {"r1", "r2"}
  Block = {b1, b2, b3, b4}
  BlockSize = 2
  Tokens <- MCTokens
SYMMETRY Symmetry
INVARIANTS TypeOK ComputedIsTrue CachedIsTrue LoadsOwnBlocks LoadingIsExact
