SPECIFICATION Spec
CONSTANTS
  Runner = r
  Compiler = {r}
  Writer = w
INVARIANT DmaCountsLikeStore
