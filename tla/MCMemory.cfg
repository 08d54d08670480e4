\* 96 bytes: at most four blocks of the smallest body, or one of the largest
\* request with a remainder too small to split.
SPECIFICATION FairSpec
CONSTANTS
  HEAP = 96
  HEADER = 12
  MIN_BODY = 8
  NULL <- MCNull
  Requests <- MCRequests
INVARIANTS
  Tiling
  HeldBlocks
  Coalesced
PROPERTIES
  FailsOnlyIfFull
  ImplementsAllocator
  CallsReturn
