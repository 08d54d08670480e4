\* The table, the elections, the turns and the batches.
CONSTANTS
  MAX_PROCESSES = 3
  Funcs = {f}
  NULL = NULL
  Bursts <- MCBursts
  ParentPids = {7}
  Batches = {2, 16}
  StatModulus = 1
SPECIFICATION RRFairSpec
INVARIANTS RunningIsCurrent LiveHasWork BypassBounded
PROPERTIES WorkConserving SRTFShortest ProcessesOnlyProgress TicksCharged BatchDrains
