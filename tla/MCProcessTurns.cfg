\* The promise of the name, which the restart of the scan breaks.
CONSTANTS
  MAX_PROCESSES = 3
  Funcs = {f}
  NULL = NULL
  Bursts <- MCBursts
  ParentPids = {7}
  Batches = {2, 16}
  StatModulus = 1
SPECIFICATION RRSpec
INVARIANTS RoundRobinTurns
