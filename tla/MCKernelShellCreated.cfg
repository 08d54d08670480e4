\* A full table refuses without a word.
CONSTANTS
  MAX_PROCESSES = 2
  Funcs = {dummy_process}
  NULL = NULL
  Bursts <- MCInts
  ParentPids <- MCInts
  Batches <- MCBatches
  StatModulus = 3
  IntMax = 11
  SCHED_MAX = 5
  KSHELL_MAX_TOKENS = 4
  dummy_process = dummy_process
  Lines <- MCLines
SPECIFICATION ShellSpec
\* A division exception stops the machine.
CHECK_DEADLOCK FALSE
INVARIANTS ReportedIsNewest
