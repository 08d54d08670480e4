\* Lines of up to four words in buffers that grow two or three times.
CONSTANTS
  LSH_RL_BUFFSIZE = 3
  LSH_TOKEN_BUFFSIZE = 2
  MaxLine = 7
SPECIFICATION FairSpec
\* nikli ends the shell.
CHECK_DEADLOCK FALSE
PROPERTY WaitEnds
