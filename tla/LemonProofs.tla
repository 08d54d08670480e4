---------------------------- MODULE LemonProofs ----------------------------
(***************************************************************************)
(* Theorems about LemonShell: its types, its two growing buffers, its heap,  *)
(* and that it is a command loop, for every buffer size and line length.     *)
(***************************************************************************)
EXTENDS LemonShell, TLAPS

\* What the heap holds at each place of the loop, and that a child exists only
\* where the loop waits for it.
HeapByPlace ==
  /\ pc \in {"main", "prompt", "done"} => held = {}
  /\ pc \in {"read", "split"} => held = {"line"}
  /\ pc \in {"token", "execute", "wait", "system", "free"} => held = {"line", "tokens"}
  /\ child # "none" => pc = "wait"

IInv == TypeOK /\ InBounds /\ HeapByPlace

LEMMA InitEstablishes == Init => IInv
<1>. SUFFICES ASSUME Init PROVE IInv
  OBVIOUS
<1>1. /\ line \in [pos : Nat, buffsize : Nat, words : Nat, in_word : BOOLEAN]
      /\ tokens \in [pos : Nat, buffsize : Nat]
  BY DEF Init, NoLine, NoTokens
<1>2. TypeOK
  BY <1>1 DEF Init, TypeOK, Statuses
<1>. QED BY <1>2 DEF Init, IInv, InBounds, HeapByPlace

LEMMA MainKeeps == IInv /\ main => IInv'
BY DEF IInv, TypeOK, InBounds, HeapByPlace, main, Undefined, heapVars, childVars

\* A test after the store leaves room for the next one.
LEMMA LineKeeps ==
  IInv /\ (read_line \/ (\E delimiter \in BOOLEAN : read_char(delimiter)) \/ read_end)
    => IInv'
<1>. SUFFICES ASSUME IInv,
                     read_line \/ (\E delimiter \in BOOLEAN : read_char(delimiter))
                       \/ read_end
              PROVE  IInv'
  OBVIOUS
<1>1. CASE read_line
  <2>1. /\ [NoLine EXCEPT !.buffsize = LSH_RL_BUFFSIZE]
             \in [pos : Nat, buffsize : Nat, words : Nat, in_word : BOOLEAN]
        /\ [NoLine EXCEPT !.buffsize = LSH_RL_BUFFSIZE].pos = 0
        /\ [NoLine EXCEPT !.buffsize = LSH_RL_BUFFSIZE].buffsize = LSH_RL_BUFFSIZE
    BY LemonShellAssumption DEF NoLine
  <2>. QED
    BY <1>1, <2>1, LemonShellAssumption
    DEF IInv, TypeOK, InBounds, HeapByPlace, read_line, Undefined, childVars
<1>2. ASSUME NEW delimiter \in BOOLEAN, read_char(delimiter) PROVE IInv'
  <2>1. PICK grown \in {0, LSH_RL_BUFFSIZE} :
          /\ grown > 0 <=> Full(line.pos + 1, line.buffsize)
          /\ line' = [pos |-> line.pos + 1, buffsize |-> line.buffsize + grown,
                      words |-> line.words + (IF ~delimiter /\ ~line.in_word THEN 1 ELSE 0),
                      in_word |-> ~delimiter]
          /\ pc' = "read" \/ (grown > 0 /\ Undefined)
    BY <1>2 DEF read_char
  <2>2. /\ pc = "read"
        /\ UNCHANGED <<tokens, held, stays, childVars, ignored, at_eof>>
    BY <1>2 DEF read_char
  <2>3. line' \in [pos : Nat, buffsize : Nat, words : Nat, in_word : BOOLEAN]
    BY <2>1, LemonShellAssumption DEF IInv, TypeOK
  <2>4. line'.pos < line'.buffsize
    BY <2>1, <2>2, LemonShellAssumption DEF IInv, TypeOK, InBounds, Full
  <2>5. pc' \in {"read", "undefined"}
    BY <2>1 DEF Undefined
  <2>. QED
    BY <2>2, <2>3, <2>4, <2>5 DEF IInv, TypeOK, InBounds, HeapByPlace, childVars
<1>3. CASE read_end
  BY <1>3 DEF IInv, TypeOK, InBounds, HeapByPlace, read_end, heapVars, childVars
<1>. QED BY <1>1, <1>2, <1>3

LEMMA TokensKeep == IInv /\ (split_line \/ split_token \/ split_end) => IInv'
<1>. SUFFICES ASSUME IInv, split_line \/ split_token \/ split_end PROVE IInv'
  OBVIOUS
<1>1. CASE split_line
  BY <1>1, LemonShellAssumption
  DEF IInv, TypeOK, InBounds, HeapByPlace, split_line, Undefined, childVars
<1>2. CASE split_token
  <2>1. PICK grown \in {0, LSH_TOKEN_BUFFSIZE} :
          /\ grown > 0 <=> Full(tokens.pos + 1, tokens.buffsize)
          /\ tokens' = [pos |-> tokens.pos + 1, buffsize |-> tokens.buffsize + grown]
          /\ pc' = "token" \/ (grown > 0 /\ Undefined)
    BY <1>2 DEF split_token
  <2>2. /\ pc = "token"
        /\ UNCHANGED <<line, held, stays, childVars, ignored, at_eof>>
    BY <1>2 DEF split_token
  <2>3. tokens' \in [pos : Nat, buffsize : Nat]
    BY <2>1, LemonShellAssumption DEF IInv, TypeOK
  <2>4. tokens'.pos < tokens'.buffsize
    BY <2>1, <2>2, LemonShellAssumption DEF IInv, TypeOK, InBounds, Full
  <2>5. pc' \in {"token", "undefined"}
    BY <2>1 DEF Undefined
  <2>. QED
    BY <2>2, <2>3, <2>4, <2>5 DEF IInv, TypeOK, InBounds, HeapByPlace, childVars
<1>3. CASE split_end
  BY <1>3 DEF IInv, TypeOK, InBounds, HeapByPlace, split_end, heapVars, childVars
<1>. QED BY <1>1, <1>2, <1>3

LEMMA CommandKeeps == IInv /\ (lsh_execute \/ system_returns \/ waitpid \/ free) => IInv'
<1>. SUFFICES ASSUME IInv, lsh_execute \/ system_returns \/ waitpid \/ free PROVE IInv'
  OBVIOUS
<1>1. CASE lsh_execute
  BY <1>1 DEF IInv, TypeOK, InBounds, HeapByPlace, lsh_execute, execute_inside, system,
              lsh_exit, calc_fault, fork, Returns, Undefined, Statuses, heapVars, childVars
<1>2. CASE waitpid
  BY <1>2 DEF IInv, TypeOK, InBounds, HeapByPlace, waitpid, Ended, Statuses, heapVars, childVars
<1>3. CASE free
  BY <1>3 DEF IInv, TypeOK, InBounds, HeapByPlace, free, Freed, childVars
<1>4. CASE system_returns
  BY <1>4 DEF IInv, TypeOK, InBounds, HeapByPlace, system_returns, Returns, heapVars, childVars
<1>. QED BY <1>1, <1>2, <1>3, <1>4

LEMMA ChildKeeps == IInv /\ (execvp \/ ChildRuns) => IInv'
BY DEF IInv, TypeOK, InBounds, HeapByPlace, execvp, ChildRuns, Ends, Becomes, heapVars

LEMMA StepKeeps == IInv /\ [Next]_vars => IInv'
<1>1. IInv /\ UNCHANGED vars => IInv'
  BY DEF IInv, TypeOK, InBounds, HeapByPlace, vars, heapVars, childVars
<1>. QED BY <1>1, MainKeeps, LineKeeps, TokensKeep, CommandKeeps, ChildKeeps DEF Next, Proceeds

\* The inductive invariant: types, room in both buffers, and what the heap holds
\* at each place of the loop (loop.c:24-59).
THEOREM Invariance == Spec => []IInv
BY InitEstablishes, StepKeeps, PTL DEF Spec

\* Every variable of the hosted shell keeps its type.
THEOREM TypeCorrect == Spec => []TypeOK
<1>1. IInv => TypeOK
  BY DEF IInv
<1>. QED BY <1>1, Invariance, PTL

\* No store into the line or the token array is past its end, whatever the line
\* and the two growth steps (input.c:32, 37, 75, 96).
THEOREM StoresInBounds == Spec => []InBounds
<1>1. IInv => InBounds
  BY DEF IInv
<1>. QED BY <1>1, Invariance, PTL

\* Nothing of a command is left on the heap at the next prompt, and a program
\* exists only while the loop waits for it (loop.c:56-57, executor.c:44-52).
THEOREM NothingLeaks == Spec => []Released
<1>1. IInv => Released
  BY DEF IInv, HeapByPlace, Released
<1>. QED BY <1>1, Invariance, PTL

-----------------------------------------------------------------------------
(* Refinement.                                                              *)

LEMMA InitMaps == Init => Loop!Init
BY DEF Init, Loop!Init, Phase, HasProgram

LEMMA ReadingMaps ==
  ASSUME IInv, main \/ read_line \/ (\E delimiter \in BOOLEAN : read_char(delimiter)) \/ read_end
  PROVE  Loop!Next \/ UNCHANGED Loop!loopVars
<1>1. UNCHANGED HasProgram
  <2>1. UNCHANGED child
    BY Zenon DEF main, read_line, read_char, read_end, childVars
  <2>2. pc # "system" /\ pc' # "system"
    BY Zenon DEF main, read_line, read_char, read_end, Undefined
  <2>. QED BY <2>1, <2>2 DEF HasProgram
<1>2. Phase = "ready" /\ Phase' \in {"ready", "busy", "failed"}
  BY Zenon DEF main, read_line, read_char, read_end, Undefined, Phase
<1>. QED BY <1>1, <1>2 DEF Loop!Next, Loop!Accept, Loop!Fail, Loop!loopVars

LEMMA SplittingMaps ==
  ASSUME IInv, split_line \/ split_token \/ split_end
  PROVE  Loop!Next \/ UNCHANGED Loop!loopVars
<1>1. UNCHANGED HasProgram
  <2>1. UNCHANGED child
    BY DEF split_line, split_token, split_end, childVars
  <2>2. pc # "system" /\ pc' # "system"
    BY DEF split_line, split_token, split_end, Undefined
  <2>. QED BY <2>1, <2>2 DEF HasProgram
<1>2. Phase = "busy" /\ Phase' \in {"busy", "failed"}
  BY DEF split_line, split_token, split_end, Undefined, Phase
<1>. QED BY <1>1, <1>2 DEF Loop!Next, Loop!Fail, Loop!loopVars

LEMMA ExecuteMaps == ASSUME IInv, lsh_execute PROVE Loop!Next \/ UNCHANGED Loop!loopVars
<1>1. Phase = "busy" /\ ~HasProgram
  BY DEF lsh_execute, IInv, HeapByPlace, Phase, HasProgram
<1>2. CASE execute_inside
  BY <1>1, <1>2 DEF execute_inside, Returns, childVars, Phase, HasProgram, Loop!Next, Loop!Return
<1>3. CASE lsh_exit
  BY <1>1, <1>3 DEF lsh_exit, Returns, childVars, Phase, HasProgram, Loop!Next, Loop!End
<1>4. CASE calc_fault
  BY <1>1, <1>4 DEF calc_fault, Undefined, childVars, Phase, HasProgram, Loop!Next, Loop!Fail
<1>5. CASE fork
  BY <1>1, <1>5
  DEF fork, Returns, childVars, Phase, HasProgram, Loop!Next, Loop!Return, Loop!Start
<1>6. CASE system
  BY <1>1, <1>6 DEF system, childVars, Phase, HasProgram, Loop!Next, Loop!Start
<1>. QED BY <1>2, <1>3, <1>4, <1>5, <1>6 DEF lsh_execute

LEMMA SystemMaps == ASSUME IInv, system_returns PROVE Loop!Next
<1>1. Phase = "waiting" /\ child = "none"
  BY DEF system_returns, IInv, HeapByPlace, Phase
<1>2. Phase' = "ready" /\ HasProgram' = FALSE
  BY <1>1 DEF system_returns, Returns, childVars, Phase, HasProgram
<1>. QED BY <1>1, <1>2 DEF Loop!Next, Loop!Return

LEMMA WaitMaps == ASSUME IInv, waitpid PROVE Loop!Next \/ UNCHANGED Loop!loopVars
<1>1. Phase = "waiting"
  BY DEF waitpid, Phase
<1>2. CASE Ended(status')
  <2>1. Phase' = "ready" /\ ~HasProgram'
    BY <1>2 DEF waitpid, Ended, childVars, Phase, HasProgram
  <2>. QED BY <1>1, <2>1 DEF Loop!Next, Loop!Return, HasProgram
<1>3. CASE ~Ended(status')
  <2>1. UNCHANGED <<Phase, HasProgram>>
    BY <1>3 DEF waitpid, Ended, childVars, Phase, HasProgram
  <2>. QED BY <2>1 DEF Loop!loopVars
<1>. QED BY <1>2, <1>3

LEMMA FreeMaps == ASSUME IInv, free PROVE UNCHANGED Loop!loopVars
BY DEF free, childVars, Phase, HasProgram, Loop!loopVars

LEMMA ChildMaps ==
  ASSUME IInv, execvp \/ ChildRuns PROVE Loop!Next \/ UNCHANGED Loop!loopVars
<1>1. Phase = "waiting" /\ Phase' = "waiting"
  BY DEF execvp, ChildRuns, Ends, Becomes, IInv, HeapByPlace, Phase
<1>2. HasProgram
  BY DEF execvp, ChildRuns, HasProgram
<1>3. HasProgram' \in BOOLEAN
  BY DEF HasProgram
<1>. QED BY <1>1, <1>2, <1>3 DEF Loop!Next, Loop!Vanish, Loop!loopVars, HasProgram

\* The hosted shell implements the command loop: it prompts only when the
\* program it started is gone, zombies counted, and ends only by a command
\* (loop.c:24-59, executor.c:15-58).
THEOREM LoopImplemented == Spec => ImplementsLoop
<1>1. IInv /\ [Next]_vars => [Loop!Next]_Loop!loopVars
  <2>1. UNCHANGED vars => UNCHANGED Loop!loopVars
    BY DEF vars, childVars, Phase, HasProgram, Loop!loopVars
  <2>. QED
    BY <2>1, ReadingMaps, SplittingMaps, ExecuteMaps, SystemMaps, WaitMaps, FreeMaps, ChildMaps
    DEF Next, Proceeds
<1>. QED
  BY <1>1, InitMaps, Invariance, PTL DEF Spec, ImplementsLoop, Loop!Spec
-----------------------------------------------------------------------------
(* The way back to the prompt.                                              *)

\* Once the child has ended, one step ends the wait and the next one prompts.
EndReturns ==
  /\ pc = "wait" /\ child \in {"exited", "signaled"}
       => pc' = "free" /\ stays' = TRUE /\ child' = "none"
  /\ pc = "free" /\ stays = TRUE => pc' = "prompt" /\ held' = {}

\* What PromptReturns needs besides fairness: when the program has ended in
\* either way, no step of anyone leads anywhere but to the prompt, with nothing
\* left on the heap (executor.c:44-52, loop.c:56-59).
THEOREM EndLeadsToPrompt == Spec => [][EndReturns]_vars
<1>1. ASSUME IInv, Next PROVE EndReturns
  <2>1. CASE pc = "wait" /\ child \in {"exited", "signaled"}
    <3>1. waitpid
      BY <1>1, <2>1
      DEF Next, Proceeds, main, read_line, read_char, read_end, split_line, split_token,
          split_end, lsh_execute, system_returns, free, execvp, ChildRuns
    <3>. QED BY <2>1, <3>1 DEF waitpid, Ended, EndReturns
  <2>2. CASE pc = "free" /\ stays = TRUE
    <3>1. child = "none"
      BY <1>1, <2>2 DEF IInv, HeapByPlace
    <3>2. free
      BY <1>1, <2>2, <3>1
      DEF Next, Proceeds, main, read_line, read_char, read_end, split_line, split_token,
          split_end, lsh_execute, system_returns, waitpid, execvp, ChildRuns
    <3>. QED BY <1>1, <2>2, <3>2 DEF free, Freed, EndReturns, IInv, TypeOK
  <2>. QED BY <2>1, <2>2 DEF EndReturns
<1>2. IInv /\ [Next]_vars => [EndReturns]_vars
  BY <1>1
<1>. QED BY <1>2, Invariance, PTL DEF Spec
=============================================================================
