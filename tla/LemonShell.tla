----------------------------- MODULE LemonShell -----------------------------
(***************************************************************************)
(* The hosted LemonJuice shell (shell/LemonJuice_Shell): reading a line into *)
(* a growing buffer, splitting it into a growing array, running the command  *)
(* and waiting for the program it starts.                                    *)
(*                                                                          *)
(* Of a line only its length and its words are kept, and a command is one of *)
(* four kinds.  Signals sent to the shell itself end or stop it whatever it  *)
(* does, and are left out.                                                   *)
(***************************************************************************)
EXTENDS Integers

CONSTANTS
  LSH_RL_BUFFSIZE,
  LSH_TOKEN_BUFFSIZE,
  MaxLine  \* bound: characters before a newline

ASSUME LemonShellAssumption ==
  /\ LSH_RL_BUFFSIZE \in Nat \ {0}
  /\ LSH_TOKEN_BUFFSIZE \in Nat \ {0}
  /\ MaxLine \in Nat

VARIABLES
  pc,
  line,     \* pos and buffsize of lsh_read_line, and the words read so far
  tokens,   \* pos and buffsize of lsh_split_line
  held,     \* what the loop has on the heap
  stays,    \* status of shell_loop: what the command returned
  child,    \* the program started
  reported, \* waitpid has told of the last stop
  status,   \* status of launch_shell
  ignored,  \* SIGCHLD was ignored when the shell was started
  at_eof

heapVars  == <<line, tokens, held>>
childVars == <<child, reported, status>>
vars == <<pc, heapVars, stays, childVars, ignored, at_eof>>

-----------------------------------------------------------------------------

NoLine   == [pos |-> 0, buffsize |-> 0, words |-> 0, in_word |-> FALSE]
NoTokens == [pos |-> 0, buffsize |-> 0]

\* A wait status is told apart by WIFEXITED and WIFSIGNALED only.
Statuses == {"exited", "signaled", "stopped"}

Init ==
  /\ pc = "main"
  /\ line = NoLine /\ tokens = NoTokens /\ held = {}
  /\ stays = TRUE
  /\ child = "none" /\ reported = FALSE /\ status = "exited"
  /\ ignored \in BOOLEAN
  /\ at_eof = FALSE

\* A null pointer is used, or a division has no int as its result.
Undefined == pc' = "undefined"

\* The user's name is taken from a record that may be missing.
main ==
  /\ pc = "main"
  /\ pc' = "prompt" \/ Undefined
  /\ UNCHANGED <<heapVars, stays, childVars, ignored, at_eof>>

-----------------------------------------------------------------------------
(* lsh_read_line.  A failing malloc or realloc gives the caller NULL, which  *)
(* it uses.                                                                 *)

read_line ==
  /\ pc = "prompt"
  /\ \/ /\ pc' = "read"
        /\ line' = [NoLine EXCEPT !.buffsize = LSH_RL_BUFFSIZE]
        /\ held' = held \cup {"line"}
     \/ Undefined /\ UNCHANGED <<line, held>>
  /\ UNCHANGED <<tokens, stays, childVars, ignored, at_eof>>

Full_Late(pos, buffsize) == pos > buffsize  \* faulty: > for >=

Full(pos, buffsize) == pos >= buffsize

read_char(delimiter) ==
  /\ pc = "read"
  /\ ~at_eof
  /\ line.pos < MaxLine
  /\ LET pos == line.pos + 1
         new == ~delimiter /\ ~line.in_word
     IN  \E grown \in {0, LSH_RL_BUFFSIZE} :
           /\ grown > 0 <=> Full(pos, line.buffsize)
           /\ line' = [pos |-> pos, buffsize |-> line.buffsize + grown,
                       words |-> line.words + (IF new THEN 1 ELSE 0),
                       in_word |-> ~delimiter]
           /\ pc' = "read" \/ (grown > 0 /\ Undefined)
  /\ UNCHANGED <<tokens, held, stays, childVars, ignored, at_eof>>

\* The end of the input reads as an empty line, now and ever after.
read_end ==
  /\ pc = "read"
  /\ at_eof' \in {at_eof, TRUE}
  /\ pc' = "split"
  /\ UNCHANGED <<heapVars, stays, childVars, ignored>>

-----------------------------------------------------------------------------
(* lsh_split_line.                                                          *)

split_line ==
  /\ pc = "split"
  /\ \/ /\ pc' = "token"
        /\ tokens' = [pos |-> 0, buffsize |-> LSH_TOKEN_BUFFSIZE]
        /\ held' = held \cup {"tokens"}
     \/ Undefined /\ UNCHANGED <<tokens, held>>
  /\ UNCHANGED <<line, stays, childVars, ignored, at_eof>>

split_token ==
  /\ pc = "token"
  /\ tokens.pos < line.words
  /\ \E grown \in {0, LSH_TOKEN_BUFFSIZE} :
       /\ grown > 0 <=> Full(tokens.pos + 1, tokens.buffsize)
       /\ tokens' = [pos |-> tokens.pos + 1, buffsize |-> tokens.buffsize + grown]
       /\ pc' = "token" \/ (grown > 0 /\ Undefined)
  /\ UNCHANGED <<line, held, stays, childVars, ignored, at_eof>>

split_end ==
  /\ pc = "token"
  /\ tokens.pos >= line.words
  /\ pc' = "execute"
  /\ UNCHANGED <<heapVars, stays, childVars, ignored, at_eof>>

-----------------------------------------------------------------------------
(* lsh_execute.                                                             *)

Returns(value) ==
  /\ pc' = "free"
  /\ stays' = value
  /\ UNCHANGED childVars

\* An empty line, a built-in that only prints or changes the directory, a
\* calculation with a format error or a result.
execute_inside == Returns(TRUE)

\* jhalak and samaya: the shell waits inside system() for ls and date, without
\* any promise about them.
system ==
  /\ tokens.pos > 0
  /\ pc' = "system"
  /\ UNCHANGED <<stays, childVars>>

lsh_exit == tokens.pos > 0 /\ Returns(FALSE)

\* The smallest int divided by -1.
calc_fault ==
  /\ tokens.pos >= 4
  /\ Undefined
  /\ UNCHANGED <<stays, childVars>>

fork ==
  /\ tokens.pos > 0
  /\ \/ Returns(TRUE)
     \/ /\ pc' = "wait"
        /\ child' = "forked"
        /\ reported' = FALSE
        /\ status' \in Statuses  \* not initialized
        /\ UNCHANGED stays

lsh_execute ==
  /\ pc = "execute"
  /\ execute_inside \/ system \/ lsh_exit \/ calc_fault \/ fork
  /\ UNCHANGED <<heapVars, ignored, at_eof>>

system_returns ==
  /\ pc = "system"
  /\ Returns(TRUE)
  /\ UNCHANGED <<heapVars, ignored, at_eof>>

-----------------------------------------------------------------------------
(* The program, from fork to its end, and launch_shell's wait for it.        *)

Becomes(state) ==
  /\ child' = state
  /\ reported' = FALSE
  /\ UNCHANGED <<pc, heapVars, stays, status, ignored, at_eof>>

\* With SIGCHLD ignored no status is kept of a program that has ended.
Ends(state) == Becomes(IF ignored THEN "none" ELSE state)

\* Without a program of that name the child exits.
execvp ==
  /\ child = "forked"
  /\ Becomes("running") \/ Ends("exited")

ChildRuns ==
  \/ child = "running" /\ (Ends("exited") \/ Becomes("stopped"))
  \/ child = "stopped" /\ Becomes("running")
  \/ child \in {"forked", "running", "stopped"} /\ Ends("signaled")

Ended_OrStopped(s) == s \in {"exited", "signaled", "stopped"}  \* faulty

Ended_NotSignaled(s) == s = "exited"  \* faulty: WIFSIGNALED is not asked

Ended(s) == s \in {"exited", "signaled"}

\* One call.  It blocks while there is nothing to tell, and fails, leaving the
\* status as it is, when there is no child to wait for.
waitpid ==
  /\ pc = "wait"
  /\ \/ /\ child \in {"exited", "signaled"}
        /\ status' = child
        /\ child' = "none"
        /\ UNCHANGED reported
     \/ /\ child = "stopped" /\ ~reported
        /\ status' = "stopped"
        /\ reported' = TRUE
        /\ UNCHANGED child
     \/ /\ child = "none"
        /\ UNCHANGED childVars
  /\ IF Ended(status') THEN pc' = "free" /\ stays' = TRUE
                       ELSE UNCHANGED <<pc, stays>>
  /\ UNCHANGED <<heapVars, ignored, at_eof>>

-----------------------------------------------------------------------------

Freed_LineOnly == {"line"}  \* faulty: free(args) is missing

Freed == {"line", "tokens"}

free ==
  /\ pc = "free"
  /\ held' = held \ Freed
  /\ pc' = IF stays THEN "prompt" ELSE "done"
  /\ UNCHANGED <<line, tokens, stays, childVars, ignored, at_eof>>

Proceeds ==
  \/ split_line
  \/ split_token
  \/ split_end
  \/ lsh_execute
  \/ waitpid
  \/ free

Next ==
  \/ main
  \/ read_line
  \/ \E delimiter \in BOOLEAN : read_char(delimiter)
  \/ read_end
  \/ Proceeds
  \/ system_returns
  \/ execvp
  \/ ChildRuns

Spec == Init /\ [][Next]_vars

\* Apart from reading, the shell waits for nothing but its child and system().
FairSpec == Spec /\ WF_vars(Proceeds)

-----------------------------------------------------------------------------
(* Correctness.                                                             *)

TypeOK ==
  /\ pc \in {"main", "prompt", "read", "split", "token", "execute", "wait",
             "system", "free", "done", "undefined"}
  /\ line \in [pos : Nat, buffsize : Nat, words : Nat, in_word : BOOLEAN]
  /\ tokens \in [pos : Nat, buffsize : Nat]
  /\ held \subseteq {"line", "tokens"}
  /\ stays \in BOOLEAN
  /\ child \in {"none", "forked", "running", "stopped", "exited", "signaled"}
  /\ reported \in BOOLEAN
  /\ status \in Statuses
  /\ ignored \in BOOLEAN
  /\ at_eof \in BOOLEAN

\* Both growing buffers have room for the next element and for the terminator,
\* which is written after the last test (input.c:32, 96): the test comes after
\* each store, not before it.
InBounds ==
  /\ pc = "read" => line.pos < line.buffsize
  /\ pc = "token" => tokens.pos < tokens.buffsize

\* Every way a command returns, a failed fork and the last one included, leaves
\* nothing of it on the heap, and no piece is released before the program that
\* was started with it is gone (loop.c:56-57).
Released ==
  /\ pc \in {"prompt", "done"} => held = {}
  /\ pc \in {"execute", "wait", "system", "free"} => held = {"line", "tokens"}
  /\ child # "none" => pc = "wait"

Phase ==
  CASE pc \in {"main", "prompt", "read"}     -> "ready"
    [] pc \in {"split", "token", "execute"} -> "busy"
    [] pc \in {"wait", "system"}            -> "waiting"
    [] pc = "free"                          -> IF stays THEN "ready" ELSE "ended"
    [] pc = "done"                          -> "ended"
    [] pc = "undefined"                     -> "failed"

HasProgram == child # "none" \/ pc = "system"

Loop == INSTANCE CommandLoop WITH phase <- Phase, program <- HasProgram

\* The shell is a command loop: stopped, killed, missing and failing programs
\* and an end of the input included, it prompts only when its child is gone,
\* zombies counted, and ends only by nikli.
ImplementsLoop == Loop!Spec

\* A program that has ended, whichever way, brings the prompt back, unless
\* SIGCHLD was ignored: then the status is never written and the loop around
\* waitpid may turn for ever (executor.c:44-52).
PromptReturns ==
  (pc = "wait" /\ child \in {"exited", "signaled"}) ~> pc = "prompt"

\* waitpid() "blocks the parent until the child changes state" and "fills the
\* status" (executor.c:46-48): once the program is gone, the wait for it ends.
WaitEnds == (pc = "wait" /\ child = "none") ~> pc # "wait"
=============================================================================
