----------------------------- MODULE RoundRobin -----------------------------
(***************************************************************************)
(* The scheduler of Process with a record of who is elected while who        *)
(* waits, to say how fair its round robin is.                                *)
(***************************************************************************)
EXTENDS Process

VARIABLES
  turns, \* turns[i][k]: elections of k since i became ready or last ran
  lapses \* lapses[i]: completions since then

rrVars == <<vars, turns, lapses>>

NoTurns == [i \in Slots |-> [k \in Slots |-> 0]]
NoLapses == [i \in Slots |-> 0]

Waiting(i) == i < process_count /\ process_table[i].state = "READY"

RRInit == Init /\ turns = NoTurns /\ lapses = NoLapses

\* One more, for an entry that waits at the end of a step under round robin.
Count(i, n, now) ==
  IF Waiting(i)' /\ sched_policy = "RR" THEN n + (IF now THEN 1 ELSE 0) ELSE 0

Record ==
  LET scheduled == batch_left' < batch_left
  IN  /\ turns' = [i \in Slots |-> [k \in Slots |->
                     Count(i, turns[i][k], scheduled /\ current_index' = k)]]
      /\ lapses' = [i \in Slots |->
                      Count(i, lapses[i], scheduled /\ CurrentCompletes)]

RRNext == Next /\ Record

RRSpec == RRInit /\ [][RRNext]_rrVars

\* The loop of process_schedule_times waits for nothing.
RRFairSpec == RRSpec /\ WF_rrVars(ScheduleIteration /\ Record)

\* While a process waits, every other one gets at most one turn, and one more
\* for each process that completed meanwhile: a completion sends the scan back
\* to the first entry (process.c:70), so the entries before the waiting one may
\* be served again.
BypassBounded ==
  \A i, k \in Slots : turns[i][k] <= 1 + lapses[i]

\* Round robin as the policy's name promises it (process.c:199,
\* kernel_shell.c:126): nobody gets a second turn while another one waits.
RoundRobinTurns ==
  \A i, k \in Slots : turns[i][k] <= 1
=============================================================================
