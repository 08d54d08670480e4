------------------------------ MODULE Process ------------------------------
(***************************************************************************)
(* The process table and the scheduler of Khukhuri OS (process/process.c,   *)
(* include/process.h).                                                      *)
(*                                                                          *)
(* The kernel never switches stacks: a process is an entry of a fixed       *)
(* table with a number of ticks left, and one call of schedule() charges a  *)
(* tick to the running entry and elects the next one.  Every operation is   *)
(* called by the shell inside the keyboard interrupt, with interrupts off,  *)
(* so each call is one step; only the loop of process_schedule_times is     *)
(* taken apart, one step per iteration.                                     *)
(*                                                                          *)
(* Left out of the PCB: priority, which is a copy of burst_ticks, and       *)
(* entry_point, which nothing ever calls.                                   *)
(***************************************************************************)
EXTENDS Integers, Functions

CONSTANTS
  MAX_PROCESSES, \* entries of process_table
  Funcs,         \* entry points a caller may pass
  NULL,          \* the null entry point
  Bursts,        \* burst_ticks a caller may pass, values below 1 included
  ParentPids,    \* parent_pid a caller may pass to create_thread
  Batches,       \* iteration counts of process_schedule_times
  StatModulus    \* the statistics are unsigned long: 2^32 in the build

ASSUME ProcessAssumption ==
  /\ MAX_PROCESSES \in Nat \ {0}
  /\ NULL \notin Funcs
  /\ Bursts \subseteq Int
  /\ ParentPids \subseteq Int
  /\ Batches \subseteq Nat
  /\ StatModulus \in Nat \ {0}

VARIABLES
  process_table,
  process_count,         \* entries handed out; never lowered but by a reset
  next_pid,
  current_index,         \* the running entry, or -1
  sched_policy,
  stat_schedule_calls,
  stat_context_switches,
  stat_completed_tasks,
  batch_left             \* iterations process_schedule_times has still to do

tableVars == <<process_table, process_count, next_pid>>
statVars  == <<stat_schedule_calls, stat_context_switches, stat_completed_tasks>>
vars == <<tableVars, current_index, sched_policy, statVars, batch_left>>

-----------------------------------------------------------------------------

Slots        == 0 .. MAX_PROCESSES - 1
ProcessState == {"UNUSED", "READY", "RUNNING", "WAITING"}
SchedPolicy  == {"RR", "SRTF"}

PCB ==
  [pid             : Nat,
   state           : ProcessState,
   burst_ticks     : Nat,
   remaining_ticks : Nat,
   is_thread       : BOOLEAN,
   parent_pid      : Int]

\* A zeroed entry: the initial memory image, and what process_reset_all writes.
EmptyPcb ==
  [pid |-> 0, state |-> "UNUSED", burst_ticks |-> 0, remaining_ticks |-> 0,
   is_thread |-> FALSE, parent_pid |-> 0]

\* The entries in use are those below process_count that have not completed.
UsedSlots == 0 .. process_count - 1
Live      == {i \in UsedSlots : process_table[i].state # "UNUSED"}

\* unsigned arithmetic of the three counters
Bump(n) == (n + 1) % StatModulus

Init ==
  /\ process_table = [i \in Slots |-> EmptyPcb]
  /\ process_count = 0
  /\ next_pid = 1
  /\ current_index = -1
  /\ sched_policy = "RR"
  /\ stat_schedule_calls = 0
  /\ stat_context_switches = 0
  /\ stat_completed_tasks = 0
  /\ batch_left = 0

-----------------------------------------------------------------------------
(* Creation.  A request with no entry point, or with the table used up, is  *)
(* dropped without a result.                                                *)

ClampBurst(burst) == IF burst < 1 THEN 1 ELSE burst

NewPcb(thread, parent, burst) ==
  [pid |-> next_pid, state |-> "READY",
   burst_ticks |-> ClampBurst(burst), remaining_ticks |-> ClampBurst(burst),
   is_thread |-> thread, parent_pid |-> parent]

AddEntry(func, pcb) ==
  /\ batch_left = 0
  /\ \/ /\ process_count < MAX_PROCESSES
        /\ func # NULL
        /\ process_count' = process_count + 1
        /\ process_table' = [process_table EXCEPT ![process_count] = pcb]
        /\ next_pid' = next_pid + 1
     \/ /\ process_count >= MAX_PROCESSES \/ func = NULL
        /\ UNCHANGED tableVars
  /\ UNCHANGED <<current_index, sched_policy, statVars, batch_left>>

create_process_burst(func, burst) == AddEntry(func, NewPcb(FALSE, 0, burst))

create_thread(func, parent, burst) == AddEntry(func, NewPcb(TRUE, parent, burst))

create_process(func) == create_process_burst(func, 5)

create_process_prio(func, priority) == create_process_burst(func, priority)

-----------------------------------------------------------------------------
(* schedule(): charge the running entry a tick, demote it, elect the next.  *)

CurrentRuns_NotSlot0 ==  \* faulty: current_index > 0 for current_index >= 0
  /\ current_index \in UsedSlots \ {0}
  /\ process_table[current_index].state = "RUNNING"

CurrentRuns ==
  /\ current_index \in UsedSlots
  /\ process_table[current_index].state = "RUNNING"

run_current_tick_OneLate(p) ==  \* faulty: completes below 0, not at 0
  [p EXCEPT !.remaining_ticks = IF @ > 0 THEN @ - 1 ELSE @,
            !.state = IF p.remaining_ticks = 0 THEN "UNUSED" ELSE @]

run_current_tick_KeepsLast(p) ==  \* faulty: the last tick is never charged
  [p EXCEPT !.remaining_ticks = IF @ > 1 THEN @ - 1 ELSE @]

run_current_tick(p) ==
  LET left == IF p.remaining_ticks > 0 THEN p.remaining_ticks - 1
                                       ELSE p.remaining_ticks
  IN  [p EXCEPT !.remaining_ticks = left,
                !.state = IF left <= 0 THEN "UNUSED" ELSE @]

demote_running_Never(p) == p  \* faulty: the call is missing

demote_running(p) ==
  IF p.state = "RUNNING" THEN [p EXCEPT !.state = "READY"] ELSE p

CurrentCompletes ==
  /\ CurrentRuns
  /\ run_current_tick(process_table[current_index]).state = "UNUSED"

\* The table and the index as the policy function finds them.
TickedTable ==
  IF CurrentRuns
  THEN [process_table EXCEPT ![current_index] = demote_running(run_current_tick(@))]
  ELSE process_table

TickedIndex == IF CurrentCompletes THEN -1 ELSE current_index

Ready_NotLast ==  \* faulty: the scan stops one entry short
  {i \in UsedSlots : TickedTable[i].state = "READY" /\ i # process_count - 1}

Ready_AnyState == UsedSlots  \* faulty: the state is not tested

Ready == {i \in UsedSlots : TickedTable[i].state = "READY"}

\* The cyclic scan from the entry after `index' reaches i no later than j.
ScannedBefore(index, i, j) ==
  \/ i > index /\ j <= index
  \/ (i > index <=> j > index) /\ i <= j

schedule_rr_FromZero(i) == \A j \in Ready : i <= j  \* faulty: no cursor

schedule_rr(i) == \A j \in Ready : ScannedBefore(TickedIndex, i, j)

schedule_srtf_Burst(i) ==  \* faulty: the whole burst is compared
  \A j \in Ready :
    \/ TickedTable[i].burst_ticks < TickedTable[j].burst_ticks
    \/ /\ TickedTable[i].burst_ticks = TickedTable[j].burst_ticks
       /\ TickedTable[i].pid <= TickedTable[j].pid

schedule_srtf(i) ==
  \A j \in Ready :
    \/ TickedTable[i].remaining_ticks < TickedTable[j].remaining_ticks
    \/ /\ TickedTable[i].remaining_ticks = TickedTable[j].remaining_ticks
       /\ TickedTable[i].pid <= TickedTable[j].pid

Elects(i) ==
  CASE sched_policy = "SRTF" -> schedule_srtf(i)
    [] OTHER                 -> schedule_rr(i)

pick_running(i) ==
  /\ process_table' = [TickedTable EXCEPT ![i].state = "RUNNING"]
  /\ current_index' = i
  /\ stat_context_switches' =
       IF TickedIndex # i THEN Bump(stat_context_switches)
                          ELSE stat_context_switches

schedule ==
  /\ stat_schedule_calls' = Bump(stat_schedule_calls)
  /\ stat_completed_tasks' =
       IF CurrentCompletes THEN Bump(stat_completed_tasks)
                           ELSE stat_completed_tasks
  /\ \/ \E i \in Ready : Elects(i) /\ pick_running(i)
     \/ /\ Ready = {}
        /\ process_table' = TickedTable
        /\ current_index' = TickedIndex
        /\ UNCHANGED stat_context_switches
  /\ UNCHANGED <<process_count, next_pid, sched_policy>>

\* The loop of process_schedule_times, entered and then iterated.
process_schedule_times(times) ==
  /\ batch_left = 0
  /\ batch_left' = times
  /\ UNCHANGED <<tableVars, current_index, sched_policy, statVars>>

ScheduleIteration ==
  /\ batch_left > 0
  /\ batch_left' = batch_left - 1
  /\ schedule

-----------------------------------------------------------------------------

\* A value outside the enumeration is ignored.
process_set_policy(p) ==
  /\ batch_left = 0
  /\ sched_policy' = IF p \in SchedPolicy THEN p ELSE sched_policy
  /\ UNCHANGED <<tableVars, current_index, statVars, batch_left>>

process_reset_all ==
  /\ batch_left = 0
  /\ process_table' = [i \in Slots |-> EmptyPcb]
  /\ process_count' = 0
  /\ next_pid' = 1
  /\ current_index' = -1
  /\ UNCHANGED <<sched_policy, statVars, batch_left>>

sched_stats_reset ==
  /\ batch_left = 0
  /\ stat_schedule_calls' = 0
  /\ stat_context_switches' = 0
  /\ stat_completed_tasks' = 0
  /\ UNCHANGED <<tableVars, current_index, sched_policy, batch_left>>

Next ==
  \/ \E func \in Funcs \cup {NULL} :
       \/ create_process(func)
       \/ \E burst \in Bursts :
            \/ create_process_burst(func, burst)
            \/ create_process_prio(func, burst)
            \/ \E parent \in ParentPids : create_thread(func, parent, burst)
  \/ \E times \in Batches : process_schedule_times(times)
  \/ ScheduleIteration
  \/ \E p \in SchedPolicy \cup {"other"} : process_set_policy(p)
  \/ process_reset_all
  \/ sched_stats_reset

Spec == Init /\ [][Next]_vars

\* The body of the for loop never blocks and nothing else runs before it ends.
FairSpec == Spec /\ WF_vars(ScheduleIteration)

-----------------------------------------------------------------------------
(* Correctness.                                                             *)

TypeOK ==
  /\ process_table \in [Slots -> PCB]
  /\ process_count \in 0 .. MAX_PROCESSES
  /\ next_pid \in Nat
  /\ current_index \in {-1} \cup Slots
  /\ sched_policy \in SchedPolicy
  /\ stat_schedule_calls \in 0 .. StatModulus - 1
  /\ stat_context_switches \in 0 .. StatModulus - 1
  /\ stat_completed_tasks \in 0 .. StatModulus - 1
  /\ batch_left \in Nat

\* The two records of who runs agree: current_index names the one RUNNING
\* entry, and -1 says there is none.  A completion resets one, demote_running
\* the other, pick_running sets both.
RunningIsCurrent ==
  \A i \in Slots : process_table[i].state = "RUNNING" <=> i = current_index

\* Entries are handed out in order and never twice: the pid of a process tells
\* its slot, next_pid and process_count move together over creations that are
\* dropped and over resets, and the entries not handed out are blank.
SlotsFilledInOrder ==
  /\ next_pid = process_count + 1
  /\ \A i \in Slots : IF i < process_count
                      THEN process_table[i].pid = i + 1
                      ELSE process_table[i] = EmptyPcb

\* A process is in the table exactly as long as it has ticks left: none
\* completes early, none lingers with nothing to do, none waits for an event.
LiveHasWork ==
  \A i \in Slots :
    LET p == process_table[i]
    IN  /\ p.state # "WAITING"
        /\ p.state = "UNUSED" <=> p.remaining_ticks = 0
        /\ p.remaining_ticks <= p.burst_ticks

\* The figures sched_stats_print shows are consistent until the first of them
\* wraps: every completion was preceded by a switch to that process, except
\* for the process that ran when the figures were cleared.
NoWrap == stat_schedule_calls < StatModulus - 1

StatsAccount ==
  /\ stat_completed_tasks + (IF current_index = -1 THEN 0 ELSE 1)
       <= stat_context_switches + 1
  /\ stat_context_switches <= stat_schedule_calls
  /\ stat_completed_tasks <= stat_schedule_calls

\* schedule() leaves the processor idle only when no process is left, whatever
\* the policy and wherever the last scan stopped.
WorkConserving ==
  [][batch_left' < batch_left => (Live' # {} => current_index' # -1)]_vars

\* "srtf = preemptive SJF" (kernel_shell.c:183): after every call under that
\* policy no live process has fewer ticks left than the running one, with the
\* tick the call itself has charged taken into account.
SRTFShortest ==
  [][batch_left' < batch_left /\ sched_policy = "SRTF" =>
       \A i \in Live' : process_table'[current_index'].remaining_ticks
                           <= process_table'[i].remaining_ticks]_vars

\* A pid names one process for ever: until the table is reset, an entry keeps
\* its pid, its burst and its parent, its ticks only fall, and once it has
\* completed it never runs again.
ProcessesOnlyProgress ==
  [][next_pid' >= next_pid =>
       \A i \in UsedSlots :
         LET p == process_table[i]
             q == process_table'[i]
         IN  /\ <<p.pid, p.burst_ticks, p.is_thread, p.parent_pid>>
                   = <<q.pid, q.burst_ticks, q.is_thread, q.parent_pid>>
             /\ q.remaining_ticks <= p.remaining_ticks
             /\ p.state = "UNUSED" => q = p]_vars

\* Ticks still to be charged, over the whole table.
TotalRemaining ==
  SumFunction([i \in Slots |-> process_table[i].remaining_ticks])

\* No tick is lost or charged twice: a call takes one from the total exactly
\* when a process was running, whichever process is elected afterwards.
TicksCharged ==
  [][batch_left' < batch_left =>
       TotalRemaining' =
         TotalRemaining - (IF current_index = -1 THEN 0 ELSE 1)]_vars

\* `sched n' with n above the ticks left runs every process to completion,
\* under either policy: one call may go to the first election, the others all
\* charge a tick.
BatchDrains == batch_left > TotalRemaining ~> TotalRemaining = 0
=============================================================================
