--------------------------- MODULE ProcessProofs ---------------------------
(***************************************************************************)
(* Theorems about the process table and the scheduler, and about how often   *)
(* round robin passes over a waiting process, for every table size, every    *)
(* burst and every counter width.                                            *)
(***************************************************************************)
EXTENDS RoundRobin, Induction

\* The inductive invariant: each part needs the others, because a step finds
\* the entry to charge through current_index and the one to fill through
\* process_count.
IInv == TypeOK /\ RunningIsCurrent /\ SlotsFilledInOrder /\ LiveHasWork

-----------------------------------------------------------------------------
(* What a call of schedule() has done to the table before it elects.        *)

\* unsigned arithmetic stays within the width of the counters.
LEMMA BumpInRange ==
  ASSUME NEW n \in 0 .. StatModulus - 1
  PROVE  /\ Bump(n) \in 0 .. StatModulus - 1
         /\ n < StatModulus - 1 => Bump(n) = n + 1
BY ProcessAssumption, SMT DEF Bump

\* A charged and demoted entry is no longer running, keeps its identity and
\* has work left exactly if it is ready.
LEMMA TickOfRunning ==
  ASSUME NEW p \in PCB, p.state = "RUNNING", p.remaining_ticks > 0
  PROVE  LET q == demote_running(run_current_tick(p))
         IN  /\ q \in PCB
             /\ q.state \in {"READY", "UNUSED"}
             /\ q.state = "UNUSED" <=> q.remaining_ticks = 0
             /\ q.remaining_ticks = p.remaining_ticks - 1
             /\ run_current_tick(p).state = "UNUSED" <=> q.state = "UNUSED"
             /\ q.pid = p.pid
             /\ q.burst_ticks = p.burst_ticks
             /\ q.is_thread = p.is_thread
             /\ q.parent_pid = p.parent_pid
PROOF
<1> DEFINE left == p.remaining_ticks - 1
           t == run_current_tick(p)
           q == demote_running(t)
<1>1. p.remaining_ticks \in Nat /\ left \in Nat
  BY SMT DEF PCB
<1>2. t = [p EXCEPT !.remaining_ticks = left,
                    !.state = IF left <= 0 THEN "UNUSED" ELSE @]
  BY <1>1 DEF run_current_tick
<1> HIDE DEF left
<1>3. /\ t.state = IF left <= 0 THEN "UNUSED" ELSE "RUNNING"
      /\ t.remaining_ticks = left
      /\ t.pid = p.pid
      /\ t.burst_ticks = p.burst_ticks
      /\ t.is_thread = p.is_thread
      /\ t.parent_pid = p.parent_pid
      /\ t \in PCB
  BY <1>1, <1>2, Zenon DEF PCB, ProcessState
<1> HIDE DEF t
<1>4. /\ q.state = IF left <= 0 THEN "UNUSED" ELSE "READY"
      /\ q.remaining_ticks = left
      /\ q.pid = p.pid
      /\ q.burst_ticks = p.burst_ticks
      /\ q.is_thread = p.is_thread
      /\ q.parent_pid = p.parent_pid
      /\ q \in PCB
  BY <1>3, Zenon DEF PCB, ProcessState, demote_running
<1>5. left = p.remaining_ticks - 1 /\ (left <= 0 <=> left = 0)
  BY <1>1, SMT DEF left
<1> HIDE DEF q
<1> QED  BY <1>3, <1>4, <1>5 DEF q, t

\* The table and the index the policy function finds: nobody runs, the other
\* entries are untouched, and the whole invariant but for the running entry
\* holds already.
LEMMA Ticked ==
  ASSUME IInv
  PROVE  /\ TickedTable \in [Slots -> PCB]
         /\ TickedIndex \in {-1} \cup UsedSlots
         /\ \A i \in Slots :
              LET p == process_table[i]
                  q == TickedTable[i]
              IN  /\ q.state \in {"READY", "UNUSED"}
                  /\ q.state = "UNUSED" <=> q.remaining_ticks = 0
                  /\ q.remaining_ticks <= p.remaining_ticks
                  /\ q.pid = p.pid
                  /\ q.burst_ticks = p.burst_ticks
                  /\ q.is_thread = p.is_thread
                  /\ q.parent_pid = p.parent_pid
                  /\ p.state # "RUNNING" => q = p
         /\ current_index # -1 => CurrentRuns
         /\ TickedIndex # current_index => CurrentCompletes
PROOF
<1> USE DEF IInv, TypeOK, RunningIsCurrent, SlotsFilledInOrder, LiveHasWork
<1>1. UsedSlots \subseteq Slots
  BY ProcessAssumption, SMT DEF UsedSlots, Slots
<1>2. \A i \in Slots : process_table[i] \in PCB
  OBVIOUS
<1>3. current_index # -1 => CurrentRuns
  <2>1. SUFFICES ASSUME current_index # -1
                 PROVE  CurrentRuns
    OBVIOUS
  <2>2. process_table[current_index].state = "RUNNING"
    BY <2>1
  <2>3. current_index < process_count
    BY <2>1, <2>2 DEF EmptyPcb
  <2> QED  BY <2>1, <2>2, <2>3, SMT DEF CurrentRuns, UsedSlots, Slots
<1>4. CASE ~CurrentRuns
  <2>1. current_index = -1 /\ TickedTable = process_table /\ TickedIndex = -1
    BY <1>3, <1>4 DEF TickedTable, TickedIndex, CurrentCompletes
  <2>2. \A i \in Slots : process_table[i].state \in {"READY", "UNUSED"}
    BY <1>2, <2>1, SMT DEF PCB, ProcessState, Slots
  <2>3. \A i \in Slots : process_table[i].remaining_ticks \in Nat
    BY <1>2 DEF PCB
  <2>4. ASSUME NEW i \in Slots
        PROVE  /\ process_table[i].state \in {"READY", "UNUSED"}
               /\ process_table[i].state = "UNUSED"
                    <=> process_table[i].remaining_ticks = 0
               /\ process_table[i].remaining_ticks <= process_table[i].remaining_ticks
    BY <2>2, <2>3
  <2>5. TickedTable \in [Slots -> PCB] /\ TickedIndex \in {-1} \cup UsedSlots
    BY <2>1
  <2>6. TickedIndex # current_index => CurrentCompletes
    BY <2>1
  <2> QED  BY <1>3, <2>1, <2>4, <2>5, <2>6
<1>5. CASE CurrentRuns
  <2> DEFINE c == current_index
             q == demote_running(run_current_tick(process_table[c]))
  <2>1. c \in Slots /\ c \in UsedSlots
    BY <1>1, <1>5 DEF CurrentRuns
  <2>2. process_table[c].state = "RUNNING" /\ process_table[c].remaining_ticks > 0
    BY <1>2, <1>5, <2>1, SMT DEF CurrentRuns, PCB
  <2>3. TickedTable = [process_table EXCEPT ![c] = q]
    BY <1>5 DEF TickedTable
  <2> HIDE DEF q
  <2>4. /\ q \in PCB
        /\ q.state \in {"READY", "UNUSED"}
        /\ q.state = "UNUSED" <=> q.remaining_ticks = 0
        /\ q.remaining_ticks = process_table[c].remaining_ticks - 1
        /\ q.pid = process_table[c].pid
        /\ q.burst_ticks = process_table[c].burst_ticks
        /\ q.is_thread = process_table[c].is_thread
        /\ q.parent_pid = process_table[c].parent_pid
    BY <1>2, <2>1, <2>2, TickOfRunning DEF q
  <2>5. TickedTable \in [Slots -> PCB]
    BY <2>3, <2>4
  <2>6. TickedIndex \in {-1} \cup UsedSlots
    BY <2>1 DEF TickedIndex
  <2>7. ASSUME NEW i \in Slots
        PROVE  LET p == process_table[i]
                   r == TickedTable[i]
               IN  /\ r.state \in {"READY", "UNUSED"}
                   /\ r.state = "UNUSED" <=> r.remaining_ticks = 0
                   /\ r.remaining_ticks <= p.remaining_ticks
                   /\ r.pid = p.pid
                   /\ r.burst_ticks = p.burst_ticks
                   /\ r.is_thread = p.is_thread
                   /\ r.parent_pid = p.parent_pid
                   /\ p.state # "RUNNING" => r = p
    <3>1. CASE i = c
      <4>1. TickedTable[i] = q
        BY <2>1, <2>3, <3>1
      <4>2. q.remaining_ticks <= process_table[i].remaining_ticks
        BY <1>2, <2>1, <2>4, <3>1, SMT DEF PCB
      <4> QED  BY <2>2, <2>4, <3>1, <4>1, <4>2
    <3>2. CASE i # c
      <4>1. TickedTable[i] = process_table[i]
        BY <2>3, <3>2
      <4>2. process_table[i].state \in {"READY", "UNUSED"}
        BY <1>2, <3>2, SMT DEF PCB, ProcessState
      <4>3. process_table[i].remaining_ticks \in Nat
        BY <1>2 DEF PCB
      <4> QED  BY <4>1, <4>2, <4>3
    <3> QED  BY <3>1, <3>2
  <2>8. TickedIndex # current_index => CurrentCompletes
    BY DEF TickedIndex
  <2> QED  BY <1>3, <2>5, <2>6, <2>7, <2>8
<1> QED  BY <1>4, <1>5

-----------------------------------------------------------------------------
(* The invariant, operation by operation.                                   *)

LEMMA InitIInv == Init => IInv
PROOF
<1> SUFFICES ASSUME Init PROVE IInv
  OBVIOUS
<1> USE DEF Init
<1>1. EmptyPcb \in PCB /\ EmptyPcb.state = "UNUSED" /\ EmptyPcb.remaining_ticks = 0
      /\ EmptyPcb.burst_ticks = 0
  BY DEF EmptyPcb, PCB, ProcessState
<1>2. TypeOK
  BY <1>1, ProcessAssumption, SMT DEF TypeOK, SchedPolicy
<1>3. RunningIsCurrent
  BY <1>1, SMT DEF RunningIsCurrent, Slots
<1>4. SlotsFilledInOrder
  BY SMT DEF SlotsFilledInOrder, Slots
<1>5. LiveHasWork
  BY <1>1, SMT DEF LiveHasWork
<1> QED  BY <1>2, <1>3, <1>4, <1>5 DEF IInv

\* The entry a creation writes is ready, has at least one tick and the next pid.
LEMMA NewPcbReady ==
  ASSUME IInv, NEW thread \in BOOLEAN, NEW parent \in Int, NEW burst \in Int
  PROVE  LET p == NewPcb(thread, parent, burst)
         IN  /\ p \in PCB
             /\ p.pid = next_pid
             /\ p.state = "READY"
             /\ p.remaining_ticks > 0
             /\ p.remaining_ticks = p.burst_ticks
PROOF
<1>1. ClampBurst(burst) \in Nat /\ ClampBurst(burst) > 0
  BY SMT DEF ClampBurst
<1>2. next_pid \in Nat
  BY DEF IInv, TypeOK
<1> QED  BY <1>1, <1>2, Zenon DEF NewPcb, PCB, ProcessState

LEMMA AddEntryIInv ==
  ASSUME IInv, NEW func, NEW pcb \in PCB,
         pcb.pid = next_pid, pcb.state = "READY",
         pcb.remaining_ticks > 0, pcb.remaining_ticks = pcb.burst_ticks,
         AddEntry(func, pcb)
  PROVE  IInv'
PROOF
<1> USE DEF IInv
<1>1. CASE UNCHANGED tableVars
  BY <1>1 DEF AddEntry, tableVars, statVars, TypeOK, RunningIsCurrent,
              SlotsFilledInOrder, LiveHasWork
<1>2. CASE /\ process_count < MAX_PROCESSES
           /\ process_table' = [process_table EXCEPT ![process_count] = pcb]
           /\ process_count' = process_count + 1
           /\ next_pid' = next_pid + 1
  <2>0. UNCHANGED <<current_index, sched_policy, statVars, batch_left>>
    BY DEF AddEntry
  <2>1. process_count \in Slots
    BY <1>2, ProcessAssumption, SMT DEF TypeOK, Slots
  <2>2. process_table[process_count] = EmptyPcb
    BY <2>1, SMT DEF SlotsFilledInOrder, TypeOK
  <2>3. process_count # current_index
    BY <2>1, <2>2 DEF RunningIsCurrent, EmptyPcb
  <2>4. /\ process_table'[process_count] = pcb
        /\ \A i \in Slots \ {process_count} : process_table'[i] = process_table[i]
    BY <1>2, <2>1 DEF TypeOK
  <2>5. TypeOK'
    <3>1. process_table' \in [Slots -> PCB]
      BY <1>2, <2>1 DEF TypeOK
    <3>2. process_count' \in 0 .. MAX_PROCESSES /\ next_pid' \in Nat
      BY <1>2, ProcessAssumption, SMT DEF TypeOK
    <3> QED  BY <2>0, <3>1, <3>2 DEF TypeOK, statVars
  <2>6. RunningIsCurrent'
    BY <2>0, <2>3, <2>4 DEF RunningIsCurrent
  <2>7. SlotsFilledInOrder'
    BY <1>2, <2>1, <2>4, SMT DEF SlotsFilledInOrder, TypeOK, Slots
  <2>8. LiveHasWork'
    BY <2>4, SMT DEF LiveHasWork, PCB
  <2> QED  BY <2>5, <2>6, <2>7, <2>8
<1> QED  BY <1>1, <1>2 DEF AddEntry

\* schedule(): the election sets the state and the index of the same entry.
LEMMA ScheduleIInv ==
  ASSUME IInv, ScheduleIteration
  PROVE  IInv'
PROOF
<1> USE DEF IInv
<1>0. /\ UNCHANGED <<process_count, next_pid, sched_policy>>
      /\ batch_left' \in Nat
  BY SMT DEF ScheduleIteration, schedule, TypeOK
<1>1. UsedSlots \subseteq Slots
  BY ProcessAssumption, SMT DEF UsedSlots, Slots, TypeOK
<1>2. /\ stat_schedule_calls' \in 0 .. StatModulus - 1
      /\ stat_completed_tasks' \in 0 .. StatModulus - 1
      /\ stat_context_switches' \in 0 .. StatModulus - 1
  BY BumpInRange DEF ScheduleIteration, schedule, pick_running, TypeOK
<1>3. CASE \E i \in Ready : pick_running(i)
  <2>1. PICK i \in Ready : pick_running(i)
    BY <1>3
  <2>2. i \in Slots /\ TickedTable[i].state = "READY" /\ i < process_count
    BY <1>1, SMT DEF Ready, UsedSlots, TypeOK
  <2>3. process_table' = [TickedTable EXCEPT ![i].state = "RUNNING"]
        /\ current_index' = i
    BY <2>1 DEF pick_running
  <2>4. \A j \in Slots : TickedTable[j] \in PCB
    BY Ticked
  <2>5. /\ process_table'[i] = [TickedTable[i] EXCEPT !.state = "RUNNING"]
        /\ \A j \in Slots \ {i} : process_table'[j] = TickedTable[j]
    BY <2>2, <2>3, Ticked
  <2>6. /\ process_table'[i] \in PCB
        /\ process_table'[i].state = "RUNNING"
        /\ process_table'[i].pid = TickedTable[i].pid
        /\ process_table'[i].remaining_ticks = TickedTable[i].remaining_ticks
        /\ process_table'[i].burst_ticks = TickedTable[i].burst_ticks
    BY <2>2, <2>4, <2>5 DEF PCB, ProcessState
  <2>7. TypeOK'
    <3>1. process_table' \in [Slots -> PCB]
      BY <2>2, <2>3, <2>4, <2>6, Ticked DEF PCB, ProcessState
    <3> QED  BY <1>0, <1>2, <2>2, <2>3, <3>1 DEF TypeOK
  <2>8. RunningIsCurrent'
    BY <2>3, <2>5, <2>6, Ticked DEF RunningIsCurrent
  <2>9. SlotsFilledInOrder'
    <3>1. ASSUME NEW j \in Slots
          PROVE  process_table'[j].pid = process_table[j].pid
      <4>1. TickedTable[j].pid = process_table[j].pid
        BY Ticked
      <4> QED  BY <2>5, <2>6, <4>1
    <3>2. \A j \in Slots : ~(j < process_count) => process_table'[j] = process_table[j]
      BY <2>2, <2>5, Ticked DEF SlotsFilledInOrder, EmptyPcb
    <3> QED  BY <1>0, <3>1, <3>2 DEF SlotsFilledInOrder
  <2>10. LiveHasWork'
    <3>1. ASSUME NEW j \in Slots
          PROVE  /\ process_table'[j].remaining_ticks = TickedTable[j].remaining_ticks
                 /\ process_table'[j].burst_ticks = process_table[j].burst_ticks
      <4>1. TickedTable[j].burst_ticks = process_table[j].burst_ticks
        BY Ticked
      <4> QED  BY <2>5, <2>6, <4>1
    <3>2. \A j \in Slots : process_table'[j].remaining_ticks
                             <= process_table'[j].burst_ticks
      BY <2>4, <3>1, Ticked, SMT DEF LiveHasWork, TypeOK, PCB
    <3>3. \A j \in Slots :
            /\ process_table'[j].state # "WAITING"
            /\ process_table'[j].state = "UNUSED"
                 <=> process_table'[j].remaining_ticks = 0
      BY <2>2, <2>5, <2>6, <3>1, Ticked
    <3> QED  BY <3>2, <3>3 DEF LiveHasWork
  <2> QED  BY <2>7, <2>8, <2>9, <2>10
<1>4. CASE Ready = {} /\ process_table' = TickedTable /\ current_index' = TickedIndex
  <2>1. \A i \in Slots : TickedTable[i].state = "UNUSED"
    <3>1. \A i \in UsedSlots : TickedTable[i].state = "UNUSED"
      BY <1>1, <1>4, Ticked DEF Ready
    <3>2. \A i \in Slots \ UsedSlots : process_table[i] = EmptyPcb
      BY SMT DEF SlotsFilledInOrder, UsedSlots, Slots, TypeOK
    <3>3. \A i \in Slots \ UsedSlots : TickedTable[i].state = "UNUSED"
      BY <3>2, Ticked DEF EmptyPcb
    <3> QED  BY <3>1, <3>3
  <2>2. current_index' = -1
    <3>1. CASE CurrentCompletes
      BY <1>4, <3>1 DEF TickedIndex
    <3>2. CASE ~CurrentCompletes
      <4>1. current_index' = current_index
        BY <1>4, <3>2 DEF TickedIndex
      <4>2. ASSUME current_index # -1 PROVE FALSE
        <5> DEFINE p == process_table[current_index]
                   q == demote_running(run_current_tick(p))
        <5>1. CurrentRuns
          BY <4>2, Ticked
        <5>2. current_index \in Slots /\ p \in PCB /\ p.state = "RUNNING"
          BY <1>1, <5>1 DEF CurrentRuns, TypeOK
        <5>3. p.remaining_ticks > 0
          BY <5>2, SMT DEF LiveHasWork, PCB
        <5>4. TickedTable[current_index] = q
          BY <5>1, <5>2 DEF TickedTable, TypeOK
        <5>5. q.state # "UNUSED"
          BY <3>2, <5>1, <5>2, <5>3, TickOfRunning DEF CurrentCompletes
        <5> QED  BY <2>1, <5>2, <5>4, <5>5
      <4> QED  BY <4>1, <4>2
    <3> QED  BY <3>1, <3>2
  <2>3. TypeOK'
    BY <1>0, <1>2, <1>4, <2>2, Ticked DEF TypeOK
  <2>4. RunningIsCurrent'
    BY <1>4, <2>1, <2>2, SMT DEF RunningIsCurrent, Slots
  <2>5. SlotsFilledInOrder'
    BY <1>0, <1>4, Ticked DEF SlotsFilledInOrder, EmptyPcb
  <2>6. LiveHasWork'
    <3>1. \A j \in Slots : TickedTable[j].remaining_ticks <= TickedTable[j].burst_ticks
      BY Ticked, SMT DEF LiveHasWork, TypeOK, PCB
    <3> QED  BY <1>4, <2>1, <3>1, Ticked DEF LiveHasWork
  <2> QED  BY <2>3, <2>4, <2>5, <2>6
<1> QED  BY <1>3, <1>4 DEF ScheduleIteration, schedule

LEMMA NextIInv == IInv /\ [Next]_vars => IInv'
PROOF
<1> SUFFICES ASSUME IInv, [Next]_vars PROVE IInv'
  OBVIOUS
<1>1. ASSUME NEW func \in Funcs \cup {NULL}, create_process(func)
      PROVE  IInv'
  <2>1. AddEntry(func, NewPcb(FALSE, 0, 5))
    BY <1>1 DEF create_process, create_process_burst
  <2> DEFINE p == NewPcb(FALSE, 0, 5)
  <2>2. /\ p \in PCB /\ p.pid = next_pid /\ p.state = "READY"
        /\ p.remaining_ticks > 0 /\ p.remaining_ticks = p.burst_ticks
    <3>1. FALSE \in BOOLEAN /\ 0 \in Int /\ 5 \in Int
      OBVIOUS
    <3> QED  BY <1>1, <2>1, <3>1, NewPcbReady, Zenon
  <2> HIDE DEF p
  <2> QED  BY <2>1, <2>2, AddEntryIInv DEF p
<1>2. ASSUME NEW func \in Funcs \cup {NULL}, NEW burst \in Bursts,
             create_process_burst(func, burst) \/ create_process_prio(func, burst)
      PROVE  IInv'
  <2>1. burst \in Int /\ AddEntry(func, NewPcb(FALSE, 0, burst))
    BY <1>2, ProcessAssumption DEF create_process_burst, create_process_prio
  <2> DEFINE p == NewPcb(FALSE, 0, burst)
  <2>2. /\ p \in PCB /\ p.pid = next_pid /\ p.state = "READY"
        /\ p.remaining_ticks > 0 /\ p.remaining_ticks = p.burst_ticks
    <3>1. FALSE \in BOOLEAN /\ 0 \in Int /\ 5 \in Int
      OBVIOUS
    <3> QED  BY <1>2, <2>1, <3>1, NewPcbReady, Zenon
  <2> HIDE DEF p
  <2> QED  BY <2>1, <2>2, AddEntryIInv DEF p
<1>3. ASSUME NEW func \in Funcs \cup {NULL}, NEW burst \in Bursts,
             NEW parent \in ParentPids, create_thread(func, parent, burst)
      PROVE  IInv'
  <2>1. /\ burst \in Int /\ parent \in Int
        /\ AddEntry(func, NewPcb(TRUE, parent, burst))
    BY <1>3, ProcessAssumption DEF create_thread
  <2> DEFINE p == NewPcb(TRUE, parent, burst)
  <2>2. /\ p \in PCB /\ p.pid = next_pid /\ p.state = "READY"
        /\ p.remaining_ticks > 0 /\ p.remaining_ticks = p.burst_ticks
    BY <1>3, <2>1, NewPcbReady
  <2> HIDE DEF p
  <2> QED  BY <2>1, <2>2, AddEntryIInv DEF p
<1>4. ASSUME NEW times \in Batches, process_schedule_times(times)
      PROVE  IInv'
  BY <1>4, ProcessAssumption
  DEF process_schedule_times, IInv, TypeOK, RunningIsCurrent, SlotsFilledInOrder,
      LiveHasWork, tableVars, statVars
<1>5. CASE ScheduleIteration
  BY <1>5, ScheduleIInv
<1>6. ASSUME NEW p, process_set_policy(p)
      PROVE  IInv'
  BY <1>6
  DEF process_set_policy, IInv, TypeOK, RunningIsCurrent, SlotsFilledInOrder,
      LiveHasWork, tableVars, statVars
<1>7. CASE process_reset_all
  <2>1. EmptyPcb \in PCB /\ EmptyPcb.state = "UNUSED" /\ EmptyPcb.remaining_ticks = 0
        /\ EmptyPcb.burst_ticks = 0
    BY DEF EmptyPcb, PCB, ProcessState
  <2>2. \A i \in Slots : process_table'[i] = EmptyPcb
    BY <1>7 DEF process_reset_all
  <2>3. TypeOK'
    BY <1>7, <2>1, ProcessAssumption, SMT
    DEF process_reset_all, statVars, IInv, TypeOK
  <2>4. RunningIsCurrent'
    BY <1>7, <2>1, <2>2, SMT DEF process_reset_all, RunningIsCurrent, Slots
  <2>5. SlotsFilledInOrder'
    BY <1>7, <2>2, SMT DEF process_reset_all, SlotsFilledInOrder, Slots
  <2>6. LiveHasWork'
    BY <2>1, <2>2, SMT DEF LiveHasWork
  <2> QED  BY <2>3, <2>4, <2>5, <2>6 DEF IInv
<1>8. CASE sched_stats_reset
  BY <1>8, ProcessAssumption, SMT
  DEF sched_stats_reset, IInv, TypeOK, RunningIsCurrent, SlotsFilledInOrder,
      LiveHasWork, tableVars
<1>9. CASE UNCHANGED vars
  BY <1>9 DEF vars, tableVars, statVars, IInv, TypeOK, RunningIsCurrent,
              SlotsFilledInOrder, LiveHasWork
<1> QED
  BY <1>1, <1>2, <1>3, <1>4, <1>5, <1>6, <1>7, <1>8, <1>9 DEF Next

\* The scheduler's invariant, from which the theorems below follow.
THEOREM Invariance == Spec => []IInv
BY InitIInv, NextIInv, PTL DEF Spec

-----------------------------------------------------------------------------

\* Every variable keeps its type: in particular the scan never meets an index
\* outside the table.
THEOREM TypeCorrect == Spec => []TypeOK
BY Invariance, PTL DEF IInv

\* At most one process runs, and it is the one current_index names.
THEOREM OneRunner == Spec => []RunningIsCurrent
BY Invariance, PTL DEF IInv

\* Entries are never handed out twice and every pid tells its entry.
THEOREM PidsTellSlots == Spec => []SlotsFilledInOrder
BY Invariance, PTL DEF IInv

\* A process is in the table exactly as long as it has ticks left.
THEOREM WorkIsLeft == Spec => []LiveHasWork
BY Invariance, PTL DEF IInv

\* An election under a non-empty ready set leaves a running process; an empty
\* one means that nobody is left.
LEMMA ElectsIfAny ==
  ASSUME IInv, ScheduleIteration
  PROVE  /\ Live' = Ready
         /\ Live' # {} => /\ current_index' \in Ready
                          /\ current_index' # -1
                          /\ Elects(current_index')
         /\ \A i \in Slots : process_table'[i].remaining_ticks
                                = TickedTable[i].remaining_ticks
PROOF
<1>1. UsedSlots' = UsedSlots /\ UsedSlots \subseteq Slots /\ -1 \notin UsedSlots
  BY ProcessAssumption, SMT
  DEF ScheduleIteration, schedule, UsedSlots, Slots, IInv, TypeOK
<1>2. \A i \in UsedSlots : TickedTable[i].state \in {"READY", "UNUSED"}
  BY <1>1, Ticked
<1>3. \A i \in Slots : TickedTable[i] \in PCB
  BY Ticked
<1>4. CASE \E i \in Ready : Elects(i) /\ pick_running(i)
  <2>1. PICK i \in Ready : Elects(i) /\ pick_running(i)
    BY <1>4
  <2>2. i \in Slots /\ i \in UsedSlots
    BY <1>1 DEF Ready
  <2>3. /\ process_table'[i] = [TickedTable[i] EXCEPT !.state = "RUNNING"]
        /\ \A j \in Slots \ {i} : process_table'[j] = TickedTable[j]
        /\ current_index' = i
    BY <2>1, <2>2, Ticked DEF pick_running
  <2>4. /\ process_table'[i].state = "RUNNING"
        /\ process_table'[i].remaining_ticks = TickedTable[i].remaining_ticks
    BY <1>3, <2>2, <2>3 DEF PCB
  <2>5. Live' = Ready
    BY <1>1, <1>2, <2>1, <2>2, <2>3, <2>4 DEF Live, Ready
  <2> QED  BY <1>1, <2>1, <2>2, <2>3, <2>4, <2>5
<1>5. CASE Ready = {} /\ process_table' = TickedTable
  <2>1. Live' = {}
    BY <1>1, <1>2, <1>5 DEF Live, Ready
  <2> QED  BY <1>5, <2>1
<1> QED  BY <1>4, <1>5 DEF ScheduleIteration, schedule

\* No other step lowers batch_left.
LEMMA OnlyIterationsCount ==
  ASSUME IInv, [Next]_vars, batch_left' < batch_left
  PROVE  ScheduleIteration
PROOF
<1>1. batch_left \in Nat
  BY DEF IInv, TypeOK
<1>2. \A times \in Batches : ~process_schedule_times(times)
  BY <1>1, ProcessAssumption, SMT DEF process_schedule_times
<1>3. batch_left' # batch_left
  BY <1>1, SMT
<1> QED
  BY <1>2, <1>3 DEF Next, vars, create_process, create_process_burst,
     create_process_prio, create_thread, AddEntry, process_set_policy,
     process_reset_all, sched_stats_reset

\* The processor is idle after a call of schedule() only if no process is left,
\* under both policies.
THEOREM NeverIdleWithWork == Spec => WorkConserving
PROOF
<1>1. IInv /\ [Next]_vars =>
        [batch_left' < batch_left => (Live' # {} => current_index' # -1)]_vars
  BY OnlyIterationsCount, ElectsIfAny
<1> QED  BY <1>1, Invariance, PTL DEF Spec, WorkConserving

\* Under SRTF no live process is shorter than the one just elected.
THEOREM ShortestRuns == Spec => SRTFShortest
PROOF
<1>1. ASSUME IInv, ScheduleIteration, sched_policy = "SRTF", NEW i \in Live'
      PROVE  process_table'[current_index'].remaining_ticks
               <= process_table'[i].remaining_ticks
  <2> DEFINE c == current_index'
  <2>1. i \in Ready /\ c \in Ready /\ Elects(c)
    BY <1>1, ElectsIfAny
  <2>2. i \in Slots /\ c \in Slots
    BY <1>1, <2>1, ProcessAssumption, SMT DEF Ready, UsedSlots, Slots, IInv, TypeOK
  <2>3. schedule_srtf(c)
    BY <1>1, <2>1 DEF Elects
  <2>4. TickedTable[i].remaining_ticks \in Nat /\ TickedTable[c].remaining_ticks \in Nat
    BY <1>1, <2>2, Ticked DEF PCB
  <2>5. TickedTable[c].remaining_ticks <= TickedTable[i].remaining_ticks
    BY <2>1, <2>3, <2>4 DEF schedule_srtf
  <2> QED  BY <1>1, <2>2, <2>5, ElectsIfAny
<1>2. IInv /\ [Next]_vars =>
        [batch_left' < batch_left /\ sched_policy = "SRTF" =>
           \A i \in Live' : process_table'[current_index'].remaining_ticks
                               <= process_table'[i].remaining_ticks]_vars
  BY <1>1, OnlyIterationsCount
<1> QED  BY <1>2, Invariance, PTL DEF Spec, SRTFShortest

\* Until the first counter wraps, the figures of sched_stats_print agree.
THEOREM StatsAgree == Spec /\ []NoWrap => []StatsAccount
PROOF
<1>1. Init => StatsAccount
  BY SMT DEF Init, StatsAccount
<1>2. ASSUME IInv, NoWrap, StatsAccount, ScheduleIteration
      PROVE  StatsAccount'
  <2>0. /\ stat_schedule_calls \in Nat /\ stat_context_switches \in Nat
        /\ stat_completed_tasks \in Nat /\ StatModulus \in Nat
    BY <1>2, ProcessAssumption, SMT DEF IInv, TypeOK
  <2>1. /\ Bump(stat_schedule_calls) = stat_schedule_calls + 1
        /\ Bump(stat_context_switches) = stat_context_switches + 1
        /\ Bump(stat_completed_tasks) = stat_completed_tasks + 1
    BY <1>2, <2>0, BumpInRange, SMT DEF IInv, TypeOK, NoWrap, StatsAccount
  <2>2. /\ stat_schedule_calls' = stat_schedule_calls + 1
        /\ stat_completed_tasks' = IF CurrentCompletes THEN stat_completed_tasks + 1
                                                      ELSE stat_completed_tasks
    BY <1>2, <2>1 DEF ScheduleIteration, schedule
  <2>3. CurrentCompletes => current_index # -1 /\ TickedIndex = -1
    BY <1>2, SMT DEF CurrentCompletes, CurrentRuns, TickedIndex, UsedSlots, IInv, TypeOK
  <2>4. ~CurrentCompletes => TickedIndex = current_index
    BY DEF TickedIndex
  <2>5. CASE \E i \in Ready : pick_running(i)
    <3>1. PICK i \in Ready : pick_running(i)
      BY <2>5
    <3>2. /\ current_index' = i /\ i # -1
          /\ stat_context_switches' = IF TickedIndex # i THEN stat_context_switches + 1
                                                        ELSE stat_context_switches
      BY <1>2, <2>1, <3>1, SMT DEF pick_running, Ready, UsedSlots, IInv, TypeOK
    <3> QED  BY <1>2, <2>0, <2>2, <2>3, <2>4, <3>2, SMT DEF StatsAccount
  <2>6. CASE current_index' = TickedIndex /\ UNCHANGED stat_context_switches
    BY <1>2, <2>0, <2>2, <2>3, <2>4, <2>6, SMT DEF StatsAccount
  <2> QED  BY <1>2, <2>5, <2>6 DEF ScheduleIteration, schedule
<1>3. ASSUME IInv, StatsAccount, [Next]_vars, ~ScheduleIteration
      PROVE  StatsAccount'
  <2>0. /\ stat_schedule_calls \in Nat /\ stat_context_switches \in Nat
        /\ stat_completed_tasks \in Nat
    BY <1>3, ProcessAssumption, SMT DEF IInv, TypeOK
  <2>1. CASE UNCHANGED <<current_index, statVars>>
    BY <1>3, <2>1 DEF StatsAccount, statVars
  <2>2. CASE process_reset_all
    BY <1>3, <2>0, <2>2, SMT DEF process_reset_all, StatsAccount, statVars
  <2>3. CASE sched_stats_reset
    BY <1>3, <2>3, SMT DEF sched_stats_reset, StatsAccount
  <2> QED
    BY <1>3, <2>1, <2>2, <2>3 DEF Next, vars, statVars, create_process,
       create_process_burst, create_process_prio, create_thread, AddEntry,
       process_schedule_times, process_set_policy
<1>4. IInv /\ NoWrap /\ StatsAccount /\ [Next]_vars => StatsAccount'
  BY <1>2, <1>3
<1> QED  BY <1>1, <1>4, Invariance, PTL DEF Spec

\* A pid names one process for ever; what has completed never runs again.
THEOREM PidsAreForGood == Spec => ProcessesOnlyProgress
PROOF
<1> DEFINE Kept(i) ==
      LET p == process_table[i]
          q == process_table'[i]
      IN  /\ <<p.pid, p.burst_ticks, p.is_thread, p.parent_pid>>
                = <<q.pid, q.burst_ticks, q.is_thread, q.parent_pid>>
          /\ q.remaining_ticks <= p.remaining_ticks
          /\ p.state = "UNUSED" => q = p
<1>1. ASSUME IInv, NEW i \in Slots
      PROVE  process_table'[i] = process_table[i] => Kept(i)
  BY <1>1, SMT DEF IInv, TypeOK, PCB
<1>2. ASSUME IInv, ScheduleIteration, NEW i \in UsedSlots
      PROVE  Kept(i)
  <2>1. i \in Slots
    BY <1>2, ProcessAssumption, SMT DEF UsedSlots, Slots, IInv, TypeOK
  <2> DEFINE t == TickedTable[i]
             n == process_table'[i]
  <2>2. /\ t \in PCB
        /\ t.remaining_ticks <= process_table[i].remaining_ticks
        /\ t.pid = process_table[i].pid
        /\ t.burst_ticks = process_table[i].burst_ticks
        /\ t.is_thread = process_table[i].is_thread
        /\ t.parent_pid = process_table[i].parent_pid
        /\ process_table[i].state = "UNUSED" => t = process_table[i]
    BY <1>2, <2>1, Ticked
  <2>3. n = t \/ (t.state = "READY" /\ n = [t EXCEPT !.state = "RUNNING"])
    BY <1>2, <2>1, Ticked DEF ScheduleIteration, schedule, pick_running, Ready
  <2> HIDE DEF t, n
  <2>4. /\ n.remaining_ticks = t.remaining_ticks
        /\ n.pid = t.pid
        /\ n.burst_ticks = t.burst_ticks
        /\ n.is_thread = t.is_thread
        /\ n.parent_pid = t.parent_pid
    BY <2>2, <2>3, Zenon DEF PCB
  <2>5. process_table[i].state = "UNUSED" => n = process_table[i]
    BY <2>2, <2>3
  <2> QED  BY <2>2, <2>4, <2>5 DEF n
<1>3. ASSUME IInv, Next, ~ScheduleIteration, next_pid' >= next_pid,
             NEW i \in UsedSlots
      PROVE  Kept(i)
  <2>1. i \in Slots /\ i # process_count /\ process_count # 0
    BY <1>3, ProcessAssumption, SMT DEF UsedSlots, Slots, IInv, TypeOK
  <2>2. ~process_reset_all
    BY <1>3, <2>1, SMT DEF process_reset_all, IInv, TypeOK, SlotsFilledInOrder
  <2>3. process_table'[i] = process_table[i]
    BY <1>3, <2>1, <2>2 DEF Next, create_process, create_process_burst,
       create_process_prio, create_thread, AddEntry, tableVars, IInv, TypeOK,
       process_schedule_times, process_set_policy, sched_stats_reset
  <2> QED  BY <1>1, <1>3, <2>1, <2>3
<1>4. IInv /\ [Next]_vars =>
        [next_pid' >= next_pid => \A i \in UsedSlots : Kept(i)]_vars
  BY <1>2, <1>3
<1> QED  BY <1>4, Invariance, PTL DEF Spec, ProcessesOnlyProgress

-----------------------------------------------------------------------------
(* The ticks of the whole table.                                            *)

\* A call takes a tick from the running entry and from no other, whichever
\* entry it elects.
LEMMA OneTickTaken ==
  ASSUME IInv, ScheduleIteration
  PROVE  \A i \in Slots : process_table'[i].remaining_ticks
           = process_table[i].remaining_ticks - (IF i = current_index THEN 1 ELSE 0)
PROOF
<1> SUFFICES ASSUME NEW i \in Slots
             PROVE  TickedTable[i].remaining_ticks
               = process_table[i].remaining_ticks - (IF i = current_index THEN 1 ELSE 0)
  BY ElectsIfAny
<1> DEFINE p == process_table[i]
           q == demote_running(run_current_tick(p))
<1>1. p \in PCB /\ p.remaining_ticks \in Nat
  BY DEF IInv, TypeOK, PCB
<1>2. CASE i = current_index
  <2>1. CurrentRuns /\ p.state = "RUNNING"
    BY <1>2, Ticked, ProcessAssumption, SMT DEF Slots, IInv, RunningIsCurrent
  <2>2. p.remaining_ticks > 0
    BY <1>1, <2>1, SMT DEF IInv, LiveHasWork
  <2>3. TickedTable[i] = q
    BY <1>2, <2>1 DEF TickedTable, IInv, TypeOK
  <2> HIDE DEF p
  <2>4. q.remaining_ticks = p.remaining_ticks - 1
    BY <1>1, <2>1, <2>2, TickOfRunning
  <2> QED  BY <1>2, <2>3, <2>4 DEF p
<1>3. CASE i # current_index
  <2>1. p.state # "RUNNING"
    BY <1>3 DEF IInv, RunningIsCurrent
  <2>2. TickedTable[i] = p
    BY <2>1, Ticked
  <2> HIDE DEF p
  <2>3. p.remaining_ticks = p.remaining_ticks - 0
    BY <1>1, SMT
  <2> QED  BY <1>3, <2>2, <2>3 DEF p
<1> QED  BY <1>2, <1>3

\* No tick is lost or charged twice: a call of schedule() takes one from the
\* total exactly when a process was running, under both policies.
THEOREM NoTickLost == Spec => TicksCharged
PROOF
<1>1. ASSUME IInv, IInv', ScheduleIteration
      PROVE  TotalRemaining' = TotalRemaining - (IF current_index = -1 THEN 0 ELSE 1)
  <2> DEFINE f == [i \in Slots |-> process_table[i].remaining_ticks]
             h == [i \in Slots |-> process_table'[i].remaining_ticks]
  <2>1. f \in [Slots -> Int] /\ h \in [Slots -> Int]
    <3>1. \A i \in Slots : /\ process_table[i].remaining_ticks \in Int
                           /\ process_table'[i].remaining_ticks \in Int
      BY <1>1 DEF IInv, TypeOK, PCB
    <3> QED  BY <3>1
  <2>2. IsFiniteSet(Slots)
    BY ProcessAssumption, FS_Interval DEF Slots
  <2>3. \A i \in Slots : h[i] = f[i] - (IF i = current_index THEN 1 ELSE 0)
    BY <1>1, OneTickTaken
  <2>4. TotalRemaining = SumFunction(f) /\ TotalRemaining' = SumFunction(h)
    BY DEF TotalRemaining
  <2> HIDE DEF f, h
  <2>5. SumFunction(f) \in Int
    BY <2>1, <2>2, SumIsInt
  <2>6. CASE current_index = -1
    <3>1. \A i \in Slots : i # current_index
      BY <2>6, ProcessAssumption, SMT DEF Slots
    <3>2. \A i \in Slots : h[i] = f[i]
      BY <2>1, <2>3, <3>1
    <3>3. h = f
      BY <2>1, <3>2
    <3> QED  BY <2>4, <2>5, <2>6, <3>3
  <2>7. CASE current_index # -1
    <3> DEFINE c == current_index
    <3>1. c \in Slots
      BY <1>1, <2>7 DEF IInv, TypeOK
    <3>2. \A j \in Slots \ {c} : h[j] = f[j]
      BY <2>1, <2>3
    <3>3. h[c] = f[c] - 1 /\ f[c] \in Int
      BY <2>1, <2>3, <3>1
    <3>4. SumFunction(h) = SumFunction(f) + h[c] - f[c]
      BY <2>1, <2>2, <3>1, <3>2, SumChanges
    <3> QED  BY <2>4, <2>5, <2>7, <3>3, <3>4
  <2> QED  BY <2>6, <2>7
<1>2. IInv /\ IInv' /\ [Next]_vars =>
        [batch_left' < batch_left =>
           TotalRemaining' =
             TotalRemaining - (IF current_index = -1 THEN 0 ELSE 1)]_vars
  BY <1>1, OnlyIterationsCount
<1> QED  BY <1>2, Invariance, PTL DEF Spec, TicksCharged

\* The calls that are left of a batch are enough: one may go to the first
\* election, each of the others charges a tick.
Enough ==
  \/ TotalRemaining = 0
  \/ batch_left > TotalRemaining
  \/ batch_left = TotalRemaining /\ current_index # -1

TotalOK == TotalRemaining \in Nat /\ (Live = {} => TotalRemaining = 0)

\* The ticks left are a natural number, and none when no process is left.
LEMMA TotalType == IInv => TotalOK
PROOF
<1> SUFFICES ASSUME IInv
             PROVE  TotalOK
  OBVIOUS
<1> DEFINE f == [i \in Slots |-> process_table[i].remaining_ticks]
<1>1. TotalRemaining = SumFunction(f)
  BY DEF TotalRemaining
<1>2. IsFiniteSet(Slots)
  BY ProcessAssumption, FS_Interval DEF Slots
<1>3. f \in [Slots -> Nat]
  <2>1. \A i \in Slots : process_table[i].remaining_ticks \in Nat
    BY DEF IInv, TypeOK, PCB
  <2> QED  BY <2>1
<1>4. ASSUME Live = {}, NEW i \in Slots
      PROVE  f[i] = 0
  <2>1. process_table[i].state = "UNUSED"
    <3>1. CASE i \in UsedSlots
      BY <1>4, <3>1 DEF Live
    <3>2. CASE i \notin UsedSlots
      <4>1. ~(i < process_count)
        BY <3>2, ProcessAssumption, SMT DEF Slots, UsedSlots, IInv, TypeOK
      <4>2. process_table[i] = EmptyPcb
        BY <4>1, Zenon DEF IInv, SlotsFilledInOrder
      <4> QED  BY <4>2 DEF EmptyPcb
    <3> QED  BY <3>1, <3>2
  <2>2. process_table[i].remaining_ticks = 0
    BY <2>1 DEF IInv, LiveHasWork
  <2> QED  BY <2>2
<1> HIDE DEF f
<1>5. SumFunction(f) \in Nat
  BY <1>2, <1>3, SumIsNat
<1>6. IntValued(f, Slots)
  BY <1>3 DEF IntValued
<1>7. Live = {} => SumFunction(f) = 0
  BY <1>2, <1>4, <1>6, SumOfZeros
<1> QED  BY <1>1, <1>5, <1>7 DEF TotalOK

\* `sched n' with n above the ticks left: at every call of the batch the calls
\* left are enough, so when the last one returns every process has completed,
\* under either policy.
THEOREM LongBatchEmpties ==
  Spec => [][batch_left > 0 /\ Enough =>
               Enough' /\ (batch_left' = 0 => TotalRemaining' = 0)]_vars
PROOF
<1>1. ASSUME IInv, IInv', ScheduleIteration, Enough,
             TotalRemaining' = TotalRemaining - (IF current_index = -1 THEN 0 ELSE 1),
             Live' # {} => current_index' # -1
      PROVE  Enough' /\ (batch_left' = 0 => TotalRemaining' = 0)
  <2>1. TotalRemaining \in Nat
    BY <1>1, TotalType DEF TotalOK
  <2>2. TotalRemaining' \in Nat /\ (Live' = {} => TotalRemaining' = 0)
    <3>1. TotalOK'
      BY <1>1, TotalType, PTL
    <3> QED  BY <3>1 DEF TotalOK
  <2>3. batch_left \in Nat /\ batch_left > 0 /\ batch_left' = batch_left - 1
    BY <1>1 DEF ScheduleIteration, IInv, TypeOK
  <2>4. TotalRemaining' = 0 \/ current_index' # -1
    BY <1>1, <2>2
  <2>5. Enough'
    BY <1>1, <2>1, <2>2, <2>3, <2>4, SMT DEF Enough
  <2>6. batch_left' = 0 => TotalRemaining' = 0
    BY <2>2, <2>5, SMT DEF Enough
  <2> QED  BY <2>5, <2>6
<1>2. ASSUME [Next]_vars, ~ScheduleIteration, ~(batch_left = 0)
      PROVE  UNCHANGED vars
  BY <1>2, Zenon DEF Next, create_process, create_process_burst, create_process_prio,
     create_thread, AddEntry, process_schedule_times, process_set_policy,
     process_reset_all, sched_stats_reset
<1>3. ASSUME UNCHANGED vars
      PROVE  TotalRemaining' = TotalRemaining /\ Enough' = Enough
  BY <1>3 DEF vars, tableVars, Enough, TotalRemaining
<1>4. IInv /\ IInv' /\ [Next]_vars
      /\ [batch_left' < batch_left =>
            TotalRemaining' = TotalRemaining - (IF current_index = -1 THEN 0 ELSE 1)]_vars
      /\ [batch_left' < batch_left => (Live' # {} => current_index' # -1)]_vars
      => [batch_left > 0 /\ Enough =>
            Enough' /\ (batch_left' = 0 => TotalRemaining' = 0)]_vars
  <2> SUFFICES ASSUME IInv, IInv', [Next]_vars, ~ UNCHANGED vars, batch_left > 0, Enough,
                 batch_left' < batch_left =>
                   TotalRemaining' = TotalRemaining - (IF current_index = -1 THEN 0 ELSE 1),
                 batch_left' < batch_left => (Live' # {} => current_index' # -1)
               PROVE  Enough' /\ (batch_left' = 0 => TotalRemaining' = 0)
    BY Zenon
  <2>1. ScheduleIteration
    <3>1. ~(batch_left = 0)
      OBVIOUS
    <3> QED  BY <1>2, <3>1
  <2>2. batch_left' < batch_left
    BY <2>1 DEF ScheduleIteration, IInv, TypeOK
  <2> QED  BY <1>1, <2>1, <2>2
<1> QED  BY <1>4, Invariance, NoTickLost, NeverIdleWithWork, PTL DEF Spec, TicksCharged, WorkConserving

-----------------------------------------------------------------------------
(* Turns.  While i waits, the entries served since then and since the last   *)
(* completion are those the scan has passed: the cyclic interval from i to   *)
(* the running entry.                                                        *)

Passed(i, index, k) ==
  /\ index # -1
  /\ IF i < index THEN i < k /\ k <= index ELSE i < k \/ k <= index

Allowed(i, k) == lapses[i] + (IF Passed(i, current_index, k) THEN 1 ELSE 0)

TurnsOK ==
  /\ turns \in [Slots -> [Slots -> Nat]]
  /\ lapses \in [Slots -> Nat]
  /\ \A i, k \in Slots : IF Waiting(i) THEN turns[i][k] <= Allowed(i, k)
                                       ELSE turns[i][k] = 0

\* The scan that elects e before i lets the interval grow by what it passes,
\* e included, which was not in it.
LEMMA ScanGrows ==
  ASSUME NEW i \in Nat, NEW e \in Nat, NEW c \in Nat, NEW k \in Nat,
         i # c, i # e, ScannedBefore(c, e, i)
  PROVE  /\ ~Passed(i, c, e)
         /\ Passed(i, e, e)
         /\ Passed(i, c, k) => Passed(i, e, k)
BY SMT DEF Passed, ScannedBefore

\* What Record makes of one count.
LEMMA Recorded ==
  ASSUME TurnsOK, Record
  PROVE  /\ turns' \in [Slots -> [Slots -> Nat]]
         /\ lapses' \in [Slots -> Nat]
         /\ \A i, k \in Slots :
              /\ ~Waiting(i)' => turns'[i][k] = 0
              /\ sched_policy # "RR" => turns'[i][k] = 0
              /\ Waiting(i)' /\ sched_policy = "RR"
                   => /\ turns'[i][k] = turns[i][k]
                           + (IF batch_left' < batch_left /\ current_index' = k
                              THEN 1 ELSE 0)
                      /\ lapses'[i] = lapses[i]
                           + (IF batch_left' < batch_left /\ CurrentCompletes
                              THEN 1 ELSE 0)
<1>1. \A i, k \in Slots : turns[i][k] \in Nat /\ lapses[i] \in Nat
  BY DEF TurnsOK
<1>2. \A i \in Slots, n \in Nat, now \in BOOLEAN :
        /\ Count(i, n, now) \in Nat
        /\ ~Waiting(i)' => Count(i, n, now) = 0
        /\ sched_policy # "RR" => Count(i, n, now) = 0
        /\ Waiting(i)' /\ sched_policy = "RR"
             => Count(i, n, now) = n + (IF now THEN 1 ELSE 0)
  BY DEF Count
<1>3. /\ turns' = [i \in Slots |-> [k \in Slots |->
                     Count(i, turns[i][k], batch_left' < batch_left /\ current_index' = k)]]
      /\ lapses' = [i \in Slots |->
                     Count(i, lapses[i], batch_left' < batch_left /\ CurrentCompletes)]
  BY DEF Record
<1>4. \A i, k \in Slots :
        /\ turns'[i][k] = Count(i, turns[i][k], batch_left' < batch_left /\ current_index' = k)
        /\ lapses'[i] = Count(i, lapses[i], batch_left' < batch_left /\ CurrentCompletes)
  BY <1>3
<1>5. ASSUME NEW i \in Slots, NEW k \in Slots
      PROVE  /\ turns'[i][k] \in Nat
             /\ lapses'[i] \in Nat
             /\ ~Waiting(i)' => turns'[i][k] = 0
             /\ sched_policy # "RR" => turns'[i][k] = 0
  <2>. DEFINE now == batch_left' < batch_left /\ current_index' = k
              lapse == batch_left' < batch_left /\ CurrentCompletes
  <2>1. now \in BOOLEAN /\ lapse \in BOOLEAN
    OBVIOUS
  <2>2. turns'[i][k] = Count(i, turns[i][k], now) /\ lapses'[i] = Count(i, lapses[i], lapse)
    BY <1>4
  <2>. HIDE DEF now, lapse
  <2>. QED BY <1>1, <1>2, <2>1, <2>2
<1>6. turns' \in [Slots -> [Slots -> Nat]]
  BY <1>3, <1>5, Zenon
<1>7. lapses' \in [Slots -> Nat]
  BY <1>3, <1>5, Zenon
<1>9. ASSUME NEW i \in Slots, NEW k \in Slots, Waiting(i)', sched_policy = "RR"
      PROVE  /\ turns'[i][k] = turns[i][k]
                   + (IF batch_left' < batch_left /\ current_index' = k THEN 1 ELSE 0)
             /\ lapses'[i] = lapses[i]
                   + (IF batch_left' < batch_left /\ CurrentCompletes THEN 1 ELSE 0)
  <2>. DEFINE now == batch_left' < batch_left /\ current_index' = k
              lapse == batch_left' < batch_left /\ CurrentCompletes
  <2>1. now \in BOOLEAN /\ lapse \in BOOLEAN
    OBVIOUS
  <2>2. turns'[i][k] = Count(i, turns[i][k], now) /\ lapses'[i] = Count(i, lapses[i], lapse)
    BY <1>4
  <2>3. /\ turns'[i][k] = turns[i][k] + (IF now THEN 1 ELSE 0)
        /\ lapses'[i] = lapses[i] + (IF lapse THEN 1 ELSE 0)
    <3>. HIDE DEF now, lapse
    <3>. QED BY <1>1, <1>2, <1>9, <2>1, <2>2
  <2>. QED BY <2>3
<1>. QED BY <1>5, <1>6, <1>7, <1>9

\* An election under round robin that leaves i waiting has passed i over.
LEMMA PassedOver ==
  ASSUME IInv, ScheduleIteration, sched_policy = "RR",
         NEW i \in Slots, Waiting(i)'
  PROVE  /\ current_index' \in Slots /\ current_index' # i
         /\ ScannedBefore(TickedIndex, current_index', i)
<1>1. /\ UNCHANGED process_count /\ UsedSlots \subseteq Slots
      /\ i \in UsedSlots
  BY ProcessAssumption, SMT
  DEF ScheduleIteration, schedule, IInv, TypeOK, UsedSlots, Slots, Waiting
<1>2. i \in Live'
  BY <1>1 DEF Live, UsedSlots, Waiting
<1>3. /\ i \in Ready
      /\ current_index' \in Ready
      /\ Elects(current_index')
  BY <1>2, ElectsIfAny
<1>4. current_index' # i
  <2>1. IInv'
    BY ScheduleIInv
  <2>2. process_table'[i].state # "RUNNING"
    BY DEF Waiting
  <2>. QED BY <2>1, <2>2 DEF IInv, RunningIsCurrent
<1>5. schedule_rr(current_index')
  BY <1>3 DEF Elects
<1>. QED BY <1>1, <1>3, <1>4, <1>5 DEF schedule_rr, Ready

LEMMA ElectionKeepsTurns ==
  ASSUME IInv, TurnsOK, ScheduleIteration, Record, sched_policy = "RR",
         NEW i \in Slots, NEW k \in Slots, Waiting(i)'
  PROVE  turns'[i][k] <= Allowed(i, k)'
<1>. DEFINE e == current_index'
<1>1. batch_left' < batch_left
  BY SMT DEF ScheduleIteration, IInv, TypeOK
<1>2. /\ e \in Slots /\ e # i
      /\ ScannedBefore(TickedIndex, e, i)
  BY PassedOver
<1>3. /\ turns[i][k] \in Nat /\ lapses[i] \in Nat
      /\ turns'[i][k] = turns[i][k] + (IF e = k THEN 1 ELSE 0)
      /\ lapses'[i] = lapses[i] + (IF CurrentCompletes THEN 1 ELSE 0)
  BY <1>1, Recorded DEF TurnsOK
<1>4. /\ i \in Nat /\ k \in Nat /\ e \in Nat
      /\ current_index \in Nat \cup {-1}
  BY <1>2, SMT DEF Slots, IInv, TypeOK
<1>5. turns[i][k] <= lapses[i] + (IF Passed(i, current_index, k) THEN 1 ELSE 0)
  BY <1>3, SMT DEF TurnsOK, Allowed
<1>6. Passed(i, e, e)
  BY <1>4, SMT DEF Passed
<1>7. CASE CurrentCompletes
  BY <1>3, <1>4, <1>5, <1>6, <1>7, SMT DEF Allowed
<1>8. CASE ~CurrentCompletes
  <2>1. TickedIndex = current_index
    BY <1>8 DEF TickedIndex
  <2>2. CASE ~Waiting(i)
    <3>1. turns[i][k] = 0
      BY <2>2 DEF TurnsOK
    <3>. QED BY <1>3, <1>6, <1>8, <3>1, SMT DEF Allowed
  <2>3. CASE current_index = -1
    BY <1>3, <1>5, <1>6, <1>8, <2>3, SMT DEF Allowed, Passed
  <2>4. CASE Waiting(i) /\ current_index # -1
    <3>1. i # current_index
      BY <2>4 DEF Waiting, IInv, RunningIsCurrent
    <3>2. /\ ~Passed(i, current_index, e)
          /\ Passed(i, current_index, k) => Passed(i, e, k)
      BY <1>2, <1>4, <2>1, <2>4, <3>1, ScanGrows
    <3>. QED BY <1>3, <1>5, <1>6, <1>8, <3>2, SMT DEF Allowed
  <2>. QED BY <2>2, <2>3, <2>4
<1>. QED BY <1>7, <1>8

LEMMA OtherStepsKeepTurns ==
  ASSUME IInv, TurnsOK, Next, ~(batch_left' < batch_left), Record,
         NEW i \in Slots, NEW k \in Slots, Waiting(i)'
  PROVE  turns'[i][k] <= Allowed(i, k)'
<1>1. /\ turns[i][k] \in Nat /\ lapses[i] \in Nat
      /\ turns[i][k] <= lapses[i] + (IF Passed(i, current_index, k) THEN 1 ELSE 0)
  BY SMT DEF TurnsOK, Allowed
<1>2. lapses'[i] \in Nat
  BY Recorded
<1>3. CASE sched_policy # "RR"
  BY <1>2, <1>3, Recorded, SMT DEF Allowed
<1>4. CASE sched_policy = "RR"
  <2>1. turns'[i][k] = turns[i][k] /\ lapses'[i] = lapses[i]
    BY <1>1, <1>4, Recorded, SMT
  <2>2. ~ScheduleIteration
    BY SMT DEF ScheduleIteration, IInv, TypeOK
  <2>3. ~process_reset_all
    BY DEF process_reset_all, Waiting, EmptyPcb
  <2>4. current_index' = current_index
    BY <2>2, <2>3 DEF Next, create_process, create_process_burst, create_process_prio,
       create_thread, AddEntry, process_schedule_times, process_set_policy, sched_stats_reset
  <2>. QED BY <1>1, <2>1, <2>4, SMT DEF Allowed
<1>. QED BY <1>3, <1>4

LEMMA StepKeepsTurns == IInv /\ TurnsOK /\ [RRNext]_rrVars => TurnsOK'
<1>1. ASSUME IInv, TurnsOK, RRNext PROVE TurnsOK'
  <2>1. Next /\ Record
    BY <1>1 DEF RRNext
  <2>2. ASSUME NEW i \in Slots, NEW k \in Slots
        PROVE  IF Waiting(i)' THEN turns'[i][k] <= Allowed(i, k)' ELSE turns'[i][k] = 0
    <3>1. CASE ~Waiting(i)'
      BY <1>1, <2>1, <3>1, Recorded
    <3>2. CASE Waiting(i)' /\ ~(batch_left' < batch_left)
      BY <1>1, <2>1, <3>2, OtherStepsKeepTurns
    <3>3. CASE Waiting(i)' /\ batch_left' < batch_left /\ sched_policy = "RR"
      <4>1. ScheduleIteration
        BY <1>1, <2>1, <3>3, OnlyIterationsCount
      <4>. QED BY <1>1, <2>1, <3>3, <4>1, ElectionKeepsTurns
    <3>4. CASE Waiting(i)' /\ sched_policy # "RR"
      <4>1. turns'[i][k] = 0 /\ lapses'[i] \in Nat
        BY <1>1, <2>1, <3>4, Recorded
      <4>. QED BY <3>4, <4>1, SMT DEF Allowed
    <3>. QED BY <3>1, <3>2, <3>3, <3>4
  <2>3. turns' \in [Slots -> [Slots -> Nat]] /\ lapses' \in [Slots -> Nat]
    BY <1>1, <2>1, Recorded
  <2>. QED BY <2>2, <2>3 DEF TurnsOK
<1>2. ASSUME TurnsOK, UNCHANGED rrVars PROVE TurnsOK'
  BY <1>2 DEF TurnsOK, Allowed, Waiting, rrVars, vars, tableVars
<1>. QED BY <1>1, <1>2

\* Under round robin every other process gets at most one turn while one waits,
\* and one more for each completion (process.c:70, 74-88), however the policy
\* is changed and processes are added meanwhile.
THEOREM PassedOverBounded == RRSpec => []BypassBounded
<1>1. RRInit => IInv /\ TurnsOK
  <2>1. RRInit => TurnsOK
    BY ProcessAssumption, SMT
    DEF RRInit, Init, TurnsOK, NoTurns, NoLapses, Waiting, Slots
  <2>. QED BY <2>1, InitIInv DEF RRInit
<1>2. IInv /\ TurnsOK /\ [RRNext]_rrVars => IInv' /\ TurnsOK'
  BY StepKeepsTurns, NextIInv DEF RRNext, rrVars
<1>3. TurnsOK => BypassBounded
  <2>. SUFFICES ASSUME TurnsOK, NEW i \in Slots, NEW k \in Slots
                PROVE  turns[i][k] <= 1 + lapses[i]
    BY DEF BypassBounded
  <2>1. turns[i][k] \in Nat /\ lapses[i] \in Nat
    BY DEF TurnsOK
  <2>. QED BY <2>1, SMT DEF TurnsOK, Allowed
<1>. QED BY <1>1, <1>2, <1>3, PTL DEF RRSpec
=============================================================================
