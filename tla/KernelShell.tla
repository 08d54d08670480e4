---------------------------- MODULE KernelShell ----------------------------
(***************************************************************************)
(* The commands of the kernel shell that calculate, create and schedule      *)
(* (shell/kernel_shell.c), in front of the process table.                    *)
(*                                                                          *)
(* Enter hands over a line of characters, of which a command's name or any   *)
(* other word that is only compared counts as one.  The command is carried   *)
(* out in the keyboard interrupt: no line arrives before it has returned,    *)
(* which for sched is after its last call of schedule().  The line editor    *)
(* and nikli are in Console, the file commands in FileSystem.                *)
(***************************************************************************)
EXTENDS Process, FiniteSets, Sequences, SequencesExt

CONSTANTS
  IntMax,            \* the largest int, 2^31 - 1
  SCHED_MAX,         \* the most calls of schedule() one command makes, 64
  KSHELL_MAX_TOKENS,
  dummy_process,     \* the entry point every process gets
  Lines              \* what may be typed before Enter

MIN_INT == -IntMax - 1
Ints    == MIN_INT .. IntMax
SPACE   == " "

ASSUME KernelShellAssumption ==
  /\ IntMax \in Nat /\ IntMax >= 5  \* the default burst is an int
  /\ SCHED_MAX \in 1 .. IntMax
  /\ KSHELL_MAX_TOKENS \in Nat \ {0}
  /\ dummy_process \in Funcs
  /\ Ints \subseteq Bursts \cap ParentPids
  /\ 1 .. SCHED_MAX \subseteq Batches
  /\ Lines \subseteq Seq(STRING)
  /\ MAX_PROCESSES < StatModulus

VARIABLE reply  \* what the last command printed, and of calc its words too

shellVars == <<vars, reply>>

-----------------------------------------------------------------------------
(* Numbers.  int arithmetic that overflows is undefined; the build wraps,    *)
(* and of the smallest int it prints the sign, with or without a last digit. *)

Wrap(n) == ((n - MIN_INT) % (2 * (IntMax + 1))) + MIN_INT

Digits == <<"0", "1", "2", "3", "4", "5", "6", "7", "8", "9">>

DigitValue(c) == (CHOOSE d \in 1 .. 10 : Digits[d] = c) - 1

LeadingDigits(s) ==
  LET other == SelectInSeq(s, LAMBDA c : c \notin ToSet(Digits))
  IN  IF other = 0 THEN s ELSE SubSeq(s, 1, other - 1)

katoi_Unsigned(s) ==  \* faulty: the sign is skipped and forgotten
  FoldLeft(LAMBDA value, c : Wrap(value * 10 + DigitValue(c)), 0,
           LeadingDigits(IF Head(s) = "-" THEN Tail(s) ELSE s))

katoi(s) ==
  LET negative == Head(s) = "-"
      value == FoldLeft(LAMBDA v, c : Wrap(v * 10 + DigitValue(c)), 0,
                        LeadingDigits(IF negative THEN Tail(s) ELSE s))
  IN  Wrap(IF negative THEN -value ELSE value)

Decimal[n \in Nat] ==
  IF n < 10 THEN <<Digits[n + 1]>>
            ELSE Append(Decimal[n \div 10], Digits[(n % 10) + 1])

print_int(value) ==
  IF value >= 0 THEN {Decimal[value]}
  ELSE IF value > MIN_INT THEN {<<"-">> \o Decimal[-value]}
  ELSE {<<"-">>, <<"-", Digits[(-value % 10) + 1]>>}

\* Division of int truncates; \div does not.
Quotient(x, y) ==
  LET q == (IF x < 0 THEN -x ELSE x) \div (IF y < 0 THEN -y ELSE y)
  IN  IF (x < 0) = (y < 0) THEN q ELSE -q

-----------------------------------------------------------------------------
(* Lines.                                                                   *)

\* Where a word starts and the n-th one does, and where the word at i ends.
Starts(line) ==
  {i \in 1 .. Len(line) : line[i] # SPACE /\ (i = 1 \/ line[i - 1] = SPACE)}

Start(line, n) ==
  CHOOSE i \in Starts(line) : Cardinality({j \in Starts(line) : j <= i}) = n

End(line, i) ==
  CHOOSE j \in i .. Len(line) :
    /\ \A k \in i .. j : line[k] # SPACE
    /\ j = Len(line) \/ line[j + 1] = SPACE

tokenize(line) ==
  LET words == Cardinality(Starts(line))
      argc  == IF words > KSHELL_MAX_TOKENS THEN KSHELL_MAX_TOKENS ELSE words
  IN  [n \in 1 .. argc |-> SubSeq(line, Start(line, n), End(line, Start(line, n)))]

Is(argv, names) == argv # <<>> /\ argv[1] \in {<<name>> : name \in names}

Number(argv, n, default) == IF Len(argv) >= n THEN katoi(argv[n]) ELSE default

Reply(kind, text) == [kind |-> kind, text |-> text, argv |-> <<>>]

Answers(kind, text) == reply' = Reply(kind, text) /\ UNCHANGED vars

\* A fixed text: a format, an unknown word, or nothing for an empty line.
Message == Answers("message", <<>>)

-----------------------------------------------------------------------------
(* calc                                                                     *)

Division_Unguarded(op, y) == op = "/"  \* faulty: no test for zero

Division(op, y) == op = "/" /\ y # 0

\* What the processor divides; the quotient that is no int is an exception,
\* whose gate was never set.
Faults(x, y) == y = 0 \/ (x = MIN_INT /\ y = -1)

Computed(x, op, y) ==
  CASE op = "+" -> Wrap(x + y)
    [] op = "-" -> Wrap(x - y)
    [] op = "*" -> Wrap(x * y)
    [] op = "/" -> Quotient(x, y)

Calculated(argv, kind, text) ==
  reply' = [Reply(kind, text) EXCEPT !.argv = argv] /\ UNCHANGED vars

cmd_calc(argv) ==
  IF Len(argv) < 4
  THEN Message
  ELSE LET x  == katoi(argv[2])
           y  == katoi(argv[4])
           op == argv[3][1]
       IN  \/ /\ op \in {"+", "-", "*"} \/ (Division(op, y) /\ ~Faults(x, y))
              /\ \E text \in print_int(Computed(x, op, y)) :
                   Calculated(argv, "result", text)
           \/ /\ Division(op, y) /\ Faults(x, y)
              /\ Calculated(argv, "fault", <<>>)
           \/ /\ op = "/" /\ ~Division(op, y)
              /\ Calculated(argv, "math_error", <<>>)
           \/ /\ op \notin {"+", "-", "*", "/"}
              /\ Message

-----------------------------------------------------------------------------
(* The process commands.                                                    *)

AtLeast1(n) == IF n < 1 THEN 1 ELSE n

Burst_Unclamped(argv, n, default) == Number(argv, n, default)  \* faulty

Burst(argv, n, default) == AtLeast1(Number(argv, n, default))

\* The report of a creation: the burst, and of a thread the parent.
cmd_mkproc(argv) ==
  LET burst == Burst(argv, 2, 5)
  IN  /\ create_process_burst(dummy_process, burst)
      /\ \E text \in print_int(burst) : reply' = Reply("created", <<text>>)

cmd_mkthr(argv) ==
  \/ /\ Len(argv) < 2
     /\ Message
  \/ /\ Len(argv) >= 2
     /\ LET parent == katoi(argv[2])
            burst  == Burst(argv, 3, 3)
        IN  /\ create_thread(dummy_process, parent, burst)
            /\ \E text \in print_int(burst), under \in print_int(parent) :
                 reply' = Reply("created", <<text, under>>)

cmd_policy(argv) ==
  LET Sets(p) == process_set_policy(p) /\ reply' = Reply("policy", <<p>>)
  IN  \/ /\ Len(argv) < 2
         /\ Answers("policy", <<sched_policy>>)
      \/ /\ Len(argv) >= 2
         /\ \/ argv[2] = <<"rr">> /\ Sets("RR")
            \/ argv[2] \in {<<"srtf">>, <<"psjf">>} /\ Sets("SRTF")
            \/ /\ argv[2] \notin {<<"rr">>, <<"srtf">>, <<"psjf">>}
               /\ Message

\* The counts under the listing; there are none of an empty table.
Counts(listed) ==
  LET Count(thread) == Cardinality({i \in listed : process_table[i].is_thread = thread})
  IN  IF listed = {} THEN <<>>
      ELSE <<[process |-> Count(FALSE), thread |-> Count(TRUE)]>>

process_dump_all_ReadyOnly ==  \* faulty: the running process is not counted
  Counts({i \in Live : process_table[i].state = "READY"})

process_dump_all == Counts(Live)

SchedTimes(n) == IF n > SCHED_MAX THEN SCHED_MAX ELSE AtLeast1(n)

cmd_sched(argv) ==
  /\ process_schedule_times(SchedTimes(Number(argv, 2, 5)))
  /\ reply' = Reply("scheduling", <<>>)

\* Each call of schedule(), and after the last one the figures and the list.
\* Of the figures only that of the completed tasks is kept.
sched_step ==
  /\ ScheduleIteration
  /\ reply' = IF batch_left = 1
              THEN Reply("figures", [completed |-> stat_completed_tasks',
                                     list      |-> process_dump_all'])
              ELSE reply

Entered == {tokenize(line) : line \in Lines}

Commands == {"calc", "sushankhya", "shusankhya", "mkproc", "mkthr", "policy",
             "sched", "proclist", "thlist"}

execute_line(argv) ==
  \/ argv = <<>> /\ Message
  \/ Is(argv, {"calc", "sushankhya", "shusankhya"}) /\ cmd_calc(argv)
  \/ Is(argv, {"mkproc"}) /\ cmd_mkproc(argv)
  \/ Is(argv, {"mkthr"}) /\ cmd_mkthr(argv)
  \/ Is(argv, {"policy"}) /\ cmd_policy(argv)
  \/ Is(argv, {"sched"}) /\ cmd_sched(argv)
  \/ Is(argv, {"proclist", "thlist"}) /\ Answers("list", process_dump_all)
  \/ /\ argv # <<>> /\ ~Is(argv, Commands)
     /\ Message

-----------------------------------------------------------------------------

ShellInit == Init /\ reply = Reply("message", <<>>)

\* After the exception of a division nothing is defined.
ShellNext ==
  /\ reply.kind # "fault"
  /\ \/ batch_left = 0 /\ \E argv \in Entered : execute_line(argv)
     \/ sched_step

ShellSpec == ShellInit /\ [][ShellNext]_shellVars

-----------------------------------------------------------------------------
(* Correctness.                                                             *)

\* How many processes and threads are counted under a listing.
Listed(list) == IF list = <<>> THEN 0 ELSE list[1].process + list[1].thread

\* What proclist and sched print accounts for every process created: it is
\* listed or has been counted as completed, however often the other counters
\* have wrapped since (process.c:14-32, 67-71, 233, 329).
FiguresAgree ==
  /\ reply.kind = "list" => Listed(reply.text) + stat_completed_tasks = process_count
  /\ reply.kind = "figures" =>
       Listed(reply.text.list) + reply.text.completed = process_count

\* 10^n, as a function: the provers know nothing of ^.
Power10[n \in Nat] == IF n = 0 THEN 1 ELSE 10 * Power10[n - 1]

\* The number that digits, and a word with its sign, write down, whatever its size.
Value(digits) ==
  SumFunction([i \in 1 .. Len(digits) |->
                 DigitValue(digits[i]) * Power10[Len(digits) - i]])

Written(word) ==
  IF Head(word) = "-" THEN -Value(LeadingDigits(Tail(word)))
                      ELSE Value(LeadingDigits(word))

Exact(x, op, y, r) ==
  \/ op = "+" /\ r = x + y
  \/ op = "-" /\ r = x - y
  \/ op = "*" /\ r = x * y
  \/ /\ op = "/" /\ y # 0
     /\ r * y \in (IF x < 0 THEN x .. 0 ELSE 0 .. x)
     /\ x - r * y \in (IF y < 0 THEN y + 1 .. -y - 1 ELSE -y + 1 .. y - 1)

\* What calc prints of two ints is the exact result, rounded towards zero, if
\* that is an int but not the smallest one; Math Error means a zero divisor and
\* nothing else (kernel_shell.c:134-163).
CalcRight ==
  reply.kind \in {"result", "math_error"} =>
    LET x  == Written(reply.argv[2])
        op == reply.argv[3][1]
        y  == Written(reply.argv[4])
    IN  x \in Ints /\ y \in Ints =>
          /\ reply.kind = "math_error" <=> (op = "/" /\ y = 0)
          /\ \A r \in Ints \ {MIN_INT} :
               Exact(x, op, y, r) => Written(reply.text) = r

\* No line can stop the machine but a division of the smallest int by -1, or by
\* what overflows to them: calc's test for zero leaves just that one case of
\* the processor's exception (kernel_shell.c:150-154).
FaultOnlyAtMin ==
  reply.kind = "fault" =>
    /\ reply.argv[3][1] = "/"
    /\ (Written(reply.argv[2]) - MIN_INT) % (2 * (IntMax + 1)) = 0
    /\ (Written(reply.argv[4]) + 1) % (2 * (IntMax + 1)) = 0

\* Every new entry of the table has been reported, with the numbers that are in
\* it: the shell and process.c each limit the burst, and the report is of what the
\* shell passes on.  The one number that cannot be read back is the smallest int,
\* which a parent may be (kernel_shell.c:197-231, process.c:119-152).
CreatedAsReported ==
  [][process_count' > process_count =>
       LET new == process_table'[process_count]
       IN  /\ reply'.kind = "created"
           /\ Written(reply'.text[1]) = new.burst_ticks
           /\ new.is_thread <=> Len(reply'.text) = 2
           /\ new.is_thread /\ new.parent_pid # MIN_INT =>
                Written(reply'.text[2]) = new.parent_pid]_vars

\* "Create one process (default burst 5)" (kernel_shell.c:127): when the shell
\* reports a process or thread created with a burst, the newest entry of the
\* table is that one.
ReportedIsNewest ==
  reply.kind = "created" =>
    /\ process_count > 0
    /\ Written(reply.text[1]) = process_table[process_count - 1].burst_ticks
=============================================================================
