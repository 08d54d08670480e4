# Khukhuri OS in TLA+

Khukhuri OS is a small 32-bit kernel for a PC: it boots, sets up interrupts,
asks for a PIN and a keyword, and offers a shell with processes, a scheduler
and an in-memory file system. The processes are entries of a table that a
simulated scheduler charges with ticks; no user code runs. Beside it lies a
hosted (Linux) shell, LemonJuice.

This directory holds TLA+ models of the kernel, TLC configurations that check
them on small instances, and theorems about them with TLAPS proofs.

Run one configuration with `tlc -workers 2 -config MCKernel.cfg MCKernel`, one
set of proofs with `tlapm KernelProofs.tla`. `PROJECT.json` lists all of it:
runs, mutants, the source lines of each definition, hazards, findings, theorems.

## 1. The system

    keyboard, timer (hardware)
         | interrupts
         v
    interrupts.asm -> isr.c -> keyboard.c -> console.c --> kernel_shell.c --+--> process.c
                          \                     |   PIN, gate, lockout      +--> filesystem.c -> fat.c
                           -> timer.c           v                           +--> timer.c (ticks)
                                            screen.c <-- printf.c <---------+

The one thing that shapes everything: **after boot, `kernel_main` only halts.**
A command line runs to its end inside the keyboard interrupt, with interrupts
off. There are no locks; the process table, the file system and the console
rely on handlers never nesting.

| component | state | operations | hard about it | what makes it correct |
|---|---|---|---|---|
| Process table, scheduler (`process/process.c`) | 16 entries, `current_index`, `next_pid`, policy, three counters | create, thread, `schedule()` in batches, set policy, reset | running process recorded twice; charge, demote, elect in one call; entries never reused; cursor lost at a completion | one RUNNING entry, the one named by the index; never idle with work left; SRTF picks a shortest; batches drain; waiting is bounded |
| File system (`filesystem/`) | directory of 16, table of block links, data blocks | create, write, read | write gives up in the middle; rewrite drops the old chain; names cut at creation only | chains never shared nor circular; a command does all or nothing; reading gives what was written |
| Console, secure gate (`kernel/console.c`) | state, wrong PINs, line | one key | two files keep a line each; tries count over the session | no way to the shell around the gate; lockout is final; lines stay apart |
| Kernel shell (`shell/kernel_shell.c`) | line | one character, fourteen commands | number conversion at the extremes, fixed buffers | a command is passed on as typed, its outcome reported |
| Boot (`kernel_main`, `kernel_entry.asm`) | how far it is | the calls, in order | order of driver setup and `sti` | no byte lost or stuck before the keyboard is served |
| Interrupts (`idt.c`, `isr.c`, `interrupts.asm`) | masks and state of the 8259A, IF, handler frames | gates, entry, dispatch, acknowledge, `iretd` | nesting, missing acknowledgement, priority | handlers run one at a time, each is acknowledged |
| Keyboard (`drivers/keyboard.c`) | prefix, shift | one scan code | byte left before the controller's restart | every byte is read, whole keys only |
| Timer (`drivers/timer.c`) | `tick` | one tick | competes with the keyboard | ticks do not hold off keys |
| Screen (`drivers/screen.c`) | log of 200 rows, cursor, view, escape state, pointer | `putchar`, scroll, clear, pointer | log moves when full, view lags, backspace crosses rows | display always current; history kept; output visible |
| Heap (`memory/memory.c`) | list of blocks | `os_malloc`, `os_free` | split and merge around a moving cursor | pieces disjoint; list is a partition; no avoidable refusal |
| Mouse (`drivers/mouse.c`) | packet of three bytes, accumulated movement | one byte | resynchronisation | not reached: see section 7 |
| printf (`drivers/printf.c`) | none | formatting | extremes of int | output only |
| LemonJuice (`shell/LemonJuice_Shell`) | line, tokens, child | read, split, execute, wait | growing buffers, failing allocations, end of input, failing `waitpid`, stopped child | stores in bounds; nothing leaks; prompts only when the child is gone, and again after every end of it |
| Web page, build files | none | none | | out of scope |

## 2. Modules

| module | models | with |
|---|---|---|
| `Process` | the process table and both policies | `ProcessProofs` |
| `RoundRobin` | `Process` with a record of who is elected while who waits | `MCProcess`, `ProcessProofs` |
| `KernelShell` | the shell's calculator and its process commands in front of `Process` | `MCKernelShell`, `ShellProofs` |
| `FileStore` | abstract: a map from names to texts | |
| `FileSystem` | directory and block chains; implements `FileStore` | `MCFileSystem`, `FileSystemProofs` |
| `SecureGate` | abstract: one line editor in front of PIN, keyword and shell | |
| `Console` | the console's states and both line editors; implements `SecureGate` | `MCConsole`, `KernelProofs` |
| `Kernel` | boot, interrupts, timer and keyboard around `Console`; implements `Console` | `MCKernel`, `KernelProofs` |
| `Allocator` | abstract: disjoint pieces of memory | |
| `Memory` | the free list; implements `Allocator` | `MCMemory`, `MemoryProofs` |
| `Screen` | log, cursor, view, escapes, video memory, the keys that scroll | `MCScreen`, `ScreenProofs` |
| `CommandLoop` | abstract: a loop that runs one command at a time | |
| `LemonShell` | the hosted shell; implements `CommandLoop` | `MCLemonShell`, `LemonProofs` |
| `Induction` | no code: lemmas on induction, recursive functions, folds and sums | used by `ProcessProofs`, `FileSystemProofs`, `ShellProofs`, `MemoryProofs`, `ScreenProofs` |

In each component module an action is one handler or function, and keeps its C
name. Operators named `X_Something` with a comment `faulty:` are the mutated
forms the checks substitute for `X`; nothing else uses them.

### Process
`process_table`, `process_count`, `next_pid`, `current_index`, `sched_policy`
and the three `stat_` counters are the C variables. `batch_left` is the loop
counter of `process_schedule_times`: one call of `schedule()` is one step
(`ScheduleIteration`), and nothing interleaves, since the batch runs in one
interrupt. `TickedTable` is the table after `run_current_tick` and
`demote_running`, from which `schedule_rr` or `schedule_srtf` elects. Counters
wrap at `StatModulus` (2^32 in the build). Function pointers are model values.

`RoundRobin` adds two history variables and restricts nothing: `turns` and
`lapses` count, for each entry that waits, whom it saw elected and how many
completions. All runs of the scheduler use it.

### KernelShell
Enter hands over a line; `tokenize`, `katoi`, `print_int` and the commands
`calc`, `mkproc`, `mkthr`, `policy`, `sched`, `proclist` and `thlist` follow the
code. A line is a sequence of characters in which any word that is only compared
counts as one; numbers are digit by digit, since what overflows on the way
matters. `IntMax` is the largest int (2^31 - 1); overflow wraps, as the build
does. `print_int` negates the smallest int, which is undefined: the model has the
two outcomes the compilers produce, a lone `-` and `-` with one digit. `reply` is
what the last command printed: the answer of `calc` together with its words, the
burst and the parent of a creation, the counts under a listing, and after a batch
also the number of completed tasks. Commands pass on what they computed, whether
or not it is an int. The commands run in the keyboard interrupt, so no line
arrives while `batch_left > 0`.
A quotient that is no int is a processor exception; its gate leads to address 0
and the model stops. Commands outside this list are a message that changes no
process (the file commands are in `FileSystem`, `nikli` in `Console`, `safa` in
`Screen`).

### FileSystem
`write_file`'s loop takes one block per step (`call` holds its local
variables), because it can give up in the middle. `fat_table` has the C
encoding: FREE -1, END -2, else the next block. `Stored` is the cut of a name
to fifteen characters. `reply` is what the shell reports. Listing is output
only. `free_block` has no caller and is no action.

### Console and Kernel
`Console` has one action per key. The shell's line editor is included as far as
it keeps state; running a command is `execute_line`, which distinguishes lines
whose first token leaves the shell from the others.

`Kernel` replaces the abstract keys by hardware. `pc` runs through the calls of
`kernel_main`; a frame in `handlers` runs through entry, dispatch, acknowledge
and return; the timer may fire and the keyboard may send a byte between any two
steps. **External, modelled from how the kernel uses them:** the 8259A
(request, mask and service registers, fixed priority, edge triggered, so a
restart forgets a request), the processor (takes an interrupt only with IF set,
clears it for an interrupt gate), the 8042 (holds one byte until it is read).

### Memory
An iteration of either loop is one step; `call.current` is the loop's cursor.
Addresses are offsets in `heap_area`, and `heap` maps the addresses of the
listed headers to their contents. `live` is kept for the callers: what they
hold and how much they asked for. Callers release only what they hold, once.
Nothing in the kernel calls the allocator, so this is the only assumption made
about its callers.

### Screen
`putchar` is one action per path through it, redraw included. Colours are left
out, so an escape sequence is followed to its end without its effect and without
its digits. The rows of a full log are copied one by one, in the code's order
(`Shifted`). `vm` is video memory. `\r` (`screen.c:244-248`) is left out: no key
and no string produces it, and `BlankAhead` would not hold with it. Of the keys,
the console scrolls on the arrows (`console_on_extended_scancode`); the mouse,
which would scroll too, never reports (section 7).

### LemonShell
`pc` runs through `main`, `lsh_read_line`, `lsh_split_line`, `lsh_execute`,
`launch_shell` and the release at the end of the loop. A line is its length and
its number of words. `held` is what the loop has on the heap, `child` the program
from `fork` to the moment `waitpid` has collected it, `reported` whether the last
stop was told, `status` the local variable of `launch_shell`, which starts
uninitialised (any value) and which a failing `waitpid` leaves alone. `jhalak` and
`samaya` wait inside `system()` for as long as it takes. Every
allocation may fail; the code then uses NULL, or frees and exits, and the model
stops in `undefined`. The end of the input may come at any character and stays.
`ignored` says that SIGCHLD was ignored when the shell was started, in which case
no ended child can be waited for. **External:** the program that is started
(`ChildRuns`): it ends, is killed, stops or continues at any time.

## 3. Runs

| run | instance | states | shows |
|---|---|---|---|
| `process_table` | 3 entries, bursts -1, 2 and 5, batches of 2 and 16 | 33 129 | table, index, elections, turns, ticks and batches under any sequence of calls |
| `kernel_shell` | 28 lines, ints of 24 values, table of 2, counters of 3 values, at most 5 calls a command | 38 229 | what is typed, done and reported agrees |
| `file_system` | 3 entries, 4 blocks of 2, texts of 1 to 3, a long name | 86 418 | chains are sound and fit the reader's buffer; commands implement the store |
| `console_gate` | lines of 3 and 4, 3 tries | 642 | the console implements the gate |
| `interrupts` | 8 scan codes, lines of 1, 2 tries | 85 504 | boot to lockout; handlers, bytes, keys; implements `Console` |
| `heap` | 96 bytes, header of 12, requests -1, 1, 9, 30 | 19 587 | list, holders, refusals, termination; implements `Allocator` |
| `screen` | log of 4 rows, display of 2 by 2 | 393 210 | display, history and visibility of output |
| `lemon_shell` | buffers that grow by 3 and 2, lines of up to 7 | 8 250 | bounds, release, children; implements `CommandLoop`; prompts again |
| `round_robin_turns`, `lost_blocks`, `created_report`, `wait_forever` | as above | | the four disagreements of section 6 |

Why the bounds are enough for the interesting cases to happen:

- *Process.* Three entries are the fewest with one running, one waiting and one
  complete, a scan with something before and after its start, and somebody who
  is passed over twice; the table also fills up. Burst -1 is raised to 1 and
  completes at its first tick, 2 outlives one tick, and 5 is the default. A batch
  of 2 ends with work left, one of 16 outlasts all there can be. The statistics
  have one value here: nothing the run checks reads them.
- *KernelShell.* Twenty-four values give the smallest int, its absence of a
  positive counterpart and two-digit numbers that overflow in either direction;
  the lines reach both ends, wrap to the fault, divide by zero, lack words and
  hold one too many. Two entries fill up at once. The counters of calls and
  switches have three values and wrap again and again; what has completed never
  exceeds the table, as in the build.
- *FileSystem.* Four blocks of two characters: a text fills part of a block, a
  block, and more than one; the disk runs out in the first and in a later block
  of a write; the directory fills; two names collide after the cut. `READ_BUF`
  holds the longest text and one block, no more: the build's 1024 bytes, a line's
  length and a block's size are related in the same way (an `ASSUME`).
- *Console.* Both lines run full; the keywords fit with a character to spare;
  the leave word fits with a space before or after it; the third wrong PIN locks.
- *Kernel.* The codes contain both kinds of prefix use, shift down and up, a
  release, Enter and keys of both tables; a byte may be pending at every point
  of the boot.
- *Memory.* The header has its real size and alignment is real. The heap holds
  up to four blocks, so a release can have free neighbours on both sides, on
  one, or none; a request fits exactly, with room to split, and with too little.
- *Screen.* The view can lag behind the cursor by two rows, the log shifts, the
  display wraps, and each character an escape sequence treats specially is also
  printed as text.
- *LemonShell.* Both buffers grow twice, and lines and word counts meet each
  size exactly.

Deadlock is checked in every run but those of `KernelShell` and `LemonShell`:
a division exception stops the one, `nikli` ends the other.

### Fairness
- `RoundRobin!RRFairSpec`: weak fairness of `ScheduleIteration`. The loop of
  `process_schedule_times` waits for nothing.
- `Kernel!FairSpec`: weak fairness of the handler's and of `kernel_main`'s next
  step: code that is running goes on. Strong fairness of taking each interrupt:
  IF goes off and on again with every tick, so weak fairness would promise
  nothing; strong fairness is justified because a handler is much shorter than
  the 10 ms between ticks, so after a tick there is time for the keyboard, whose
  request stays in the controller. No fairness is assumed of timer or keyboard.
- `Memory!FairSpec`: weak fairness of the loops, which wait for nothing.
- `LemonShell!FairSpec`: weak fairness of the shell's own steps between reading a
  line and the next prompt (`Proceeds`); `waitpid` is one of them and is enabled
  only when it would return. Nothing is assumed of the user or of the program,
  nor that `system()` returns, so `PromptReturns` speaks of programs that have ended
  and can be waited for.

## 4. Properties

The hazards in `PROJECT.json` name the properties that answer them; the
comments in the modules say what each one is about. The central ones:

- `WorkConserving`, `SRTFShortest`, `BypassBounded`, `BatchDrains`: what the
  scheduler owes the processes.
- `ImplementsStore`: the file commands are a map from names to texts, although
  a write takes several steps and may fail in between. `LinksAscend`: links go
  to higher blocks only, which excludes cycles.
- `ImplementsGate`: two buffers, four states and two files behave as one editor
  in front of one gate. `ImplementsConsole`: interrupts, drivers and boot order
  deliver whole keys to an initialised console.
- `HandlersDontNest`: the assumption everything else rests on. `NoStuckByte`:
  `keyboard_init` does not empty port 0x60, and a byte from before the
  controller's restart would block the keyboard for good; it holds only
  because `mouse_init` reads the port.
- `Coalesced`: one pass over the list is enough. `FailsOnlyIfFull`: a request
  is refused only if every stretch of the heap that could hold it touches a block
  in use, however the free bytes are cut into blocks.
- `FiguresAgree`: every process created is in the listing or counted as
  completed, however often the other counters have wrapped. `CreatedAsReported`:
  a new entry of the table holds the burst and the parent that the shell reports,
  which process.c limits once more on its own. `CalcRight`,
  `FaultOnlyAtMin`: `calc` is exact where an int allows it,
  and one division only (and what wraps to it) stops the machine.
- `ReadFits`: no file is longer than the shell's buffer, although `read_file` is
  given no limit; a chain is never longer than its last write.
- `ImplementsLoop`, `PromptReturns`: the hosted shell never prompts while its
  child exists, stopped or as a zombie, never ends but by a command (the end of
  the input included, which it takes for empty lines for ever), and returns to
  the prompt after any end of a child that it can wait for (`WaitEnds`, of the
  others, does not hold: section 6). `InBounds`, `Released`: the test after
  each store leaves room for the terminator; each piece is released once.
- `HistoryKept`, `DisplayIsCurrent`, `OutputShown`: what was printed stays, is
  what the display shows, and new output is seen.

Each property of a passing run has a mutant: the model with one plausible
mistake, under which TLC finds the property violated.

## 5. Theorems

Proved for all values of the constants that meet the `ASSUME` of the module
(positive sizes, distinct marks, texts over the alphabet and the like).

| module | theorems | argument |
|---|---|---|
| `ProcessProofs` | types, `RunningIsCurrent`, `SlotsFilledInOrder`, `LiveHasWork`, `WorkConserving`, `SRTFShortest`, `StatsAccount`, `ProcessesOnlyProgress` | `IInv` joins the four state invariants: `schedule()` finds whom to charge by the index, whom to elect by the states, and creation finds its entry by the count, so none is inductive alone. The election properties compare the table before and after a step. `StatsAccount` is proved as long as the call counter has not wrapped (`[]NoWrap`). |
| | `TicksCharged`; a long batch empties the table (`LongBatchEmpties`) | a call changes the remaining ticks of one entry, by one, and a sum over the table changes by what one of its terms does. One call of a batch may go to the first election, each other one charges a tick (`Enough`). |
| | `BypassBounded` | `TurnsOK`: since i waits, the entries served are those of the cyclic interval from i to the running entry, once each, plus one per completion; an election that leaves i waiting ends before i and enlarges the interval (`ScanGrows`). |
| `ShellProofs` | `RunningIsCurrent` and `LiveHasWork` behind the shell; `CreatedAsReported`; `FiguresAgree` | the shell's numbers are ints (`NumberIsInt`, `BurstIsInt`, `ParentIsInt`) and its counts limited, so each command is an operation of `Process` or none. A burst that is at least 1 passes `ClampBurst` unchanged, and what `print_int` writes reads as the number again. `Tally`: live entries and completions make up the entries handed out; a table has fewer entries than the counter has values, so the count of completions never wraps. |
| | `katoi` reads what a word writes, wrapped (`KatoiReads`); `print_int` writes what it is given (`PrintedIsWritten`); `CalcRight`, `FaultOnlyAtMin` | wrapping at every digit is wrapping once at the end, since `Wrap` respects times ten and plus; the value of a digit sequence is a sum that grows by its last digit; the written digits are built from the last one back. `CalcAnswered`: what was printed last is the answer to the words kept with it. The rest is that a quotient is unique and that only the smallest int by -1 has one that is no int. |
| `FileSystemProofs` | types, `LinksAscend`, `NoSharedBlocks`, frozen written blocks | `CallInv` says what the write under way knows: its last block is an END and nothing at or below it is free, so the next block found is higher. |
| | `SizeIsLength`, `ReadFits`, `ImplementsStore` | links ascend, so reading along a chain (`Bytes`) meets its recursive equation and a chain's contents depend on its own blocks only. `ContentInv`: every file's chain holds one text, of the size recorded, and padding to a whole block; the chain of the write under way holds the part written so far, in blocks no file enters. So a failed write leaves the file as it was. |
| `KernelProofs` | of `Console`: types, `OneLineInUse`, `ImplementsGate` | step simulation of `SecureGate`, from `OneLineInUse`: the idle editor's line is empty, so a change of state hands over an empty line. |
| | of `Kernel`: types, `HandlersDontNest`, `NoStuckByte`, `LockoutIsFinal`, `ImplementsConsole`, and with it `ImplementsGate` | at most one frame, made while interrupts were on; in service is what it has yet to acknowledge; before `sti` the console is as initialised; a pending byte is traced through the boot. |
| `MemoryProofs` | types, `Tiling`, `HeldBlocks`, `Coalesced`, `FailsOnlyIfFull`, `ImplementsAllocator`; both loops end (`LoopsEnd`) | blocks end where the next begins, no other in between, none past the heap; what a search has passed does not fit (`Passed`); every byte lies in a block (`BlockOfByte`), so a stretch of free bytes lies in one free block, neighbours being joined (`NoRoom`); free neighbours remain only at or after a release's cursor (`JoinAhead`). Each iteration takes one block off those at or after the cursor, by moving or by merging. |
| `ScreenProofs` | types, `DisplayIsCurrent`, `BlankAhead`, `HistoryKept`, `OutputShown` | the log is blank from the cursor on, which a new row and a backspace over the left edge need; after n copies the first n rows have moved up and the others are unchanged, so each is read before it is written over (`RowsCopied`); whatever redraws shows the whole view; following the cursor brings it into view from any scroll position. |
| `LemonProofs` | types, `InBounds`, `Released`, `ImplementsLoop`; the end of the child leads to the prompt (`EndLeadsToPrompt`) | what is held and which child exists is a function of `pc`; the tests after each store give the room the next one takes. |

Some definitions recur over data: the bytes along a chain, the value of a
digit sequence, the sum of a column of the table, the rows of the log copied so
far. The library's induction
theorems take the property as an operator, which the provers cannot instantiate.
`Induction` states what is needed with sets and functions in its place: induction
over a set of numbers or the subsets of a finite set, from the least element of
a set of naturals; that a function defined by recursion to smaller arguments
meets its equation; that a fold of a commutative step, and so a sum, does not
depend on the order and changes with one of its terms.

`KernelShell` assumes of its lines that they are sequences of words
(`Lines \subseteq Seq(STRING)`) and of the ints that the process table's callers
may pass any; both are how C types them.

Model-checked only: liveness (`BatchDrains`, `KeysServed`, `CallsReturn`,
`PromptReturns`), which the prover cannot treat. Of three of these the part that
is not about fairness is proved (`LongBatchEmpties`, `LoopsEnd`,
`EndLeadsToPrompt`): what is left to TLC is that the code goes on. The
disagreements of section 6 are runs that TLC refutes.

## 6. Where the code and its words disagree

- **Round robin** (`round_robin_turns`). A completion sets `current_index` to
  -1 (`process.c:70`), so the next scan starts at entry 0: a process can run
  twice while another waits. `BypassBounded` states the bound that does hold.
- **Lost blocks** (`lost_blocks`). A rewrite or a failed write drops blocks that
  stay marked as taken (`filesystem.c:61,78`); `free_block` is never called,
  against what `fat.h:10` and `fat.c:5` say of a free block.
- **Created process** (`created_report`). With all sixteen entries handed out
  `create_process_burst` returns without a result (`process.c:120`), and the
  shell prints "Created process with burst" all the same (`kernel_shell.c:206`);
  entries are never reused, so every later `mkproc` reports a process that does
  not exist. The help promises "Create one process" (`kernel_shell.c:127`).
- **Waiting for ever** (`wait_forever`). `launch_shell` ignores the result of
  `waitpid` and loops on a status that is not initialised. Started with SIGCHLD
  ignored, `waitpid` fails once the child is gone and writes nothing; if the
  leftover status reads as neither exited nor killed, the loop never ends. The
  comment promises that `waitpid()` "fills the status for the process"
  (`executor.c:46-48`).

Seen, without a run of its own: help and boot banner promise PgUp and PgDn
(`kernel_shell.c:129`, `kernel.c:36`), and the console acts on the arrow keys only
(`console.c:137-139`); the hosted shell's help offers `niski exit` to
leave (`executor.c:93`), its header names `exit` (`executor.c:4`), and the command
that leaves is `nikli` (`executor.c:174`).

## 7. Not modelled

- *Mouse packets.* `mouse_write` and `mouse_init` call `outb(0xD4, 0x64)` with
  port and value exchanged (`mouse.c:33-35`), so the mouse is never told to
  report and its handler does not run. Of the driver `Kernel` keeps what has an
  effect, the reads of port 0x60. A model of the packet logic would have no
  state the program can be in but the first.
- *Output*: colours, `printf`, the listing's layout, `samaya` (ticks and uptime)
  and the commands that only print. What `calc`, the listing and the figures say
  is in `KernelShell`.
- *Faults.* Gates other than the timer's, keyboard's and mouse's lead to address
  0; what happens then is not defined by the code. `KernelShell` stops there.
- *Real time.* Ticks lost while a command runs are in the model (`TimerFires`),
  but nothing compares `tick` with a clock. `delay()` has no caller.
- *Screen and line together.* Esc echoed by the shell takes characters of the
  next output with it; both sides are modelled, but nothing in the code promises
  that the display shows the line as typed, so there is no property to compose
  them for.
- *stdio of the hosted shell.* A child whose `execvp` fails leaves by `exit()`,
  which flushes and repositions files it shares with its parent
  (`executor.c:36`). The model follows processes and memory only. Signals to the
  shell itself are left out.
- *Huge requests to the heap.* `align8` overflows near the largest int; nothing
  calls the allocator and the model asks for sizes a heap could meet.
- *Web page, build files*: no logic of the system.

## 8. Order of the work, and what would come next

Process, FileSystem, Console, Kernel, Memory, Screen, KernelShell, LemonShell;
each with an abstract specification where the component has a promise to state.

What could still be added:

1. The statistics after `sched_stats_reset`, which no command calls.
2. The escape sequences' colours, if a promise about them is ever written down.
