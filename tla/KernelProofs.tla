---------------------------- MODULE KernelProofs ----------------------------
(***************************************************************************)
(* Theorems about the console, for every character set, every word, every    *)
(* number of tries and every buffer size, and about the interrupt-driven     *)
(* kernel around it, for every keyboard, every pair of key tables, every     *)
(* width of the tick counter and every such console.                         *)
(***************************************************************************)
EXTENDS Kernel, SequenceTheorems, TLAPS

-----------------------------------------------------------------------------
(* The console on its own.                                                  *)

ConsoleInv == ConsoleTypeOK /\ OneLineInUse

\* An edited line still holds characters only and still fits into its buffer.
LEMMA EditedFits ==
  ASSUME NEW line \in Seq(Chars), NEW c \in Typed \ {ENTER},
         NEW size \in Nat, Len(line) < size
  PROVE  /\ Edited(line, c, size) \in Seq(Chars)
         /\ Len(Edited(line, c, size)) < size
PROOF
<1>1. CASE c = BACKSPACE /\ line = <<>>
  BY <1>1 DEF Edited
<1>2. CASE c = BACKSPACE /\ line # <<>>
  <2>1. Len(line) \in Nat \ {0}
    BY <1>2, EmptySeq, LenProperties
  <2>2. /\ SubSeq(line, 1, Len(line) - 1) \in Seq(Chars)
        /\ Len(SubSeq(line, 1, Len(line) - 1)) = Len(line) - 1
    <3> DEFINE n == Len(line) - 1
    <3>1. \A i \in 1 .. n : line[i] \in Chars
      BY <2>1
    <3>2. 1 \in Int /\ n \in Nat
      BY <2>1
    <3> HIDE DEF n
    <3>3. /\ SubSeq(line, 1, n) \in Seq(Chars)
          /\ Len(SubSeq(line, 1, n)) = IF 1 <= n THEN n - 1 + 1 ELSE 0
      BY <3>1, <3>2, SubSeqProperties
    <3>4. (IF 1 <= n THEN n - 1 + 1 ELSE 0) = n
      BY <3>2
    <3> QED  BY <3>3, <3>4 DEF n
  <2> QED  BY <1>2, <2>1, <2>2 DEF Edited, Front
<1>3. CASE c # BACKSPACE
  <2>1. c \in Chars
    BY <1>3 DEF Typed
  <2>2. CASE Len(line) < size - 1
    BY <1>3, <2>1, <2>2, AppendProperties DEF Edited
  <2>3. CASE ~(Len(line) < size - 1)
    BY <1>3, <2>3 DEF Edited
  <2> QED  BY <2>2, <2>3
<1> QED  BY <1>1, <1>2, <1>3

LEMMA NoLine == <<>> \in Seq(Chars) /\ Len(<<>>) = 0
OBVIOUS

LEMMA ConsoleInitInv == ConsoleInit => ConsoleInv
BY ConsoleAssumption, NoLine
   DEF ConsoleInit, ConsoleInv, ConsoleTypeOK, OneLineInUse, ConsoleState

\* One key, whatever the state.
LEMMA KeyKeepsInv ==
  ASSUME ConsoleInv, NEW c \in Typed, console_on_key(c)
  PROVE  ConsoleInv'
PROOF
<1> USE ConsoleAssumption, NoLine
<1>1. CASE state = "CON_LOCKOUT" /\ UNCHANGED consoleVars
  BY <1>1 DEF ConsoleInv, ConsoleTypeOK, OneLineInUse, consoleVars
<1>2. CASE state = "CON_SHELL" /\ khukhuri_shell_handle_char(c)
  <2>1. CASE c = ENTER
    <3>1. state' \in {"CON_SHELL", "CON_GATE"} /\ line_buffer' = <<>>
      BY <1>2, <2>1 DEF khukhuri_shell_handle_char, execute_line, console_leave_shell
    <3> QED
      BY <1>2, <3>1 DEF khukhuri_shell_handle_char, ConsoleInv, ConsoleTypeOK,
         OneLineInUse, ConsoleState
  <2>2. CASE c # ENTER
    <3>1. /\ line_buffer' \in Seq(Chars) /\ Len(line_buffer') < KSHELL_MAX_LINE
      BY <1>2, <2>2, EditedFits
         DEF khukhuri_shell_handle_char, ConsoleInv, ConsoleTypeOK
    <3> QED
      BY <1>2, <2>2, <3>1 DEF khukhuri_shell_handle_char, ConsoleInv,
         ConsoleTypeOK, OneLineInUse
  <2> QED  BY <2>1, <2>2
<1>3. CASE state = "CON_PIN" /\ c = ENTER /\ handle_pin_line
  <2>1. /\ state' \in {"CON_PIN", "CON_GATE", "CON_LOCKOUT"}
        /\ pin_fails' \in 0 .. MAX_PIN_FAILS
        /\ state' = "CON_LOCKOUT" <=> pin_fails' = MAX_PIN_FAILS
    BY <1>3 DEF handle_pin_line, PinAccepted, PinRefused, PinLocks,
       ConsoleInv, ConsoleTypeOK
  <2>2. line_buf' \in {line_buf, <<>>} /\ line_buffer' = line_buffer
    BY <1>3 DEF handle_pin_line, PinAccepted, PinRefused, PinLocks
  <2>3. line_buf' \in Seq(Chars) /\ Len(line_buf') < GATE_LINE_LEN
    <3>1. CASE line_buf' = line_buf
      BY <3>1 DEF ConsoleInv, ConsoleTypeOK
    <3>2. CASE line_buf' = <<>>
      BY <3>2
    <3> QED  BY <2>2, <3>1, <3>2
  <2>4. line_buffer' \in Seq(Chars) /\ Len(line_buffer') < KSHELL_MAX_LINE
    BY <2>2 DEF ConsoleInv, ConsoleTypeOK
  <2>5. line_buffer' = <<>>
    BY <1>3, <2>2 DEF ConsoleInv, OneLineInUse
  <2>6. state' \in ConsoleState /\ state' # "CON_SHELL"
    BY <2>1 DEF ConsoleState
  <2> QED
    BY Zenon, <2>1, <2>3, <2>4, <2>5, <2>6
       DEF ConsoleInv, ConsoleTypeOK, OneLineInUse
<1>4. CASE state = "CON_GATE" /\ c = ENTER /\ handle_gate_line
  <2>1. state' \in {"CON_GATE", "CON_SHELL"} /\ pin_fails' = pin_fails
    BY <1>4 DEF handle_gate_line
  <2>2. line_buf' = <<>> /\ line_buffer' = <<>>
    BY <1>4 DEF handle_gate_line, khukhuri_shell_init, ConsoleInv, OneLineInUse
  <2>3. ConsoleTypeOK'
    <3>1. state' \in ConsoleState
      BY <2>1 DEF ConsoleState
    <3>2. /\ pin_fails' \in 0 .. MAX_PIN_FAILS
          /\ state' = "CON_LOCKOUT" <=> pin_fails' = MAX_PIN_FAILS
      BY <1>4, <2>1 DEF ConsoleInv, ConsoleTypeOK
    <3>3. line_buf' \in Seq(Chars) /\ Len(line_buf') < GATE_LINE_LEN
      BY <2>2
    <3>4. line_buffer' \in Seq(Chars) /\ Len(line_buffer') < KSHELL_MAX_LINE
      BY <2>2
    <3> QED  BY Zenon, <3>1, <3>2, <3>3, <3>4 DEF ConsoleTypeOK
  <2> QED  BY <2>2, <2>3 DEF ConsoleInv, OneLineInUse
<1>5. CASE /\ state \in {"CON_PIN", "CON_GATE"} /\ c # ENTER
           /\ line_buf' = Edited(line_buf, c, GATE_LINE_LEN)
           /\ UNCHANGED <<state, pin_fails, line_buffer>>
  <2>1. line_buf' \in Seq(Chars) /\ Len(line_buf') < GATE_LINE_LEN
    BY <1>5, EditedFits DEF ConsoleInv, ConsoleTypeOK
  <2> QED
    BY <1>5, <2>1 DEF ConsoleInv, ConsoleTypeOK, OneLineInUse
<1> QED  BY <1>1, <1>2, <1>3, <1>4, <1>5 DEF console_on_key

\* The inductive invariant: what the lines hold and which of them is in use.
THEOREM ConsoleInvariance == ConsoleSpec => []ConsoleInv
PROOF
<1>1. ConsoleInv /\ [ConsoleNext]_consoleVars => ConsoleInv'
  <2>1. ConsoleInv /\ UNCHANGED consoleVars => ConsoleInv'
    BY DEF ConsoleInv, ConsoleTypeOK, OneLineInUse, consoleVars
  <2> QED  BY <2>1, KeyKeepsInv DEF ConsoleNext
<1> QED  BY <1>1, ConsoleInitInv, PTL DEF ConsoleSpec

\* Neither buffer is ever overrun, and the machine is locked exactly when the
\* tries are used up.
THEOREM ConsoleTypeCorrect == ConsoleSpec => []ConsoleTypeOK
BY ConsoleInvariance, PTL DEF ConsoleInv

\* No character typed for the gate turns up in the shell or the other way round.
THEOREM LinesApart == ConsoleSpec => []OneLineInUse
BY ConsoleInvariance, PTL DEF ConsoleInv

-----------------------------------------------------------------------------
(* Refinement of the abstract gate.                                         *)

LEMMA InitGate == ConsoleInit => Gate!Init
BY DEF ConsoleInit, Gate!Init, phaseBar, lineBar

\* The three outcomes of a key, in the abstract gate's terms.
LEMMA EditCases ==
  ASSUME NEW line \in Seq(Chars), NEW c, NEW room \in Int
  PROVE  /\ c = BACKSPACE /\ line # <<>> =>
              Edited(line, c, room + 1) = SubSeq(line, 1, Len(line) - 1)
         /\ c # BACKSPACE /\ Len(line) < room =>
              Edited(line, c, room + 1) = Append(line, c)
         /\ c = BACKSPACE /\ line = <<>> => Edited(line, c, room + 1) = line
         /\ c # BACKSPACE /\ ~(Len(line) < room) =>
              Edited(line, c, room + 1) = line
PROOF
<1>1. room + 1 - 1 = room
  OBVIOUS
<1> QED  BY <1>1 DEF Edited, Front

LEMMA LineBarType ==
  ASSUME ConsoleInv
  PROVE  /\ lineBar \in Seq(Chars)
         /\ RoomOf(phaseBar) \in Int
PROOF
<1>1. lineBar \in {line_buffer, <<>>, line_buf}
  BY DEF lineBar
<1>2. lineBar \in Seq(Chars)
  BY <1>1, NoLine DEF ConsoleInv, ConsoleTypeOK
<1>3. RoomOf(phaseBar) \in Int
  BY ConsoleAssumption DEF RoomOf
<1> QED  BY <1>2, <1>3

\* A key in an editor types, undoes or does nothing on the abstract line.
LEMMA EditSimulates ==
  ASSUME ConsoleInv, NEW c \in Typed \ {ENTER},
         state # "CON_LOCKOUT", UNCHANGED <<state, pin_fails>>,
         lineBar' = Edited(lineBar, c, RoomOf(phaseBar) + 1)
  PROVE  Gate!Next \/ UNCHANGED <<phaseBar, lineBar, pin_fails>>
PROOF
<1>1. UNCHANGED phaseBar /\ phaseBar # "locked"
  BY DEF phaseBar, ConsoleInv, ConsoleTypeOK, ConsoleState
<1>2. CASE c = BACKSPACE /\ lineBar # <<>>
  <2>1. lineBar' = SubSeq(lineBar, 1, Len(lineBar) - 1)
    BY <1>2, LineBarType, EditCases
  <2> QED  BY <1>1, <1>2, <2>1 DEF Gate!Undo, Gate!Next
<1>3. CASE c # BACKSPACE /\ Len(lineBar) < RoomOf(phaseBar)
  <2>1. lineBar' = Append(lineBar, c)
    BY <1>3, LineBarType, EditCases
  <2>2. Gate!Type(c)
    BY <1>1, <1>3, <2>1 DEF Gate!Type
  <2>3. c \in Chars
    BY <1>3 DEF Typed
  <2> QED  BY <2>2, <2>3 DEF Gate!Next
<1>4. CASE \/ c = BACKSPACE /\ lineBar = <<>>
           \/ c # BACKSPACE /\ ~(Len(lineBar) < RoomOf(phaseBar))
  <2>1. lineBar' = lineBar
    BY <1>4, LineBarType, EditCases
  <2> QED  BY <1>1, <2>1
<1> QED  BY <1>2, <1>3, <1>4

\* Every key is a step of the abstract gate, or changes nothing there.
LEMMA KeySimulates ==
  ASSUME ConsoleInv, NEW c \in Typed, console_on_key(c)
  PROVE  Gate!Next \/ UNCHANGED <<phaseBar, lineBar, pin_fails>>
PROOF
<1>1. CASE state = "CON_LOCKOUT" /\ UNCHANGED consoleVars
  BY <1>1 DEF consoleVars, phaseBar, lineBar
<1>2. CASE state = "CON_SHELL" /\ khukhuri_shell_handle_char(c)
  <2>1. phaseBar = "shell" /\ lineBar = line_buffer /\ pin_fails' = pin_fails
    BY <1>2 DEF phaseBar, lineBar, khukhuri_shell_handle_char
  <2>2. CASE c = ENTER
    <3>1. line_buffer' = <<>> /\ line_buf' = line_buf /\ line_buf = <<>>
      BY <1>2, <2>2 DEF khukhuri_shell_handle_char, ConsoleInv, OneLineInUse
    <3>2. CASE ShellLeaves(line_buffer)
      <4>1. state' = "CON_GATE"
        BY <1>2, <2>2, <3>2 DEF khukhuri_shell_handle_char, execute_line,
           console_leave_shell, ShellLeaves
      <4>2. phaseBar' = "gate" /\ lineBar' = <<>>
        BY <3>1, <4>1 DEF phaseBar, lineBar
      <4> QED  BY <2>1, <3>2, <4>2 DEF Gate!Close, Gate!Next
    <3>3. CASE ~ShellLeaves(line_buffer)
      <4>1. state' = "CON_SHELL"
        BY <1>2, <2>2, <3>3 DEF khukhuri_shell_handle_char, execute_line, ShellLeaves
      <4>2. phaseBar' = "shell" /\ lineBar' = <<>>
        BY <3>1, <4>1 DEF phaseBar, lineBar
      <4> QED  BY <2>1, <3>3, <4>2 DEF Gate!Submit, Gate!Next
    <3> QED  BY <3>2, <3>3
  <2>3. CASE c # ENTER
    <3>1. /\ UNCHANGED <<state, pin_fails>>
          /\ line_buffer' = Edited(line_buffer, c, KSHELL_MAX_LINE)
      BY <1>2, <2>3 DEF khukhuri_shell_handle_char
    <3>2. RoomOf(phaseBar) + 1 = KSHELL_MAX_LINE
      BY <2>1, ConsoleAssumption DEF RoomOf
    <3>3. lineBar' = Edited(lineBar, c, RoomOf(phaseBar) + 1)
      BY <1>2, <2>1, <3>1, <3>2 DEF lineBar
    <3> QED  BY <1>2, <2>3, <3>1, <3>3, EditSimulates
  <2> QED  BY <2>2, <2>3
<1>3. CASE state = "CON_PIN" /\ c = ENTER /\ handle_pin_line
  <2>1. phaseBar = "pin" /\ lineBar = line_buf /\ pin_fails \in 0 .. MAX_PIN_FAILS
    BY <1>3 DEF phaseBar, lineBar, ConsoleInv, ConsoleTypeOK
  <2>2. CASE PinAccepted
    <3>1. phaseBar' = "gate" /\ lineBar' = <<>>
      BY <2>2 DEF PinAccepted, phaseBar, lineBar
    <3> QED  BY <2>1, <2>2, <3>1 DEF PinAccepted, Gate!Grant, Gate!Next
  <2>3. CASE PinRefused
    <3>1. phaseBar' = "pin" /\ lineBar' = <<>>
      BY <1>3, <2>3 DEF PinRefused, phaseBar, lineBar
    <3>2. pin_fails' = pin_fails + 1 /\ pin_fails' # MAX_PIN_FAILS
      BY <2>1, <2>3 DEF PinRefused
    <3> QED  BY <2>1, <2>3, <3>1, <3>2 DEF PinRefused, Gate!Refuse, Gate!Next
  <2>4. CASE PinLocks
    <3>1. phaseBar' = "locked" /\ lineBar' = <<>>
      BY <2>4 DEF PinLocks, phaseBar, lineBar
    <3>2. pin_fails' = pin_fails + 1 /\ pin_fails' = MAX_PIN_FAILS
      BY <1>3, <2>1, <2>4, ConsoleAssumption
         DEF PinLocks, ConsoleInv, ConsoleTypeOK
    <3> QED  BY <2>1, <2>4, <3>1, <3>2 DEF PinLocks, Gate!Refuse, Gate!Next
  <2> QED  BY <1>3, <2>2, <2>3, <2>4 DEF handle_pin_line
<1>4. CASE state = "CON_GATE" /\ c = ENTER /\ handle_gate_line
  <2>1. phaseBar = "gate" /\ lineBar = line_buf /\ pin_fails' = pin_fails
    BY <1>4 DEF phaseBar, lineBar, handle_gate_line
  <2>2. line_buf' = <<>>
    BY <1>4 DEF handle_gate_line
  <2>3. CASE line_buf = SHELL_WORD
    <3>1. phaseBar' = "shell" /\ lineBar' = <<>>
      BY <1>4, <2>3 DEF handle_gate_line, khukhuri_shell_init, phaseBar, lineBar
    <3> QED  BY <2>1, <2>3, <3>1 DEF Gate!Open, Gate!Next
  <2>4. CASE line_buf # SHELL_WORD
    <3>1. phaseBar' = "gate" /\ lineBar' = <<>>
      BY <1>4, <2>2, <2>4 DEF handle_gate_line, phaseBar, lineBar
    <3> QED  BY <2>1, <2>4, <3>1 DEF Gate!Submit, Gate!Next
  <2> QED  BY <2>3, <2>4
<1>5. CASE /\ state \in {"CON_PIN", "CON_GATE"} /\ c # ENTER
           /\ line_buf' = Edited(line_buf, c, GATE_LINE_LEN)
           /\ UNCHANGED <<state, pin_fails, line_buffer>>
  <2>1. phaseBar \in {"pin", "gate"} /\ lineBar = line_buf /\ lineBar' = line_buf'
    BY <1>5 DEF phaseBar, lineBar
  <2>2. RoomOf(phaseBar) + 1 = GATE_LINE_LEN
    BY <2>1, ConsoleAssumption DEF RoomOf
  <2> QED  BY <1>5, <2>1, <2>2, EditSimulates
<1> QED  BY <1>1, <1>2, <1>3, <1>4, <1>5 DEF console_on_key

\* The console implements the abstract gate: the shell opens after the PIN and
\* the shell word only, and a lockout is for good.
THEOREM GateImplemented == ConsoleSpec => ImplementsGate
PROOF
<1>1. ConsoleInv /\ [ConsoleNext]_consoleVars
        => [Gate!Next]_<<phaseBar, lineBar, pin_fails>>
  <2>1. CASE UNCHANGED consoleVars
    BY <2>1 DEF consoleVars, phaseBar, lineBar
  <2> QED  BY <2>1, KeySimulates DEF ConsoleNext
<1> QED
  BY <1>1, InitGate, ConsoleInvariance, PTL DEF ConsoleSpec, ImplementsGate, Gate!Spec

-----------------------------------------------------------------------------
(* The kernel around it.                                                    *)

MachineType ==
  /\ pc \in BootStep
  /\ masked \subseteq IRQs /\ requested \subseteq IRQs
  /\ output \in Scancodes
  /\ full \in BOOLEAN
  /\ extended_prefix \in BOOLEAN
  /\ shift_pressed \in BOOLEAN
  /\ tick \in 0 .. TickModulus - 1

\* There is at most one frame, made while interrupts were on; the interrupt in
\* service is its own; the kernel is locked exactly when that handler is.
HandlerInv ==
  /\ handlers = <<>> \/ \E f \in Frame : handlers = <<f>>
  /\ interrupts_on = (pc = "hlt" /\ handlers = <<>>)
  /\ handlers # <<>> => pc = "hlt" /\ Top.saved = TRUE
  /\ in_service = {n \in IRQs : handlers # <<>> /\ Top.irq = n /\ Top.at # "iretd"}
  /\ state = "CON_LOCKOUT" <=> handlers # <<>> /\ Top.at = "locked"

Reading == handlers # <<>> /\ Top.irq = KEYBOARD /\ Top.at = "call"

ByteInv ==
  /\ pc \notin {"idt_init", "keyboard_init"} => KEYBOARD \notin masked
  /\ pc \in {"console_init", "sti", "hlt"} /\ full =>
       KEYBOARD \in requested \/ Reading

BootInv == pc \notin {"sti", "hlt"} => ConsoleInit

IInv == ConsoleInv /\ MachineType /\ HandlerInv /\ ByteInv /\ BootInv

LEMMA InitIInv == Init => IInv
PROOF
<1> SUFFICES ASSUME Init PROVE IInv
  OBVIOUS
<1>1. ConsoleInv /\ BootInv
  BY ConsoleInitInv DEF Init, BootInv
<1>2. MachineType
  <2>1. tick \in 0 .. TickModulus - 1
    BY KernelAssumption DEF Init
  <2>2. pc \in BootStep /\ masked \subseteq IRQs /\ requested \subseteq IRQs
    BY DEF Init, BootStep
  <2>3. output \in Scancodes /\ full \in BOOLEAN
    BY DEF Init
  <2>4. extended_prefix \in BOOLEAN /\ shift_pressed \in BOOLEAN
    BY DEF Init
  <2> QED  BY Zenon, <2>1, <2>2, <2>3, <2>4 DEF MachineType
<1>3. HandlerInv
  BY DEF Init, HandlerInv, ConsoleInit
<1>4. ByteInv
  BY DEF Init, ByteInv
<1> QED  BY <1>1, <1>2, <1>3, <1>4 DEF IInv

\* Nothing the console keeps changes in most steps.
LEMMA ConsoleStays ==
  ASSUME ConsoleInv, UNCHANGED consoleVars
  PROVE  ConsoleInv'
BY DEF ConsoleInv, ConsoleTypeOK, OneLineInUse, consoleVars

-----------------------------------------------------------------------------
(* The hardware.                                                            *)

LEMMA KeyboardSendsInv ==
  ASSUME IInv, NEW code \in Scancodes, KeyboardSends(code)
  PROVE  IInv'
PROOF
<1>1. /\ output' = code /\ full' = TRUE /\ requested' = requested \cup {KEYBOARD}
      /\ UNCHANGED <<pc, interrupts_on, handlers, masked, in_service>>
      /\ UNCHANGED <<consoleVars, extended_prefix, shift_pressed, tick>>
  BY DEF KeyboardSends, cpuVars, softVars, keyboardVars
<1>2. ConsoleInv'
  BY <1>1, ConsoleStays DEF IInv
<1>3. MachineType'
  BY <1>1 DEF IInv, MachineType, IRQs
<1>4. HandlerInv'
  BY <1>1 DEF IInv, HandlerInv, consoleVars, Top
<1>5. ByteInv'
  BY <1>1 DEF IInv, ByteInv
<1>6. BootInv'
  BY <1>1 DEF IInv, BootInv, ConsoleInit, consoleVars
<1> QED  BY <1>2, <1>3, <1>4, <1>5, <1>6 DEF IInv

LEMMA TimerFiresInv ==
  ASSUME IInv, TimerFires
  PROVE  IInv'
PROOF
<1>1. /\ requested' = requested \cup {TIMER}
      /\ UNCHANGED <<pc, interrupts_on, handlers, masked, in_service, output, full>>
      /\ UNCHANGED <<consoleVars, extended_prefix, shift_pressed, tick>>
  BY DEF TimerFires, cpuVars, softVars, keyboardVars, outputVars
<1>2. ConsoleInv'
  BY <1>1, ConsoleStays DEF IInv
<1>3. MachineType'
  BY <1>1 DEF IInv, MachineType, IRQs
<1>4. HandlerInv'
  BY <1>1 DEF IInv, HandlerInv, consoleVars, Top
<1>5. ByteInv'
  BY <1>1 DEF IInv, ByteInv, Reading, Top
<1>6. BootInv'
  BY <1>1 DEF IInv, BootInv, ConsoleInit, consoleVars
<1> QED  BY <1>2, <1>3, <1>4, <1>5, <1>6 DEF IInv

\* An interrupt is taken from the halted kernel_main only; its frame becomes the
\* one frame there is.
LEMMA TakeInterruptInv ==
  ASSUME IInv, NEW n \in IRQs, TakeInterrupt(n)
  PROVE  IInv'
PROOF
<1> DEFINE f == [irq |-> n, at |-> "call", scancode |-> 0, saved |-> interrupts_on]
<1>1. interrupts_on = TRUE /\ pc = "hlt" /\ handlers = <<>>
  BY DEF TakeInterrupt, IInv, HandlerInv
<1>2. f \in Frame
  BY <1>1 DEF Frame
<1>3. handlers' = <<f>>
  <2>1. <<f>> \o <<>> = <<f>>
    OBVIOUS
  <2> QED  BY <1>1, <2>1 DEF TakeInterrupt
<1>4. /\ f.irq = n /\ f.at = "call" /\ f.saved = TRUE
  BY <1>1
<1> HIDE DEF f
<1>5. Top' = f /\ handlers' # <<>>
  BY <1>3 DEF Top
<1>6. /\ n \in requested /\ requested' = requested \ {n}
      /\ in_service' = in_service \cup {n} /\ interrupts_on' = FALSE
      /\ UNCHANGED <<pc, masked, output, full>>
      /\ UNCHANGED <<consoleVars, extended_prefix, shift_pressed, tick>>
  BY DEF TakeInterrupt, GateFlags, outputVars, softVars, keyboardVars
<1>7. ConsoleInv'
  BY <1>6, ConsoleStays DEF IInv
<1>8. MachineType'
  BY <1>6 DEF IInv, MachineType
<1>9. HandlerInv'
  <2>1. handlers' = <<>> \/ \E g \in Frame : handlers' = <<g>>
    BY <1>2, <1>3
  <2>2. interrupts_on' = (pc' = "hlt" /\ handlers' = <<>>)
    BY <1>5, <1>6
  <2>3. handlers' # <<>> => pc' = "hlt" /\ Top'.saved = TRUE
    BY <1>1, <1>4, <1>5, <1>6
  <2>4. in_service' = {m \in IRQs : handlers' # <<>> /\ Top'.irq = m /\ Top'.at # "iretd"}
    <3>1. in_service = {}
      BY <1>1 DEF IInv, HandlerInv
    <3> QED  BY <1>4, <1>5, <1>6, <3>1
  <2>5. state' = "CON_LOCKOUT" <=> handlers' # <<>> /\ Top'.at = "locked"
    BY <1>1, <1>4, <1>5, <1>6 DEF IInv, HandlerInv, consoleVars
  <2> QED  BY <2>1, <2>2, <2>3, <2>4, <2>5 DEF HandlerInv
<1>10. ByteInv'
  <2>1. full' => KEYBOARD \in requested
    BY <1>1, <1>6 DEF IInv, ByteInv, Reading
  <2>2. n = KEYBOARD => Reading'
    BY <1>4, <1>5 DEF Reading
  <2> QED  BY <1>6, <2>1, <2>2 DEF IInv, ByteInv
<1>11. BootInv'
  BY <1>1, <1>6 DEF BootInv
<1> QED  BY <1>7, <1>8, <1>9, <1>10, <1>11 DEF IInv

-----------------------------------------------------------------------------
(* kernel_main.                                                             *)

\* A step of the boot sequence that leaves the console alone.
LEMMA BootConsoleStays ==
  ASSUME IInv, handlers = <<>>, UNCHANGED <<handlers, keyboardVars, tick>>,
         UNCHANGED consoleVars, UNCHANGED <<interrupts_on, output>>,
         pc \notin {"sti", "hlt"}, pc' \in BootStep \ {"hlt"},
         full' \in BOOLEAN, masked' \subseteq masked, requested' \in {{}, requested},
         in_service' \in {{}, in_service}, ByteInv'
  PROVE  IInv'
PROOF
<1>1. ConsoleInv'
  BY ConsoleStays DEF IInv
<1>2. MachineType'
  <2>1. UNCHANGED <<extended_prefix, shift_pressed, tick, output>>
    BY DEF keyboardVars
  <2> QED  BY <2>1 DEF IInv, MachineType
<1>3. HandlerInv'
  <2>1. in_service' = {}
    BY DEF IInv, HandlerInv
  <2>2. state' # "CON_LOCKOUT"
    BY DEF IInv, BootInv, ConsoleInit, consoleVars
  <2> QED  BY <2>1, <2>2 DEF IInv, HandlerInv, Top
<1>4. BootInv'
  BY DEF IInv, BootInv, ConsoleInit, consoleVars
<1> QED  BY <1>1, <1>2, <1>3, <1>4 DEF IInv

LEMMA KernelMainInv ==
  ASSUME IInv, handlers = <<>>, kernel_main
  PROVE  IInv'
PROOF
<1> USE DEF Boot, NextCall
<1>1. CASE Boot("idt_init") /\ idt_init
  <2>1. pc = "idt_init" /\ pc' = "keyboard_init"
    BY <1>1
  <2>2. /\ requested' = {} /\ in_service' = {} /\ masked' = masked
        /\ UNCHANGED <<output, full, interrupts_on>> /\ UNCHANGED consoleVars
        /\ UNCHANGED <<handlers, keyboardVars, tick>>
    BY <1>1 DEF idt_init, outputVars
  <2>3. full' \in BOOLEAN
    BY <2>2 DEF IInv, MachineType
  <2> QED
    BY <2>1, <2>2, <2>3, BootConsoleStays DEF ByteInv, BootStep
<1>2. CASE Boot("keyboard_init") /\ keyboard_init
  <2>1. pc = "keyboard_init" /\ pc' = "timer_init"
    BY <1>2
  <2>2. /\ masked' = masked \ {KEYBOARD} /\ UNCHANGED <<requested, in_service>>
        /\ UNCHANGED <<output, full, interrupts_on>> /\ UNCHANGED consoleVars
        /\ UNCHANGED <<handlers, keyboardVars, tick>>
    BY <1>2 DEF keyboard_init, Unmask, outputVars
  <2>3. full' \in BOOLEAN
    BY <2>2 DEF IInv, MachineType
  <2> QED
    BY <2>1, <2>2, <2>3, BootConsoleStays DEF ByteInv, BootStep
<1>3. CASE Boot("timer_init") /\ timer_init
  <2>1. pc = "timer_init" /\ pc' = "mouse_init"
    BY <1>3
  <2>2. /\ masked' = masked \ {TIMER} /\ UNCHANGED <<requested, in_service>>
        /\ UNCHANGED <<output, full, interrupts_on>> /\ UNCHANGED consoleVars
        /\ UNCHANGED <<handlers, keyboardVars, tick>>
    BY <1>3 DEF timer_init, Unmask, outputVars
  <2>3. full' \in BOOLEAN
    BY <2>2 DEF IInv, MachineType
  <2> QED
    BY <2>1, <2>2, <2>3, BootConsoleStays DEF IInv, ByteInv, BootStep
<1>4. CASE /\ \/ Boot("mouse_init") \/ Boot("mouse_init_enable")
           /\ mouse_read
  <2>1. \/ pc = "mouse_init" /\ pc' = "mouse_init_enable"
        \/ pc = "mouse_init_enable" /\ pc' = "console_init"
    BY <1>4
  <2>2. /\ UNCHANGED <<masked, requested, in_service>> /\ full' = FALSE
        /\ UNCHANGED <<output, interrupts_on>> /\ UNCHANGED consoleVars
        /\ UNCHANGED <<handlers, keyboardVars, tick>>
    BY <1>4 DEF mouse_read, InputByte, picVars
  <2> QED
    BY <2>1, <2>2, BootConsoleStays DEF IInv, ByteInv, BootStep
<1>5. CASE /\ Boot("console_init") /\ console_init
           /\ UNCHANGED <<picVars, outputVars, interrupts_on>>
  <2>1. pc = "console_init" /\ pc' = "sti"
    BY <1>5
  <2>2. UNCHANGED consoleVars
    BY <1>5, <2>1 DEF console_init, IInv, BootInv, ConsoleInit, consoleVars
  <2>3. /\ UNCHANGED <<masked, requested, in_service, output, full, interrupts_on>>
        /\ UNCHANGED <<handlers, keyboardVars, tick>>
    BY <1>5 DEF picVars, outputVars
  <2>4. full' \in BOOLEAN
    BY <2>3 DEF IInv, MachineType
  <2>5. ByteInv'
    BY <2>1, <2>3 DEF IInv, ByteInv, Reading, Top
  <2> QED
    BY <2>1, <2>2, <2>3, <2>4, <2>5, BootConsoleStays DEF BootStep
<1>6. CASE /\ Boot("sti") /\ interrupts_on' = TRUE
           /\ UNCHANGED <<picVars, outputVars, consoleVars>>
  <2>1. pc = "sti" /\ pc' = "hlt"
    BY <1>6
  <2>2. /\ UNCHANGED <<masked, requested, in_service, output, full, handlers>>
        /\ UNCHANGED <<extended_prefix, shift_pressed, tick>>
        /\ interrupts_on' = TRUE /\ UNCHANGED consoleVars
    BY <1>6 DEF picVars, outputVars, keyboardVars
  <2>3. ConsoleInv' /\ BootInv'
    BY <2>1, <2>2, ConsoleStays DEF IInv, BootInv
  <2>4. MachineType'
    BY <2>1, <2>2 DEF IInv, MachineType, BootStep
  <2>5. HandlerInv'
    <3>1. interrupts_on' = (pc' = "hlt" /\ handlers' = <<>>)
      BY <2>1, <2>2
    <3> QED  BY <2>1, <2>2, <3>1 DEF IInv, HandlerInv, Top, consoleVars
  <2>6. ByteInv'
    BY <2>1, <2>2 DEF IInv, ByteInv, Reading, Top
  <2> QED  BY <2>3, <2>4, <2>5, <2>6 DEF IInv
<1> QED
  BY <1>1, <1>2, <1>3, <1>4, <1>5, <1>6 DEF kernel_main

-----------------------------------------------------------------------------
(* The handlers.                                                            *)

\* In a handler there is one frame, and kernel_main is halted.
LEMMA OneFrame ==
  ASSUME IInv, handlers # <<>>
  PROVE  /\ Top \in Frame /\ handlers = <<Top>>
         /\ Top.saved = TRUE /\ pc = "hlt" /\ interrupts_on = FALSE
PROOF
<1>1. PICK f \in Frame : handlers = <<f>>
  BY DEF IInv, HandlerInv
<1>2. Top = f
  BY <1>1 DEF Top
<1> QED  BY <1>1, <1>2 DEF IInv, HandlerInv

\* The frame after a step of the handler.
LEMMA Moved ==
  ASSUME NEW f \in Frame, handlers = <<f>>, f.saved = TRUE,
         NEW next \in {"call", "handle", "eoi", "iretd", "locked"},
         handlers' = [handlers EXCEPT ![1].at = next]
  PROVE  /\ handlers' # <<>> /\ Top' \in Frame /\ handlers' = <<Top'>>
         /\ Top'.at = next /\ Top'.irq = f.irq /\ Top'.saved = TRUE
PROOF
<1> DEFINE g == [f EXCEPT !.at = next]
<1>1. g \in Frame
  BY DEF Frame
<1>2. g.at = next /\ g.irq = f.irq
  BY DEF Frame
<1>3. g.saved = TRUE
  BY DEF Frame
<1>4. handlers' = <<g>>
  BY DEF Frame
<1> HIDE DEF g
<1>5. Top' = g
  BY <1>4 DEF Top
<1> QED  BY <1>1, <1>2, <1>3, <1>4, <1>5

\* A step of a handler that neither acknowledges nor locks.
LEMMA HandlerMoves ==
  ASSUME IInv, handlers # <<>>, handlers' # <<>>,
         Top' \in Frame, handlers' = <<Top'>>,
         Top.at \notin {"iretd", "locked"}, Top'.at \notin {"iretd", "locked"},
         Top'.irq = Top.irq, Top'.saved = TRUE,
         UNCHANGED <<pc, interrupts_on, in_service>>, state' # "CON_LOCKOUT"
  PROVE  HandlerInv'
PROOF
<1>1. \E f \in Frame : handlers' = <<f>>
  OBVIOUS
<1>2. interrupts_on' = (pc' = "hlt" /\ handlers' = <<>>)
  BY OneFrame
<1>3. handlers' # <<>> => pc' = "hlt" /\ Top'.saved = TRUE
  BY OneFrame
<1>4. in_service' = {n \in IRQs : handlers' # <<>> /\ Top'.irq = n /\ Top'.at # "iretd"}
  BY DEF IInv, HandlerInv
<1> QED  BY <1>1, <1>2, <1>3, <1>4 DEF HandlerInv

LEMMA TimerHandlerInv ==
  ASSUME IInv, timer_handler
  PROVE  IInv'
PROOF
<1>1. /\ handlers # <<>> /\ Top.irq = TIMER /\ Top.at = "call"
      /\ handlers' = [handlers EXCEPT ![1].at = "eoi"]
      /\ tick' = (tick + 1) % TickModulus
      /\ UNCHANGED <<pc, interrupts_on, masked, requested, in_service, output, full>>
      /\ UNCHANGED <<consoleVars, extended_prefix, shift_pressed>>
  BY DEF timer_handler, Goes, picVars, outputVars, keyboardVars
<1>2. /\ handlers' # <<>> /\ Top' \in Frame /\ handlers' = <<Top'>>
      /\ Top'.at = "eoi" /\ Top'.irq = TIMER /\ Top'.saved = TRUE
  <2>1. Top \in Frame /\ handlers = <<Top>> /\ Top.saved = TRUE
    BY <1>1, OneFrame
  <2> QED  BY <1>1, <2>1, Moved
<1>3. ConsoleInv'
  BY <1>1, ConsoleStays DEF IInv
<1>4. MachineType'
  <2>1. tick' \in 0 .. TickModulus - 1
    <3>1. TickModulus \in Nat \ {0} /\ tick + 1 \in Nat
      BY KernelAssumption DEF IInv, MachineType
    <3>2. (tick + 1) % TickModulus \in 0 .. TickModulus - 1
      BY <3>1
    <3> QED  BY <1>1, <3>2
  <2> QED  BY <1>1, <2>1 DEF IInv, MachineType
<1>5. HandlerInv'
  <2>1. state' # "CON_LOCKOUT"
    BY <1>1 DEF IInv, HandlerInv, consoleVars
  <2> QED  BY <1>1, <1>2, <2>1, HandlerMoves
<1>6. ByteInv'
  <2>1. ~Reading
    BY <1>1 DEF Reading, TIMER, KEYBOARD
  <2> QED  BY <1>1, <2>1 DEF IInv, ByteInv
<1>7. BootInv'
  BY <1>1, OneFrame DEF BootInv
<1> QED  BY <1>3, <1>4, <1>5, <1>6, <1>7 DEF IInv

LEMMA KeyboardHandlerInv ==
  ASSUME IInv, keyboard_handler
  PROVE  IInv'
PROOF
<1>1. /\ handlers # <<>> /\ Top.irq = KEYBOARD /\ Top.at = "call"
      /\ handlers' = [handlers EXCEPT ![1].at = "handle", ![1].scancode = output]
      /\ full' = FALSE /\ output' = output
      /\ UNCHANGED <<pc, interrupts_on, masked, requested, in_service>>
      /\ UNCHANGED <<consoleVars, extended_prefix, shift_pressed, tick>>
  BY DEF keyboard_handler, InputByte, picVars, softVars, keyboardVars
<1>2. Top \in Frame /\ handlers = <<Top>> /\ Top.saved = TRUE
  BY <1>1, OneFrame
<1> DEFINE g == [Top EXCEPT !.at = "handle", !.scancode = output]
<1>3. g \in Frame
  BY <1>2, KernelAssumption DEF Frame, IInv, MachineType
<1>4. g.at = "handle" /\ g.irq = KEYBOARD
  BY <1>1, <1>2 DEF Frame
<1>5. g.saved = TRUE
  BY <1>2 DEF Frame
<1>6. handlers' = <<g>>
  BY <1>1, <1>2 DEF Frame
<1> HIDE DEF g
<1>7. Top' = g /\ handlers' # <<>>
  BY <1>6 DEF Top
<1>8. ConsoleInv'
  BY <1>1, ConsoleStays DEF IInv
<1>9. MachineType'
  BY <1>1 DEF IInv, MachineType
<1>10. HandlerInv'
  <2>1. state' # "CON_LOCKOUT"
    BY <1>1 DEF IInv, HandlerInv, consoleVars
  <2> QED  BY <1>1, <1>3, <1>4, <1>5, <1>6, <1>7, <2>1, HandlerMoves
<1>11. ByteInv'
  BY <1>1 DEF IInv, ByteInv
<1>12. BootInv'
  BY <1>1, OneFrame DEF BootInv
<1> QED  BY <1>8, <1>9, <1>10, <1>11, <1>12 DEF IInv

\* What a scancode does to the console is nothing, or one whole key.
LEMMA ScancodeIsKey ==
  ASSUME NEW code \in 0 .. 255, handle_scancode(code)
  PROVE  UNCHANGED consoleVars \/ \E c \in Typed : console_on_key(c)
PROOF
<1>1. CASE PressKey(code)
  <2>1. CASE IsBreak(code) \/ KeyChar(code) = NUL
    BY <1>1, <2>1 DEF PressKey
  <2>2. CASE ~IsBreak(code) /\ KeyChar(code) # NUL
    <3>1. code \in 0 .. 127
      BY <2>2 DEF IsBreak
    <3>2. KeyChar(code) \in Typed
      BY <2>2, <3>1, KernelAssumption DEF KeyChar
    <3> QED  BY <1>1, <2>2, <3>2 DEF PressKey
  <2> QED  BY <2>1, <2>2
<1>2. CASE UNCHANGED consoleVars
  BY <1>2
<1> QED
  BY <1>1, <1>2 DEF handle_scancode, console_on_extended_scancode

LEMMA HandleKeyInv ==
  ASSUME IInv, HandleKey
  PROVE  IInv'
PROOF
<1>1. /\ handlers # <<>> /\ Top.at = "handle"
      /\ handle_scancode(Top.scancode)
      /\ handlers' = [handlers EXCEPT ![1].at = AfterKey]
      /\ UNCHANGED <<pc, interrupts_on, masked, requested, in_service, output, full, tick>>
  BY DEF HandleKey, Goes, picVars, outputVars
<1>2. Top \in Frame /\ handlers = <<Top>> /\ Top.saved = TRUE
  BY <1>1, OneFrame
<1>3. state # "CON_LOCKOUT"
  BY <1>1 DEF IInv, HandlerInv
<1>4. AfterKey = IF state' = "CON_LOCKOUT" THEN "locked" ELSE "eoi"
  BY <1>3 DEF AfterKey
<1>5. AfterKey \in {"eoi", "locked"}
  BY <1>4
<1>6. /\ handlers' # <<>> /\ Top' \in Frame /\ handlers' = <<Top'>>
      /\ Top'.at = AfterKey /\ Top'.irq = Top.irq /\ Top'.saved = TRUE
  BY <1>1, <1>2, <1>5, Moved
<1>7. ConsoleInv'
  <2>1. Top.scancode \in 0 .. 255
    BY <1>2 DEF Frame
  <2>2. UNCHANGED consoleVars \/ \E c \in Typed : console_on_key(c)
    BY <1>1, <2>1, ScancodeIsKey
  <2> QED  BY <2>2, ConsoleStays, KeyKeepsInv DEF IInv
<1>8. MachineType'
  <2>1. extended_prefix' \in BOOLEAN /\ shift_pressed' \in BOOLEAN
    BY Zenon, <1>1 DEF handle_scancode, keyboardVars, IInv, MachineType
  <2> QED  BY Zenon, <1>1, <2>1 DEF IInv, MachineType
<1>9. HandlerInv'
  <2>1. \E f \in Frame : handlers' = <<f>>
    BY <1>6
  <2>2. interrupts_on' = (pc' = "hlt" /\ handlers' = <<>>)
    BY <1>1, <1>6, OneFrame
  <2>3. handlers' # <<>> => pc' = "hlt" /\ Top'.saved = TRUE
    BY <1>1, <1>6, OneFrame
  <2>4. in_service' = {n \in IRQs : handlers' # <<>> /\ Top'.irq = n /\ Top'.at # "iretd"}
    <3>1. Top.at # "iretd" /\ Top'.at # "iretd"
      BY <1>1, <1>5, <1>6
    <3> QED  BY <1>1, <1>6, <3>1 DEF IInv, HandlerInv
  <2>5. state' = "CON_LOCKOUT" <=> handlers' # <<>> /\ Top'.at = "locked"
    BY <1>4, <1>6
  <2> QED  BY <2>1, <2>2, <2>3, <2>4, <2>5 DEF HandlerInv
<1>10. ByteInv'
  <2>1. ~Reading
    BY <1>1 DEF Reading
  <2> QED  BY <1>1, <2>1 DEF IInv, ByteInv
<1>11. BootInv'
  BY <1>1, OneFrame DEF BootInv
<1> QED  BY <1>7, <1>8, <1>9, <1>10, <1>11 DEF IInv

LEMMA AcknowledgeInv ==
  ASSUME IInv, Acknowledge
  PROVE  IInv'
PROOF
<1>1. /\ handlers # <<>> /\ Top.at = "eoi"
      /\ handlers' = [handlers EXCEPT ![1].at = "iretd"]
      /\ in_service' = {n \in in_service : \E m \in in_service : m < n}
      /\ UNCHANGED <<pc, interrupts_on, masked, requested, output, full>>
      /\ UNCHANGED <<consoleVars, extended_prefix, shift_pressed, tick>>
  BY DEF Acknowledge, Goes, pic_send_eoi, outputVars, softVars, keyboardVars
<1>2. Top \in Frame /\ handlers = <<Top>> /\ Top.saved = TRUE
  BY <1>1, OneFrame
<1>3. /\ handlers' # <<>> /\ Top' \in Frame /\ handlers' = <<Top'>>
      /\ Top'.at = "iretd" /\ Top'.saved = TRUE
  BY <1>1, <1>2, Moved
<1>4. ConsoleInv'
  BY <1>1, ConsoleStays DEF IInv
<1>5. MachineType'
  BY <1>1 DEF IInv, MachineType
<1>6. HandlerInv'
  <2>1. interrupts_on' = (pc' = "hlt" /\ handlers' = <<>>)
    BY <1>1, <1>3, OneFrame
  <2>2. in_service' = {}
    <3>1. \A n, m \in in_service : n = m
      BY DEF IInv, HandlerInv
    <3>2. in_service \subseteq Int
      BY DEF IInv, HandlerInv, IRQs, TIMER, KEYBOARD
    <3> QED  BY <1>1, <3>1, <3>2
  <2>3. in_service' = {n \in IRQs : handlers' # <<>> /\ Top'.irq = n /\ Top'.at # "iretd"}
    BY <1>3, <2>2
  <2>4. state' # "CON_LOCKOUT"
    BY <1>1 DEF IInv, HandlerInv, consoleVars
  <2> QED  BY <1>1, <1>3, <2>1, <2>3, <2>4, OneFrame DEF HandlerInv
<1>7. ByteInv'
  <2>1. ~Reading
    BY <1>1 DEF Reading
  <2> QED  BY <1>1, <2>1 DEF IInv, ByteInv
<1>8. BootInv'
  BY <1>1, OneFrame DEF BootInv
<1> QED  BY <1>4, <1>5, <1>6, <1>7, <1>8 DEF IInv

LEMMA IretdInv ==
  ASSUME IInv, iretd
  PROVE  IInv'
PROOF
<1>1. /\ handlers # <<>> /\ Top.at = "iretd"
      /\ interrupts_on' = Top.saved
      /\ handlers' = Tail(handlers)
      /\ UNCHANGED <<pc, masked, requested, in_service, output, full>>
      /\ UNCHANGED <<consoleVars, extended_prefix, shift_pressed, tick>>
  BY DEF iretd, picVars, outputVars, softVars, keyboardVars
<1>2. pc = "hlt" /\ Top.saved = TRUE /\ handlers = <<Top>>
  BY <1>1, OneFrame
<1>3. handlers' = <<>>
  BY <1>1, <1>2
<1>4. ConsoleInv'
  BY <1>1, ConsoleStays DEF IInv
<1>5. MachineType'
  BY <1>1 DEF IInv, MachineType
<1>6. HandlerInv'
  <2>1. interrupts_on' = (pc' = "hlt" /\ handlers' = <<>>)
    BY <1>1, <1>2, <1>3
  <2>2. in_service' = {}
    BY <1>1 DEF IInv, HandlerInv
  <2>3. state' # "CON_LOCKOUT"
    BY <1>1 DEF IInv, HandlerInv, consoleVars
  <2> QED  BY <1>3, <2>1, <2>2, <2>3 DEF HandlerInv
<1>7. ByteInv'
  <2>1. ~Reading
    BY <1>1 DEF Reading
  <2> QED  BY <1>1, <2>1 DEF IInv, ByteInv
<1>8. BootInv'
  BY <1>1, <1>2 DEF BootInv
<1> QED  BY <1>4, <1>5, <1>6, <1>7, <1>8 DEF IInv

-----------------------------------------------------------------------------
(* The theorems.                                                            *)

LEMMA NextIInv == IInv /\ [Next]_vars => IInv'
PROOF
<1> SUFFICES ASSUME IInv, [Next]_vars PROVE IInv'
  OBVIOUS
<1>1. CASE UNCHANGED vars
  <2>1. /\ UNCHANGED <<pc, interrupts_on, handlers, masked, requested, in_service>>
        /\ UNCHANGED <<output, full, extended_prefix, shift_pressed, tick>>
        /\ UNCHANGED consoleVars
    BY <1>1 DEF vars, cpuVars, picVars, outputVars, softVars, keyboardVars
  <2>2. ConsoleInv'
    BY <2>1, ConsoleStays DEF IInv
  <2>3. HandlerInv'
    BY <2>1 DEF IInv, HandlerInv, Top, consoleVars
  <2>4. MachineType' /\ ByteInv'
    BY <2>1 DEF IInv, MachineType, ByteInv, Reading, Top
  <2>5. BootInv'
    BY <2>1 DEF IInv, BootInv, ConsoleInit, consoleVars
  <2> QED  BY <2>2, <2>3, <2>4, <2>5 DEF IInv
<1>2. CASE Hardware
  BY <1>2, KeyboardSendsInv, TimerFiresInv, TakeInterruptInv DEF Hardware
<1>3. CASE isr_handler
  BY <1>3, TimerHandlerInv, KeyboardHandlerInv, HandleKeyInv, AcknowledgeInv,
     IretdInv DEF isr_handler
<1>4. CASE handlers = <<>> /\ kernel_main
  BY <1>4, KernelMainInv
<1> QED  BY <1>1, <1>2, <1>3, <1>4 DEF Next

\* The inductive invariant of the kernel: who runs, which interrupt is in
\* service, where the next byte is, and the console's own invariant.
THEOREM Invariance == Spec => []IInv
BY InitIInv, NextIInv, PTL DEF Spec

\* Handlers never nest and nothing is in service but what runs: the code that
\* runs in a handler needs no locks.
THEOREM OneHandler == Spec => []HandlersDontNest
PROOF
<1>1. IInv => HandlersDontNest
  <2> SUFFICES ASSUME IInv PROVE HandlersDontNest
    OBVIOUS
  <2>1. CASE handlers = <<>>
    <3>1. Len(handlers) = 0 /\ DOMAIN handlers = {}
      BY <2>1
    <3>2. {handlers[i].irq : i \in {j \in DOMAIN handlers : handlers[j].at # "iretd"}} = {}
      BY <3>1
    <3>3. in_service = {}
      BY <2>1 DEF IInv, HandlerInv
    <3>4. interrupts_on <=> pc = "hlt" /\ handlers = <<>>
      BY DEF IInv, HandlerInv
    <3> QED  BY <3>1, <3>2, <3>3, <3>4 DEF HandlersDontNest
  <2>2. CASE handlers # <<>>
    <3>1. Top \in Frame /\ handlers = <<Top>> /\ interrupts_on = FALSE
      BY <2>2, OneFrame
    <3>2. Len(handlers) = 1 /\ DOMAIN handlers = {1} /\ handlers[1] = Top
      BY <3>1 DEF Top
    <3>3. Top.irq \in IRQs
      BY <3>1 DEF Frame
    <3>4. {handlers[i].irq : i \in {j \in DOMAIN handlers : handlers[j].at # "iretd"}}
            = {n \in IRQs : Top.irq = n /\ Top.at # "iretd"}
      BY <3>2, <3>3
    <3> QED  BY <2>2, <3>1, <3>2, <3>4 DEF IInv, HandlerInv, HandlersDontNest
  <2> QED  BY <2>1, <2>2
<1> QED  BY <1>1, Invariance, PTL

\* Every variable of the kernel and of the console keeps its type.
THEOREM TypeCorrect == Spec => []TypeOK
PROOF
<1>1. IInv => TypeOK
  <2> SUFFICES ASSUME IInv PROVE TypeOK
    OBVIOUS
  <2>1. handlers \in Seq(Frame)
    <3>1. CASE handlers = <<>>
      BY <3>1
    <3>2. ASSUME NEW f \in Frame, handlers = <<f>>
          PROVE  handlers \in Seq(Frame)
      BY <3>2
    <3> QED  BY <3>1, <3>2 DEF IInv, HandlerInv
  <2>2. interrupts_on \in BOOLEAN /\ in_service \subseteq IRQs
    BY DEF IInv, HandlerInv
  <2> QED  BY Zenon, <2>1, <2>2 DEF TypeOK, IInv, MachineType, ConsoleInv
<1> QED  BY <1>1, Invariance, PTL

\* Once the drivers are up, a byte the keyboard controller holds is on its way.
THEOREM BytesMove == Spec => []NoStuckByte
PROOF
<1>1. IInv => NoStuckByte
  <2> SUFFICES ASSUME IInv, Reading
               PROVE  \E i \in DOMAIN handlers :
                         handlers[i].irq = KEYBOARD /\ handlers[i].at = "call"
    BY DEF NoStuckByte, IInv, ByteInv
  <2>1. handlers = <<Top>> /\ Top.irq = KEYBOARD /\ Top.at = "call"
    BY OneFrame DEF Reading
  <2>2. 1 \in DOMAIN handlers /\ handlers[1] = Top
    BY <2>1 DEF Top
  <2> QED  BY <2>1, <2>2
<1> QED  BY <1>1, Invariance, PTL

\* After the lockout nothing of the kernel changes any more.
THEOREM LockedForGood == Spec => LockoutIsFinal
PROOF
<1>1. IInv /\ [Next]_vars
        => [state = "CON_LOCKOUT" => UNCHANGED <<cpuVars, softVars>>]_vars
  <2> SUFFICES ASSUME IInv, Next, state = "CON_LOCKOUT"
               PROVE  UNCHANGED <<cpuVars, softVars>>
    OBVIOUS
  <2>1. handlers # <<>> /\ Top.at = "locked"
    BY DEF IInv, HandlerInv
  <2>2. interrupts_on = FALSE
    BY <2>1, OneFrame
  <2>3. CASE Hardware
    BY <2>2, <2>3 DEF Hardware, KeyboardSends, TimerFires, TakeInterrupt
  <2>4. CASE isr_handler
    BY <2>1, <2>4 DEF isr_handler, timer_handler, keyboard_handler, HandleKey,
       Acknowledge, iretd, Goes
  <2> QED  BY <2>1, <2>3, <2>4 DEF Next
<1> QED  BY <1>1, Invariance, PTL DEF Spec, LockoutIsFinal

\* The drivers and the handlers show the console nothing but whole keys: the
\* kernel implements the console, and with it the abstract gate.
THEOREM ConsoleImplemented == Spec => ImplementsConsole
PROOF
<1>1. Init => ConsoleInit
  BY DEF Init
<1>2. IInv /\ [Next]_vars => [ConsoleNext]_consoleVars
  <2> SUFFICES ASSUME IInv, [Next]_vars PROVE [ConsoleNext]_consoleVars
    OBVIOUS
  <2>1. CASE UNCHANGED vars
    BY <2>1 DEF vars, softVars
  <2>2. CASE Hardware
    BY <2>2 DEF Hardware, KeyboardSends, TimerFires, TakeInterrupt, softVars
  <2>3. CASE timer_handler \/ keyboard_handler \/ Acknowledge \/ iretd
    BY <2>3 DEF timer_handler, keyboard_handler, Acknowledge, iretd, softVars
  <2>4. CASE HandleKey
    <3>1. handlers # <<>> /\ handle_scancode(Top.scancode)
      BY <2>4 DEF HandleKey
    <3>2. Top.scancode \in 0 .. 255
      BY <3>1, OneFrame DEF Frame
    <3> QED  BY <3>1, <3>2, ScancodeIsKey DEF ConsoleNext
  <2>5. CASE handlers = <<>> /\ kernel_main
    <3>1. CASE Boot("console_init") /\ console_init
      BY <3>1 DEF Boot, IInv, BootInv, ConsoleInit, console_init, consoleVars
    <3> QED
      BY <2>5, <3>1 DEF kernel_main, idt_init, keyboard_init, timer_init, Unmask,
         mouse_read
  <2> QED  BY <2>1, <2>2, <2>3, <2>4, <2>5 DEF Next, isr_handler
<1> QED  BY <1>1, <1>2, Invariance, PTL DEF Spec, ImplementsConsole, ConsoleSpec

\* From the keyboard's bytes on, the shell is reached through the gate only.
THEOREM KernelGated == Spec => ImplementsGate
BY ConsoleImplemented, GateImplemented, PTL DEF ImplementsConsole
=============================================================================
