------------------------------- MODULE Kernel -------------------------------
(***************************************************************************)
(* The kernel as it runs: the boot sequence of kernel_main (kernel/kernel.c),*)
(* the interrupt gates and the handlers (kernel/idt.c, isr.c,                *)
(* interrupts.asm), the timer and keyboard drivers (drivers/timer.c,         *)
(* keyboard.c) and the console behind them.  After boot kernel_main only     *)
(* halts: everything happens in interrupt handlers.                          *)
(*                                                                          *)
(* The interrupt controller, the processor's interrupt entry and the         *)
(* keyboard controller are not code of the kernel: they are modelled from    *)
(* how it uses them.  Left out: the mouse, whose interrupt never comes since *)
(* mouse_init's port writes have their operands swapped (mouse.c:33-35), and *)
(* what is only displayed.                                                   *)
(***************************************************************************)
EXTENDS Console

CONSTANTS
  Scancodes,    \* bytes the keyboard sends
  keymap,       \* the tables of keyboard.c
  keymap_shift,
  NUL,          \* '\0': the key has no character
  TickModulus   \* tick is an unsigned int: 2^32 in the build

ASSUME KernelAssumption ==
  /\ Scancodes \subseteq 0 .. 255
  /\ keymap \in [0 .. 127 -> Typed \cup {NUL}]
  /\ keymap_shift \in [0 .. 127 -> Typed \cup {NUL}]
  /\ NUL \notin Typed
  /\ TickModulus \in Nat \ {0}

VARIABLES
  pc,              \* the call kernel_main makes next
  interrupts_on,   \* the processor's IF
  handlers,        \* frames of the handlers under way, innermost first
  masked,          \* the controller's interrupt mask
  requested,       \* interrupt lines that have risen and wait
  in_service,      \* interrupts taken and not acknowledged
  output,          \* the byte in port 0x60
  full,            \* whether the keyboard controller holds it for the kernel
  extended_prefix,
  shift_pressed,
  tick

cpuVars      == <<pc, interrupts_on, handlers>>
picVars      == <<masked, requested, in_service>>
outputVars   == <<output, full>>
keyboardVars == <<extended_prefix, shift_pressed>>
softVars     == <<consoleVars, keyboardVars, tick>>
vars == <<cpuVars, picVars, outputVars, softVars>>

TIMER    == 0
KEYBOARD == 1
IRQs     == {TIMER, KEYBOARD}

BootStep == {"idt_init", "keyboard_init", "timer_init", "mouse_init",
             "mouse_init_enable", "console_init", "sti", "hlt"}

\* A handler: which interrupt, where it is, the scancode it has read, and the
\* IF that iretd will restore.
Frame ==
  [irq : IRQs, at : {"call", "handle", "eoi", "iretd", "locked"},
   scancode : 0 .. 255, saved : BOOLEAN]

\* The boot loader enters with interrupts off; keys may have been pressed.
Init ==
  /\ ConsoleInit
  /\ pc = "idt_init"
  /\ interrupts_on = FALSE
  /\ handlers = <<>>
  /\ masked \in SUBSET IRQs
  /\ requested \in SUBSET IRQs
  /\ in_service = {}
  /\ output \in Scancodes
  /\ full \in BOOLEAN
  /\ extended_prefix = FALSE
  /\ shift_pressed = FALSE
  /\ tick = 0

-----------------------------------------------------------------------------
(* The hardware.                                                            *)

\* A byte from the keyboard; the next one waits until it has been read.
KeyboardSends(code) ==
  /\ ~full
  /\ output' = code
  /\ full' = TRUE
  /\ requested' = requested \cup {KEYBOARD}
  /\ UNCHANGED <<cpuVars, masked, in_service, softVars>>

\* The timer's period is longer than timer_handler; a tick that finds the last
\* one still waiting is lost.
TimerFires ==
  /\ \A i \in DOMAIN handlers : handlers[i].irq # TIMER
  /\ requested' = requested \cup {TIMER}
  /\ UNCHANGED <<cpuVars, masked, in_service, outputVars, softVars>>

\* Reading port 0x60 empties the controller; an empty one gives its last byte.
InputByte == full' = FALSE /\ UNCHANGED output

GateFlags_Trap == TRUE \* faulty: a trap gate (0x8F) leaves interrupts on

\* IF in a handler: idt_set_gate makes interrupt gates (0x8E).
GateFlags == FALSE

\* The processor takes the waiting interrupt of the highest priority, unless
\* one as high is in service.
TakeInterrupt(n) ==
  /\ interrupts_on
  /\ n \in requested \ masked
  /\ \A m \in (requested \ masked) : n <= m
  /\ \A m \in in_service : n < m
  /\ requested' = requested \ {n}
  /\ in_service' = in_service \cup {n}
  /\ interrupts_on' = GateFlags
  /\ handlers' = <<[irq |-> n, at |-> "call", scancode |-> 0,
                    saved |-> interrupts_on]>> \o handlers
  /\ UNCHANGED <<pc, masked, outputVars, softVars>>

-----------------------------------------------------------------------------
(* kernel_main.                                                             *)

\* remap_pic restarts the controller, which forgets the lines that have risen,
\* and puts the mask back.
idt_init ==
  /\ requested' = {}
  /\ in_service' = {}
  /\ UNCHANGED <<masked, outputVars, consoleVars, interrupts_on>>

Unmask(n) ==
  /\ masked' = masked \ {n}
  /\ UNCHANGED <<requested, in_service, outputVars, consoleVars, interrupts_on>>

keyboard_init == Unmask(KEYBOARD)

timer_init == Unmask(TIMER)

mouse_read_None == \* faulty: mouse_init leaves port 0x60 alone
  UNCHANGED <<picVars, outputVars, consoleVars, interrupts_on>>

\* mouse_init reads port 0x60 twice, for a status byte and for an answer.
mouse_read ==
  /\ InputByte
  /\ UNCHANGED <<picVars, consoleVars, interrupts_on>>

NextCall_StiFirst == \* faulty: interrupts on before the console is set up
  [idt_init |-> "keyboard_init", keyboard_init |-> "timer_init",
   timer_init |-> "mouse_init", mouse_init |-> "mouse_init_enable",
   mouse_init_enable |-> "sti", sti |-> "console_init", console_init |-> "hlt"]

NextCall ==
  [idt_init |-> "keyboard_init", keyboard_init |-> "timer_init",
   timer_init |-> "mouse_init", mouse_init |-> "mouse_init_enable",
   mouse_init_enable |-> "console_init", console_init |-> "sti", sti |-> "hlt"]

Boot(call) ==
  /\ pc = call
  /\ pc' = NextCall[call]
  /\ UNCHANGED <<handlers, keyboardVars, tick>>

kernel_main ==
  \/ Boot("idt_init") /\ idt_init
  \/ Boot("keyboard_init") /\ keyboard_init
  \/ Boot("timer_init") /\ timer_init
  \/ Boot("mouse_init") /\ mouse_read
  \/ Boot("mouse_init_enable") /\ mouse_read
  \/ /\ Boot("console_init") /\ console_init
     /\ UNCHANGED <<picVars, outputVars, interrupts_on>>
  \/ /\ Boot("sti") /\ interrupts_on' = TRUE
     /\ UNCHANGED <<picVars, outputVars, consoleVars>>

-----------------------------------------------------------------------------
(* The handlers.                                                            *)

Top == handlers[1]

\* The handler under way is at `at' and goes on to `next'.
Goes(at, next) ==
  /\ handlers # <<>> /\ Top.at = at
  /\ handlers' = [handlers EXCEPT ![1].at = next]
  /\ UNCHANGED <<pc, interrupts_on>>

timer_handler ==
  /\ handlers # <<>> /\ Top.irq = TIMER
  /\ Goes("call", "eoi")
  /\ tick' = (tick + 1) % TickModulus
  /\ UNCHANGED <<picVars, outputVars, consoleVars, keyboardVars>>

\* keyboard_handler reads the byte and handles it.
keyboard_handler ==
  /\ handlers # <<>> /\ Top.irq = KEYBOARD /\ Top.at = "call"
  /\ handlers' = [handlers EXCEPT ![1].at = "handle", ![1].scancode = output]
  /\ InputByte
  /\ UNCHANGED <<pc, interrupts_on, picVars, softVars>>

IsBreak(code) == code >= 128

KeyChar(code) == IF shift_pressed THEN keymap_shift[code] ELSE keymap[code]

PressKey(code) ==
  IF IsBreak(code) \/ KeyChar(code) = NUL
  THEN UNCHANGED consoleVars
  ELSE console_on_key(KeyChar(code))

handle_scancode(code) ==
  \/ /\ code = 224
     /\ extended_prefix' = TRUE
     /\ UNCHANGED <<shift_pressed, consoleVars>>
  \/ /\ code \in {42, 54}
     /\ shift_pressed' = TRUE
     /\ UNCHANGED <<extended_prefix, consoleVars>>
  \/ /\ code \in {170, 182}
     /\ shift_pressed' = FALSE
     /\ UNCHANGED <<extended_prefix, consoleVars>>
  \/ /\ code \notin {224, 42, 54, 170, 182}
     /\ extended_prefix
     /\ extended_prefix' = FALSE
     /\ console_on_extended_scancode
     /\ UNCHANGED shift_pressed
  \/ /\ code \notin {224, 42, 54, 170, 182}
     /\ ~extended_prefix
     /\ PressKey(code)
     /\ UNCHANGED keyboardVars

AfterKey_Returns == "eoi" \* faulty: the lockout sets its state and returns

\* The lockout halts inside the handler, which then never comes to its end.
AfterKey ==
  IF state # "CON_LOCKOUT" /\ state' = "CON_LOCKOUT" THEN "locked" ELSE "eoi"

HandleKey ==
  /\ handlers # <<>> /\ Top.at = "handle"
  /\ handle_scancode(Top.scancode)
  /\ Goes("handle", AfterKey)
  /\ UNCHANGED <<tick, picVars, outputVars>>

pic_send_eoi_Timer == \* faulty: only the timer's handler acknowledges
  in_service' = in_service \ {TIMER}

\* Acknowledges the interrupt of the highest priority in service.
pic_send_eoi ==
  in_service' = {n \in in_service : \E m \in in_service : m < n}

Acknowledge ==
  /\ Goes("eoi", "iretd")
  /\ pic_send_eoi
  /\ UNCHANGED <<masked, requested, outputVars, softVars>>

iretd ==
  /\ handlers # <<>> /\ Top.at = "iretd"
  /\ interrupts_on' = Top.saved
  /\ handlers' = Tail(handlers)
  /\ UNCHANGED <<pc, picVars, outputVars, softVars>>

isr_handler == timer_handler \/ keyboard_handler \/ HandleKey \/ Acknowledge \/ iretd

-----------------------------------------------------------------------------

Hardware ==
  \/ \E code \in Scancodes : KeyboardSends(code)
  \/ TimerFires
  \/ \E n \in IRQs : TakeInterrupt(n)

\* While a handler runs kernel_main does not.
Next == Hardware \/ isr_handler \/ (handlers = <<>> /\ kernel_main)

Spec == Init /\ [][Next]_vars

\* The processor runs on, takes an interrupt that stays waiting, and gets to the
\* keyboard between two ticks again and again, for a tick is longer than a
\* handler.
Fairness ==
  /\ WF_vars(isr_handler)
  /\ WF_vars(handlers = <<>> /\ kernel_main)
  /\ \A n \in IRQs : SF_vars(TakeInterrupt(n))

FairSpec == Spec /\ Fairness
-----------------------------------------------------------------------------
(* Properties.                                                              *)

TypeOK ==
  /\ ConsoleTypeOK
  /\ pc \in BootStep
  /\ interrupts_on \in BOOLEAN
  /\ handlers \in Seq(Frame)
  /\ masked \subseteq IRQs /\ requested \subseteq IRQs /\ in_service \subseteq IRQs
  /\ output \in Scancodes
  /\ full \in BOOLEAN
  /\ extended_prefix \in BOOLEAN
  /\ shift_pressed \in BOOLEAN
  /\ tick \in 0 .. TickModulus - 1

\* One handler runs at a time, from its entry to its iretd, and interrupts are
\* on only while kernel_main halts; what is in service is what the handler has
\* still to acknowledge (idt.c:72, isr.c:17-27).  The console, the scheduler
\* and the file system have no locks and rest on this.
HandlersDontNest ==
  /\ Len(handlers) <= 1
  /\ interrupts_on <=> pc = "hlt" /\ handlers = <<>>
  /\ in_service = {handlers[i].irq : i \in {j \in DOMAIN handlers : handlers[j].at # "iretd"}}

\* Once the drivers are up, a byte the keyboard controller holds has its
\* interrupt waiting, or its handler has been entered and not read it yet: no
\* byte sits in port 0x60 with the line up and nobody coming.  A byte of before
\* the restart of the interrupt controller has lost its interrupt;
\* keyboard_init does not read it (keyboard.c:83-87), mouse_init happens to.
NoStuckByte ==
  pc \in {"console_init", "sti", "hlt"} =>
    /\ KEYBOARD \notin masked
    /\ full => \/ KEYBOARD \in requested
               \/ \E i \in DOMAIN handlers :
                    handlers[i].irq = KEYBOARD /\ handlers[i].at = "call"

\* "Locked. Reset VM to try again.": from the lockout on no key, no tick and no
\* other event changes anything the kernel keeps (console.c:51-56).
LockoutIsFinal ==
  [][state = "CON_LOCKOUT" => UNCHANGED <<cpuVars, softVars>>]_vars

\* Seen through the drivers, the console is one that gets characters only, one
\* whole key at a time, and from its initial state on.
ImplementsConsole == ConsoleSpec

\* Every byte of the keyboard is read in the end, however many timer interrupts
\* come in between, unless the machine is locked.
KeysServed == full ~> (~full \/ state = "CON_LOCKOUT")
=============================================================================
