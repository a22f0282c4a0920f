---------------------------- MODULE Interrupts -----------------------------
(***************************************************************************)
(* Interrupts (kernel/idt.c, kernel/isr.c, boot/isr.s), the order in which *)
(* kernel_main sets them up, and the timer that depends on them            *)
(* (drivers/timer.c): its tick, and a program that sleeps.                 *)
(*                                                                         *)
(* The two 8259A controllers are external.  A request is latched (irr)     *)
(* until the CPU takes it; it is then in service (isr) until the end of    *)
(* interrupt is written, and blocks its own and all lower priorities.  The *)
(* slave's lines 8-15 arrive at the master's line 2.  A request withdrawn  *)
(* at the last moment arrives as line 7 or 15 with nothing in service.     *)
(* Requests are the timer's, the keyboard's and those of lines without a   *)
(* handler, such as the disk's.  The firmware left the used lines          *)
(* unmasked, and pic_remap puts its masks back.                            *)
(*                                                                         *)
(* Hardware interrupts are far apart: no device asks twice between two     *)
(* instructions of the program (raised).                                   *)
(***************************************************************************)
EXTENDS Integers, FiniteSetsExt

CONSTANTS
  Lines,        \* lines with a device: 0 the timer, 1 the keyboard, others
  Faults,       \* exceptions the CPU may raise
  TIMER_HZ,
  SECOND,       \* milliseconds in a second: 1000
  TICK_WORD,    \* uint32_t counts modulo TICK_WORD
  Durations,    \* milliseconds given to timer_sleep
  MaxSpurious   \* bound: spurious interrupts that are explored

ASSUME InterruptsAssumption ==
  /\ Lines \subseteq (0 .. 15) \ {2} /\ {0, 1} \subseteq Lines
  /\ Faults \subseteq 0 .. 31
  /\ TIMER_HZ \in Nat \ {0} /\ MaxSpurious \in Nat
  /\ SECOND \in Nat /\ SECOND >= 2
  /\ TICK_WORD \in Nat \ {0} /\ TICK_WORD % 2 = 0
  /\ Durations \subseteq 0 .. TICK_WORD - 1

VARIABLES
  pc,         \* where the program is; "halted" inside a hlt
  cpu,        \* [at, int_no]: "main" or a step of an interrupt's handling
  enabled,    \* the interrupt flag
  loaded,     \* the IDT is in place
  base,       \* the vectors of lines 0 and 8
  handlers,   \* irq_handlers
  irr,        \* latched requests
  isr,        \* lines in service
  ticks,
  target,     \* of the running timer_sleep
  raised,     \* lines that asked since the program's last instruction
  spurious,   \* spurious interrupts so far, up to MaxSpurious
  asked,      \* auxiliary: the last sleep's milliseconds
  slept,      \* auxiliary: timer interrupts during it, up to TICK_WORD
  faulted     \* auxiliary: the CPU raised an exception

program == <<pc, target, asked>>
tables  == <<loaded, base, handlers>>
clock   == <<ticks, slept>>
env     == <<raised, spurious, faulted>>
vars    == <<program, cpu, enabled, tables, irr, isr, clock, env>>

Main    == [at |-> "main", int_no |-> 0]
Stopped == cpu.at \in {"panic", "crash", "off"}

(* The program is in timer_sleep. *)
Sleeping == pc \in {"test", "hlt", "halted"}

-----------------------------------------------------------------------------
(* The controllers (external) *)

(* Where a line arrives at the master. *)
OnMaster(line) == IF line >= 8 THEN 2 ELSE line

(* Nothing in service keeps the line from the CPU. *)
Free(line) ==
  /\ \A s \in isr : s < 8 => OnMaster(line) < s
  /\ \A s \in isr : s >= 8 /\ line >= 8 => line < s

Deliverable == {line \in irr : Free(line)}

(* The line the CPU gets first. *)
Highest(line) ==
  /\ line \in Deliverable
  /\ \A l \in Deliverable : \/ OnMaster(line) < OnMaster(l)
                            \/ OnMaster(line) = OnMaster(l) /\ line <= l

Vector(line) == IF line >= 8 THEN base.slave + line - 8 ELSE base.master + line

(* The lines left in service by an end of interrupt to either controller:  *)
(* it ends the one of highest priority.                                    *)
Ended(s, controller) == IF s \cap controller = {} THEN s
                        ELSE s \ {Min(s \cap controller)}

(* A device asks. *)
Raise(line) ==
  /\ line \notin raised
  /\ irr' = irr \cup {line} /\ raised' = raised \cup {line}
  /\ UNCHANGED <<program, cpu, enabled, tables, isr, clock, spurious, faulted>>

-----------------------------------------------------------------------------
(* The tables *)

(* Mutant: the stubs of the slave's lines push a number that is one off. *)
Gate_OffByOne(vector) ==
  [at     |-> IF vector < 32 THEN "isr" ELSE "irq",
   int_no |-> IF vector < 40 THEN vector ELSE vector - 1]

(* Where the CPU goes: the stub behind the gate, with the number it        *)
(* pushes.  A gate that idt_init left cleared is no gate, which the CPU    *)
(* reports as exception 13; before lidt there is no table to look in.      *)
Gate(vector) ==
  CASE ~loaded              -> [at |-> "crash", int_no |-> vector]
    [] loaded /\ vector < 32 -> [at |-> "isr", int_no |-> vector]
    [] loaded /\ vector \in 32 .. 47 -> [at |-> "irq", int_no |-> vector]
    [] OTHER                -> [at |-> "isr", int_no |-> 13]

(* Mutant: the controllers keep the firmware's vectors. *)
pic_remap_Kept == irr' = {} /\ isr' = {} /\ UNCHANGED base

(* Its reset drops requests and services; the masks are put back. *)
pic_remap == base' = [master |-> 32, slave |-> 40] /\ irr' = {} /\ isr' = {}

idt_init ==
  /\ pc = "idt_init"
  /\ pic_remap
  /\ loaded' = TRUE
  /\ pc' = "timer_init"
  /\ UNCHANGED <<target, asked, cpu, enabled, handlers, clock, env>>

(* Mutant: "num > 0". *)
irq_install_handler_SkipsZero(num, handler) ==
  handlers' = IF num \in 1 .. 15 THEN [handlers EXCEPT ![num] = handler]
                                 ELSE handlers

irq_install_handler(num, handler) ==
  handlers' = IF num \in 0 .. 15 THEN [handlers EXCEPT ![num] = handler]
                                 ELSE handlers

-----------------------------------------------------------------------------
(* Handling an interrupt *)

(* The CPU stops for a request: interrupt gates clear the flag. *)
Interrupt ==
  /\ cpu = Main /\ enabled
  /\ \E line \in Lines :
       /\ Highest(line)
       /\ irr' = irr \ {line}
       /\ isr' = isr \cup {line, OnMaster(line)}
       /\ cpu' = Gate(Vector(line))
       /\ slept' = IF line = 0 /\ Sleeping /\ slept < TICK_WORD
                   THEN slept + 1 ELSE slept
  /\ enabled' = FALSE
  /\ UNCHANGED <<program, tables, ticks, env>>

(* Only the master takes part in a spurious line 15. *)
SpuriousInterrupt(line) ==
  /\ cpu = Main /\ enabled /\ spurious < MaxSpurious
  /\ isr' = IF line = 15 THEN isr \cup {2} ELSE isr
  /\ cpu' = Gate(Vector(line))
  /\ enabled' = FALSE /\ spurious' = spurious + 1
  /\ UNCHANGED <<program, tables, irr, clock, raised, faulted>>

Exception(number) ==
  /\ cpu = Main /\ loaded
  /\ cpu' = Gate(number) /\ enabled' = FALSE
  /\ faulted' = TRUE
  /\ UNCHANGED <<program, tables, irr, isr, clock, raised, spurious>>

(* isr_handler prints the panic and stops for good. *)
isr_handler ==
  /\ cpu.at = "isr"
  /\ cpu' = [cpu EXCEPT !.at = "panic"]
  /\ UNCHANGED <<program, enabled, tables, irr, isr, clock, env>>

(* Mutant: the counter is wider than the target. *)
timer_callback_Wider == ticks' = ticks + 1

timer_callback == ticks' = (ticks + 1) % TICK_WORD

(* irq_handler up to the call; the keyboard's callback is module Keyboard. *)
irq_handler ==
  /\ cpu.at = "irq"
  /\ IF cpu.int_no - 32 \in 0 .. 15
        /\ handlers[cpu.int_no - 32] = "timer_callback"
       THEN timer_callback
       ELSE UNCHANGED ticks
  /\ cpu' = [cpu EXCEPT !.at = "eoi"]
  /\ UNCHANGED <<program, enabled, tables, irr, isr, slept, env>>

(* Mutant: the slave is not told. *)
EndOfInterrupt_MasterOnly ==
  /\ cpu.at = "eoi"
  /\ isr' = Ended(isr, 0 .. 7)
  /\ cpu' = [cpu EXCEPT !.at = "iret"]
  /\ UNCHANGED <<program, enabled, tables, irr, clock, env>>

(* The rest of it: the slave if the line is one of its own, the master     *)
(* always.                                                                 *)
EndOfInterrupt ==
  /\ cpu.at = "eoi"
  /\ isr' = Ended(IF cpu.int_no - 32 >= 8 THEN Ended(isr, 8 .. 15) ELSE isr,
                  0 .. 7)
  /\ cpu' = [cpu EXCEPT !.at = "iret"]
  /\ UNCHANGED <<program, enabled, tables, irr, clock, env>>

(* sti; iret.  No interrupt comes between the two.  An hlt is over. *)
iret ==
  /\ cpu.at = "iret"
  /\ cpu' = Main /\ enabled' = TRUE
  /\ pc' = IF pc = "halted" THEN "test" ELSE pc
  /\ UNCHANGED <<target, asked, tables, irr, isr, clock, env>>

-----------------------------------------------------------------------------
(* The program: kernel_main, then commands that sleep *)

(* Its next instruction, which a request the CPU can take precedes. *)
Step(from, to) ==
  /\ cpu = Main /\ pc = from /\ pc' = to
  /\ ~(enabled /\ Deliverable # {})
  /\ raised' = {}
  /\ UNCHANGED <<irr, isr, spurious, faulted>>

timer_init ==
  /\ Step("timer_init", "keyboard_init")
  /\ ticks' = 0
  /\ irq_install_handler(0, "timer_callback")
  /\ UNCHANGED <<target, asked, cpu, enabled, loaded, base, slept>>

keyboard_init ==
  /\ Step("keyboard_init", "sti")
  /\ irq_install_handler(1, "keyboard_callback")
  /\ UNCHANGED <<target, asked, cpu, enabled, loaded, base, clock>>

sti ==
  /\ Step("sti", "prompt")
  /\ enabled' = TRUE
  /\ UNCHANGED <<target, asked, cpu, tables, clock>>

(* The ticks to wait, rounded up.  The product and the sum are uint32_t. *)
wanted(ms) == ((ms * TIMER_HZ + SECOND - 1) % TICK_WORD) \div SECOND

timer_sleep(ms) ==
  /\ Step("prompt", "test")
  /\ target' = (ticks + wanted(ms)) % TICK_WORD
  /\ asked' = ms /\ slept' = 0
  /\ UNCHANGED <<cpu, enabled, tables, ticks>>

(* Mutant: the difference is not read as signed. *)
Before_Unsigned == target # ticks

(* (int32_t)(target - ticks) > 0 *)
Before == (target - ticks) % TICK_WORD \in 1 .. TICK_WORD \div 2 - 1

(* The test of the loop, and the hlt after it. *)
TestTicks ==
  /\ Step("test", IF Before THEN "hlt" ELSE "prompt")
  /\ UNCHANGED <<target, asked, cpu, enabled, tables, clock>>

hlt ==
  /\ Step("hlt", "halted")
  /\ UNCHANGED <<target, asked, cpu, enabled, tables, clock>>

(* cli; hlt *)
cmd_halt ==
  /\ Step("prompt", "prompt")
  /\ cpu' = [Main EXCEPT !.at = "off"] /\ enabled' = FALSE
  /\ UNCHANGED <<target, asked, tables, clock>>

-----------------------------------------------------------------------------
(* The firmware left vectors 8 and 0x70, and perhaps a request. *)
Init ==
  /\ pc = "idt_init" /\ cpu = Main /\ enabled = FALSE /\ loaded = FALSE
  /\ base = [master |-> 8, slave |-> 112]
  /\ handlers = [num \in 0 .. 15 |-> "none"]
  /\ irr \in SUBSET Lines /\ isr = {}
  /\ ticks = 0 /\ target = 0 /\ raised = {} /\ spurious = 0
  /\ asked = 0 /\ slept = 0 /\ faulted = FALSE

Cpu ==
  \/ idt_init \/ timer_init \/ keyboard_init \/ sti
  \/ TestTicks \/ hlt
  \/ Interrupt \/ isr_handler \/ irq_handler \/ EndOfInterrupt \/ iret

Next ==
  \/ Cpu
  \/ \E ms \in Durations : timer_sleep(ms)
  \/ cmd_halt
  \/ \E line \in Lines : Raise(line)
  \/ \E line \in {7, 15} : SpuriousInterrupt(line)
  \/ \E number \in Faults : Exception(number)

(* The CPU does not stop by itself, and the timer never stops. *)
Spec == Init /\ [][Next]_vars /\ WF_vars(Cpu) /\ WF_vars(Raise(0))

-----------------------------------------------------------------------------
(* Properties *)

(* Values of the right kind. *)
TypeOK ==
  /\ pc \in {"idt_init", "timer_init", "keyboard_init", "sti", "prompt",
             "test", "hlt", "halted"}
  /\ cpu.at \in {"main", "isr", "irq", "eoi", "iret", "panic", "crash", "off"}
  /\ enabled \in BOOLEAN /\ loaded \in BOOLEAN /\ faulted \in BOOLEAN
  /\ irr \subseteq Lines /\ isr \subseteq Lines \cup {2}
  /\ raised \subseteq Lines /\ spurious \in 0 .. MaxSpurious
  /\ ticks \in 0 .. TICK_WORD - 1 /\ target \in 0 .. TICK_WORD - 1
  /\ slept \in 0 .. TICK_WORD

(* pic_remap's comment, "a keyboard press would look like a double fault": *)
(* the kernel panics, or meets an absent gate, only if the CPU raised an   *)
(* exception, whatever devices ask from before idt_init on.                *)
NoFalsePanic == cpu.at \in {"isr", "panic", "crash"} => faulted

(* irq_handler's comment, "Tell the controllers we are done, or they will  *)
(* never send again": whenever the program runs, no line is in service, on *)
(* either controller, whether it had a handler or not, and also after      *)
(* spurious interrupts, which end a service that never began.              *)
ControllersFree == cpu = Main => isr = {}

(* A latched request reaches irq_handler under its own number, whatever    *)
(* else asks, unless the system stops.                                     *)
RequestIsHandled ==
  \A line \in Lines :
    line \in irr /\ loaded ~> \/ cpu.at = "eoi" /\ cpu.int_no = 32 + line
                              \/ Stopped

(* timer_sleep: the timer's interrupts while it waits cover the            *)
(* milliseconds asked for, and are at most one more than it takes, also    *)
(* when the counter wraps on the way, when other interrupts end the hlt,   *)
(* and when the last tick comes between the test and the hlt.  Left out    *)
(* are sleeps of so many milliseconds that timer_sleep's product wraps.    *)
SleepLength ==
  pc = "prompt" /\ asked * TIMER_HZ + SECOND - 1 < TICK_WORD
    => /\ slept * SECOND >= asked * TIMER_HZ
       /\ (slept - 2) * SECOND < asked * TIMER_HZ

(* Every sleep ends, unless the system stops. *)
SleepEnds == pc = "test" ~> pc = "prompt" \/ Stopped
=============================================================================
