------------------------- MODULE InterruptsProofs --------------------------
(***************************************************************************)
(* Proofs about module Interrupts, for every set of devices and faults,    *)
(* every timer frequency, every even width of the tick counter and any     *)
(* number of spurious interrupts.                                          *)
(***************************************************************************)
EXTENDS Interrupts, TLAPS

-----------------------------------------------------------------------------
(* The inductive invariant *)

At == {"main", "isr", "irq", "eoi", "iret", "panic", "crash", "off"}

(* sti is behind. *)
Running == {"prompt", "test", "hlt", "halted"}

Handler == {"none", "timer_callback", "keyboard_callback"}

Remapped == [master |-> 32, slave |-> 40]

(* The order of kernel_main: the tables are in place before the first      *)
(* handler, the handlers before interrupts are enabled, and interrupts are *)
(* enabled exactly while the program runs.                                 *)
BootInv ==
  /\ cpu \in [at : At, int_no : Nat]
  /\ cpu.at = "main" => cpu = Main
  /\ handlers \in [0 .. 15 -> Handler]
  /\ loaded <=> pc # "idt_init"
  /\ ~loaded => cpu = Main
  /\ loaded => base = Remapped
  /\ pc \notin {"idt_init", "timer_init"} => handlers[0] = "timer_callback"
  /\ \A num \in 1 .. 15 : handlers[num] # "timer_callback"
  /\ pc \notin Running => cpu.at \in {"main", "isr", "panic"}
  /\ enabled => cpu = Main /\ pc \in Running
  /\ pc \in Running /\ cpu = Main => enabled

(* Lines in service for an interrupt with this number: the line and its    *)
(* way through the master, or, for a spurious one, only the latter.        *)
InService(int_no) ==
  LET line == int_no - 32 IN
  /\ line \in 0 .. 15
  /\ \/ line \in Lines /\ isr = {line, OnMaster(line)}
     \/ line = 7 /\ isr = {}
     \/ line = 15 /\ isr = {2}

(* What is in service at each step of the handling. *)
ServiceInv ==
  /\ cpu.at \in {"main", "iret"} => isr = {}
  /\ cpu.at \in {"irq", "eoi"} => InService(cpu.int_no)

(* The interrupt of the timer has been taken, but not yet counted. *)
Uncounted == IF cpu.at = "irq" /\ cpu.int_no = 32 THEN 1 ELSE 0

(* The timer may still interrupt before the program's next instruction. *)
Coming == IF 0 \notin raised \/ 0 \in irr THEN 1 ELSE 0

(* The ticks left to wait, and their place in a word that wraps. *)
Left == wanted(asked) - slept + Uncounted

(* A tick more than was asked for can only come after the test that lets   *)
(* the loop go on: at most one before the hlt and one during it.           *)
SleepInv ==
  /\ asked \in Durations \cup {0}
  /\ Sleeping => target - ticks \in {Left - TICK_WORD, Left, Left + TICK_WORD}
  /\ Sleeping /\ 0 \in irr => 0 \in raised
  /\ pc \in {"test", "halted"} => slept + Coming <= wanted(asked) + 1
  /\ pc = "hlt" => slept + Coming <= wanted(asked)
  /\ pc = "prompt" => wanted(asked) <= slept /\ slept <= wanted(asked) + 1
  /\ pc \notin Running => asked = 0 /\ slept = 0

IInv == TypeOK /\ BootInv /\ NoFalsePanic /\ ServiceInv /\ SleepInv

-----------------------------------------------------------------------------
(* Lemmas about the operators *)

LEMMA Division ==
  ASSUME NEW n \in Nat, NEW d \in Nat \ {0}
  PROVE  /\ n \div d \in Nat
         /\ (n \div d) * d <= n
         /\ n < (n \div d) * d + d
         /\ n < d => n \div d = 0
<1> DEFINE q == n \div d
           r == n % d
           p == q * d
<1>1. q \in Int /\ r \in 0 .. d - 1
  OBVIOUS
<1>2. n = d * q + r
  OBVIOUS
<1>3. d * q = q * d
  BY <1>1
<1> HIDE DEF q, r
<1>4. p \in Int
  BY <1>1
<1>5. n = p + r
  BY <1>2, <1>3
<1> HIDE DEF p
<1>6. p <= n /\ n < p + d
  BY <1>1, <1>4, <1>5
<1>7. ~(q <= -1)
  <2> SUFFICES ASSUME q <= -1 PROVE FALSE
    OBVIOUS
  <2>1. p <= - d
    BY <1>1 DEF p
  <2> QED
    BY <1>4, <1>6, <2>1
<1>8. n < d => ~(q >= 1)
  <2> SUFFICES ASSUME n < d, q >= 1 PROVE FALSE
    OBVIOUS
  <2>1. p >= d
    BY <1>1 DEF p
  <2> QED
    BY <1>4, <1>6, <2>1
<1>9. q \in Nat /\ (n < d => q = 0)
  BY <1>1, <1>7, <1>8
<1> QED
  BY <1>6, <1>9 DEF p, q

(* Whatever timer_sleep is asked for, it waits for less than half of the   *)
(* counter's range: a second has two milliseconds or more.                 *)
LEMMA WantedInRange ==
  ASSUME NEW ms \in Durations \cup {0}
  PROVE  /\ wanted(ms) \in Nat
         /\ wanted(ms) < TICK_WORD \div 2
         /\ ms = 0 => wanted(ms) = 0
<1> DEFINE m == ms * TIMER_HZ
           s == (m + SECOND - 1) % TICK_WORD
<1>1. m \in Nat /\ (ms = 0 => m = 0)
  BY InterruptsAssumption
<1>2. /\ SECOND \in Nat /\ SECOND >= 2
      /\ TICK_WORD \in Nat \ {0} /\ TICK_WORD % 2 = 0
  BY InterruptsAssumption
<1>3. wanted(ms) = s \div SECOND
  BY DEF wanted
<1> HIDE DEF m
<1>4. s \in 0 .. TICK_WORD - 1 /\ (ms = 0 => s < SECOND)
  BY <1>1, <1>2
<1> DEFINE w == s \div SECOND
<1> HIDE DEF s
<1>5. w \in Nat /\ w * SECOND <= s /\ (ms = 0 => w = 0)
  BY <1>2, <1>4, Division
<1> HIDE DEF w
<1>6. w * 2 <= w * SECOND
  BY <1>2, <1>5
<1>7. w * SECOND \in Nat
  BY <1>2, <1>5
<1> DEFINE p == w * SECOND
<1>8. p \in Nat /\ p <= s /\ w * 2 <= p
  BY <1>5, <1>6, <1>7
<1> HIDE DEF p
<1>9. w < TICK_WORD \div 2
  BY <1>2, <1>4, <1>5, <1>8
<1> QED
  BY <1>3, <1>5, <1>9 DEF w

(* wanted rounds up to whole ticks, unless the product wraps. *)
LEMMA Wanted ==
  ASSUME NEW ms \in Durations \cup {0}, ms * TIMER_HZ + SECOND - 1 < TICK_WORD
  PROVE  /\ wanted(ms) * SECOND >= ms * TIMER_HZ
         /\ (wanted(ms) - 1) * SECOND < ms * TIMER_HZ
<1> DEFINE m == ms * TIMER_HZ
           n == m + SECOND - 1
           w == n \div SECOND
<1>1. /\ m \in Nat /\ SECOND \in Nat /\ SECOND >= 2 /\ TICK_WORD \in Nat
      /\ n < TICK_WORD
  BY InterruptsAssumption
<1>2. n % TICK_WORD = n /\ n \in Nat
  <2> HIDE DEF m
  <2> QED
    BY <1>1
<1>3. wanted(ms) = w
  BY <1>2 DEF wanted
<1>4. n = m + SECOND - 1
  OBVIOUS
<1> HIDE DEF m, n
<1>5. w \in Nat /\ w * SECOND <= n /\ n < w * SECOND + SECOND
  BY <1>1, <1>2, Division
<1> HIDE DEF w
<1>6. (w - 1) * SECOND = w * SECOND - SECOND /\ w * SECOND \in Nat
  BY <1>1, <1>5
<1>7. w * SECOND >= m /\ (w - 1) * SECOND < m
  BY <1>1, <1>2, <1>4, <1>5, <1>6
<1> QED
  BY <1>3, <1>7 DEF m

(* The gates: 32 .. 47 lead to the stubs of the lines. *)
LEMMA LineGate ==
  ASSUME BootInv, loaded, NEW line \in 0 .. 15
  PROVE  Gate(Vector(line)) = [at |-> "irq", int_no |-> 32 + line]
<1>1. Vector(line) = 32 + line
  BY DEF BootInv, Vector, Remapped
<1> QED
  BY <1>1 DEF Gate

LEMMA FaultGate ==
  ASSUME loaded, NEW number \in Faults
  PROVE  Gate(number) = [at |-> "isr", int_no |-> number] /\ number \in Nat
BY InterruptsAssumption DEF Gate

LEMMA MinSingle == ASSUME NEW x \in Int PROVE Min({x}) = x
BY DEF Min

(* The end of interrupt leaves nothing in service. *)
LEMMA AllEnded ==
  ASSUME NEW int_no, InService(int_no)
  PROVE  Ended(IF int_no - 32 >= 8 THEN Ended(isr, 8 .. 15) ELSE isr, 0 .. 7)
           = {}
<1> DEFINE line == int_no - 32
<1>1. line \in 0 .. 15
  BY DEF InService
<1> HIDE DEF line
<1>2. \A s : s \cap (0 .. 7) = {} /\ s = {} => Ended(s, 0 .. 7) = {}
  BY DEF Ended
<1>3. Ended({2}, 0 .. 7) = {}
  <2>1. {2} \cap (0 .. 7) = {2}
    OBVIOUS
  <2> QED
    BY <2>1, MinSingle DEF Ended
<1>4. Ended({2}, 8 .. 15) = {2}
  <2>1. {2} \cap (8 .. 15) = {}
    OBVIOUS
  <2> QED
    BY <2>1 DEF Ended
<1>5. CASE line \in Lines /\ isr = {line, OnMaster(line)} /\ line >= 8
  <2>0. isr = {line, 2}
    BY <1>5 DEF OnMaster
  <2>1. isr \cap (8 .. 15) = {line}
    <3>1. line \in 8 .. 15 /\ 2 \notin 8 .. 15
      BY <1>1, <1>5
    <3> QED
      BY <2>0, <3>1, Zenon
  <2>2. Ended(isr, 8 .. 15) = {2}
    BY <1>1, <1>5, <2>0, <2>1, MinSingle DEF Ended
  <2> QED
    BY <1>3, <1>5, <2>2 DEF line
<1>6. CASE line \in Lines /\ isr = {line, OnMaster(line)} /\ ~(line >= 8)
  <2>0. isr = {line}
    BY <1>6 DEF OnMaster
  <2>1. isr \cap (0 .. 7) = {line}
    <3>1. line \in 0 .. 7
      BY <1>1, <1>6
    <3> QED
      BY <2>0, <3>1, Zenon
  <2>2. Ended(isr, 0 .. 7) = {}
    BY <1>1, <2>0, <2>1, MinSingle DEF Ended
  <2> QED
    BY <1>6, <2>2 DEF line
<1>7. CASE line = 7 /\ isr = {}
  BY <1>2, <1>7 DEF line
<1>8. CASE line = 15 /\ isr = {2}
  BY <1>3, <1>4, <1>8 DEF line
<1> QED
  BY <1>5, <1>6, <1>7, <1>8 DEF InService, line

(* Whenever the program runs an instruction with interrupts enabled, no    *)
(* request is latched.                                                     *)
LEMMA NothingLatched ==
  ASSUME IInv, cpu = Main, pc \in Running, ~(enabled /\ Deliverable # {})
  PROVE  irr = {}
<1>1. enabled /\ isr = {}
  BY DEF IInv, BootInv, ServiceInv, Main
<1>2. \A line \in irr : Free(line)
  BY <1>1 DEF Free
<1> QED
  BY <1>1, <1>2 DEF Deliverable

(* The test of the sleeping loop, while the program runs. *)
LEMMA BeforeMeansTicksLeft ==
  ASSUME IInv, cpu = Main, pc = "test"
  PROVE  Before <=> slept < wanted(asked)
<1> DEFINE w == wanted(asked)
           h == TICK_WORD \div 2
<1>1. w \in Nat /\ w < h
  BY WantedInRange DEF IInv, SleepInv
<1>2. TICK_WORD \in Nat /\ h \in Nat /\ TICK_WORD = 2 * h /\ h >= 1
  BY InterruptsAssumption, <1>1
<1>3. Left = w - slept
  BY <1>1 DEF Left, Uncounted, Main, IInv, TypeOK
<1>4. slept \in Nat /\ slept <= w + 1
  BY <1>1 DEF IInv, TypeOK, SleepInv, Coming
<1>5. target - ticks \in {w - slept - TICK_WORD, w - slept, w - slept + TICK_WORD}
  BY <1>3 DEF IInv, SleepInv, Sleeping
<1>6. target \in Int /\ ticks \in Int
  BY DEF IInv, TypeOK
<1> HIDE DEF w, h
<1>7. CASE slept < w
  <2>1. (target - ticks) % TICK_WORD = w - slept
    BY <1>1, <1>2, <1>4, <1>5, <1>6, <1>7
  <2> QED
    BY <1>1, <1>2, <1>4, <1>7, <2>1 DEF Before, w, h
<1>8. CASE slept = w
  <2>1. (target - ticks) % TICK_WORD = 0
    BY <1>1, <1>2, <1>4, <1>5, <1>6, <1>8
  <2> QED
    BY <1>1, <1>2, <1>4, <1>8, <2>1 DEF Before, w, h
<1>9. CASE slept = w + 1
  <2>1. (target - ticks) % TICK_WORD = TICK_WORD - 1
    BY <1>1, <1>2, <1>4, <1>5, <1>6, <1>9
  <2> QED
    BY <1>1, <1>2, <1>9, <2>1 DEF Before, w, h
<1> QED
  BY <1>1, <1>4, <1>7, <1>8, <1>9 DEF w

-----------------------------------------------------------------------------
(* The invariant holds initially and is preserved *)

LEMMA InitIInv == Init => IInv
<1> SUFFICES ASSUME Init PROVE IInv
  OBVIOUS
<1>1. TypeOK
  <2>1. enabled \in BOOLEAN /\ loaded \in BOOLEAN /\ faulted \in BOOLEAN
    BY Zenon DEF Init
  <2>2. /\ ticks \in 0 .. TICK_WORD - 1 /\ target \in 0 .. TICK_WORD - 1
        /\ slept \in 0 .. TICK_WORD /\ spurious \in 0 .. MaxSpurious
    BY InterruptsAssumption DEF Init
  <2> QED
    BY <2>1, <2>2 DEF Init, TypeOK, Main
<1>2. BootInv
  <2>1. (loaded <=> pc # "idt_init") /\ ~loaded /\ ~enabled
    BY DEF Init
  <2> QED
    BY <2>1 DEF Init, BootInv, Main, At, Handler, Running
<1>3. NoFalsePanic /\ ServiceInv
  BY DEF Init, NoFalsePanic, ServiceInv, Main
<1>4. SleepInv
  BY DEF Init, SleepInv, Sleeping, Running
<1> QED
  BY <1>1, <1>2, <1>3, <1>4 DEF IInv

USE DEF program, tables, clock, env

(* The controllers and the tables: one case per action. *)
LEMMA NextTables ==
  ASSUME IInv, Next
  PROVE  BootInv' /\ NoFalsePanic' /\ ServiceInv'
<1>0. TypeOK /\ BootInv /\ NoFalsePanic /\ ServiceInv
  BY DEF IInv
<1> USE DEF BootInv, NoFalsePanic, ServiceInv, Main, At, Handler, Running
<1>1. CASE idt_init
  BY <1>0, <1>1 DEF idt_init, pic_remap, Remapped
<1>2. CASE timer_init
  BY <1>0, <1>2 DEF timer_init, Step, irq_install_handler
<1>3. CASE keyboard_init
  BY <1>0, <1>3 DEF keyboard_init, Step, irq_install_handler
<1>4. CASE sti
  BY <1>0, <1>4 DEF sti, Step
<1>5. CASE TestTicks
  BY <1>0, <1>5 DEF TestTicks, Step
<1>6. CASE hlt
  BY <1>0, <1>6 DEF hlt, Step
<1>7. CASE Interrupt
  <2>1. PICK line \in Lines :
          /\ isr' = isr \cup {line, OnMaster(line)}
          /\ cpu' = Gate(Vector(line))
    BY <1>7 DEF Interrupt
  <2>2. line \in 0 .. 15 /\ loaded /\ isr = {}
    BY <1>0, <1>7, InterruptsAssumption DEF Interrupt
  <2>3. cpu' = [at |-> "irq", int_no |-> 32 + line]
    BY <1>0, <2>1, <2>2, LineGate
  <2>4. InService(cpu.int_no)'
    BY <2>1, <2>2, <2>3 DEF InService
  <2> QED
    BY <1>0, <1>7, <2>2, <2>3, <2>4 DEF Interrupt
<1>8. CASE isr_handler
  BY <1>0, <1>8 DEF isr_handler
<1>9. CASE irq_handler
  BY <1>0, <1>9 DEF irq_handler, InService
<1>10. CASE EndOfInterrupt
  <2>1. isr' = {}
    BY <1>0, <1>10, AllEnded DEF EndOfInterrupt
  <2> QED
    BY <1>0, <1>10, <2>1 DEF EndOfInterrupt
<1>11. CASE iret
  BY <1>0, <1>11 DEF iret
<1>12. ASSUME NEW ms \in Durations, timer_sleep(ms)
       PROVE  BootInv' /\ NoFalsePanic' /\ ServiceInv'
  BY <1>0, <1>12 DEF timer_sleep, Step
<1>13. CASE cmd_halt
  BY <1>0, <1>13 DEF cmd_halt, Step
<1>14. ASSUME NEW line \in Lines, Raise(line)
       PROVE  BootInv' /\ NoFalsePanic' /\ ServiceInv'
  BY <1>0, <1>14 DEF Raise, InService
<1>15. ASSUME NEW line \in {7, 15}, SpuriousInterrupt(line)
       PROVE  BootInv' /\ NoFalsePanic' /\ ServiceInv'
  <2>0. cpu = Main /\ enabled
    BY <1>15 DEF SpuriousInterrupt
  <2>1. line \in 0 .. 15 /\ loaded /\ isr = {}
    BY <1>0, <1>15, <2>0
  <2>2. cpu' = [at |-> "irq", int_no |-> 32 + line]
    BY <1>0, <1>15, <2>1, LineGate DEF SpuriousInterrupt
  <2>3. InService(cpu.int_no)'
    BY <1>15, <2>1, <2>2 DEF InService, SpuriousInterrupt
  <2> QED
    BY <1>0, <1>15, <2>1, <2>2, <2>3 DEF SpuriousInterrupt
<1>16. ASSUME NEW number \in Faults, Exception(number)
       PROVE  BootInv' /\ NoFalsePanic' /\ ServiceInv'
  <2>1. cpu = Main /\ loaded
    BY <1>16 DEF Exception
  <2>2. cpu' = [at |-> "isr", int_no |-> number] /\ number \in Nat
    BY <1>16, <2>1, FaultGate DEF Exception
  <2>3. NoFalsePanic' /\ ServiceInv'
    BY <1>0, <1>16, <2>1, <2>2 DEF Exception
  <2>4. ~enabled' /\ (loaded <=> pc # "idt_init")' /\ loaded'
    BY <1>0, <1>16, <2>1 DEF Exception
  <2>5. BootInv'
    BY <1>0, <1>16, <2>1, <2>2, <2>4 DEF Exception
  <2> QED
    BY <2>3, <2>5
<1> QED
  BY <1>1, <1>2, <1>3, <1>4, <1>5, <1>6, <1>7, <1>8, <1>9, <1>10, <1>11,
     <1>12, <1>13, <1>14, <1>15, <1>16 DEF Next, Cpu

(* Types: the counters stay in their words. *)
LEMMA NextType ==
  ASSUME IInv, Next
  PROVE  TypeOK'
<1>0. TypeOK /\ BootInv /\ BootInv' /\ ServiceInv
  BY NextTables DEF IInv
<1>1. cpu.at' \in {"main", "isr", "irq", "eoi", "iret", "panic", "crash", "off"}
  BY <1>0 DEF BootInv, At
<1>2. TICK_WORD \in Nat /\ TICK_WORD >= 2 /\ MaxSpurious \in Nat
  BY InterruptsAssumption
<1> USE DEF TypeOK
<1>3. CASE idt_init
  BY <1>0, <1>1, <1>3 DEF idt_init, pic_remap
<1>4. CASE timer_init \/ keyboard_init \/ sti
  <2>1. CASE timer_init
    BY <1>0, <1>1, <1>2, <2>1 DEF timer_init, Step
  <2>2. CASE keyboard_init
    BY <1>0, <1>1, <2>2 DEF keyboard_init, Step
  <2>3. CASE sti
    BY <1>0, <1>1, <2>3 DEF sti, Step
  <2> QED
    BY <1>4, <2>1, <2>2, <2>3
<1>5. CASE TestTicks \/ hlt \/ cmd_halt
  BY <1>0, <1>1, <1>5 DEF TestTicks, hlt, cmd_halt, Step
<1>6. CASE Interrupt
  <2>1. PICK line \in Lines :
          /\ irr' = irr \ {line}
          /\ isr' = isr \cup {line, OnMaster(line)}
          /\ slept' = IF line = 0 /\ Sleeping /\ slept < TICK_WORD
                      THEN slept + 1 ELSE slept
    BY <1>6 DEF Interrupt
  <2>2. irr' \subseteq Lines /\ isr' \subseteq Lines \cup {2}
    BY <1>0, <2>1 DEF OnMaster
  <2>3. slept' \in 0 .. TICK_WORD
    BY <1>0, <1>2, <2>1
  <2> QED
    BY <1>0, <1>1, <1>6, <2>2, <2>3 DEF Interrupt
<1>7. CASE isr_handler
  BY <1>0, <1>1, <1>7 DEF isr_handler
<1>8. CASE irq_handler
  <2>1. ticks' \in 0 .. TICK_WORD - 1
    BY <1>0, <1>2, <1>8 DEF irq_handler, timer_callback
  <2> QED
    BY <1>0, <1>1, <1>8, <2>1 DEF irq_handler
<1>9. CASE EndOfInterrupt
  <2>1. isr' = {}
    BY <1>0, <1>9, AllEnded DEF EndOfInterrupt, ServiceInv
  <2> QED
    BY <1>0, <1>1, <1>9, <2>1 DEF EndOfInterrupt
<1>10. CASE iret
  BY <1>0, <1>1, <1>10 DEF iret
<1>11. ASSUME NEW ms \in Durations, timer_sleep(ms)
       PROVE  TypeOK'
  <2>1. target' \in 0 .. TICK_WORD - 1
    <3>1. wanted(ms) \in Nat
      BY WantedInRange
    <3> QED
      BY <1>0, <1>2, <1>11, <3>1 DEF timer_sleep
  <2> QED
    BY <1>0, <1>1, <1>2, <1>11, <2>1 DEF timer_sleep, Step
<1>12. ASSUME NEW line \in Lines, Raise(line)
       PROVE  TypeOK'
  BY <1>0, <1>1, <1>12 DEF Raise
<1>13. ASSUME NEW line \in {7, 15}, SpuriousInterrupt(line)
       PROVE  TypeOK'
  <2>1. spurious' \in 0 .. MaxSpurious
    BY <1>0, <1>2, <1>13 DEF SpuriousInterrupt
  <2>2. isr' \subseteq Lines \cup {2} /\ enabled' \in BOOLEAN
    BY <1>0, <1>13 DEF SpuriousInterrupt
  <2> QED
    BY <1>0, <1>1, <1>13, <2>1, <2>2 DEF SpuriousInterrupt
<1>14. ASSUME NEW number \in Faults, Exception(number)
       PROVE  TypeOK'
  BY <1>0, <1>1, <1>14 DEF Exception
<1> QED
  BY <1>3, <1>4, <1>5, <1>6, <1>7, <1>8, <1>9, <1>10, <1>11, <1>12, <1>13,
     <1>14 DEF Next, Cpu

(* The sleeping loop against the timer: one case per action. *)
LEMMA NextSleep ==
  ASSUME IInv, Next
  PROVE  SleepInv'
<1>0. TypeOK /\ BootInv /\ ServiceInv /\ SleepInv /\ TypeOK' /\ BootInv'
  BY NextTables, NextType DEF IInv
<1> DEFINE w == wanted(asked)
<1>1. w \in Nat /\ w < TICK_WORD \div 2
  BY <1>0, WantedInRange DEF SleepInv
<1>2. /\ TICK_WORD \in Nat /\ TICK_WORD >= 2
      /\ TICK_WORD = 2 * (TICK_WORD \div 2)
  BY InterruptsAssumption
<1>3. /\ ticks \in 0 .. TICK_WORD - 1 /\ target \in 0 .. TICK_WORD - 1
      /\ slept \in Nat
  BY <1>0 DEF TypeOK
<1> HIDE DEF w
<1> USE DEF Running, Sleeping, Coming
<1>4. CASE idt_init
  BY <1>0, <1>4 DEF idt_init, SleepInv
<1>5. CASE timer_init \/ keyboard_init
  BY <1>0, <1>5 DEF timer_init, keyboard_init, Step, SleepInv
<1>6. CASE sti
  <2>1. asked = 0 /\ slept = 0 /\ wanted(0) = 0
    BY <1>0, <1>6, WantedInRange DEF sti, Step, SleepInv
  <2> QED
    BY <1>0, <1>6, <2>1 DEF sti, Step, SleepInv
<1>7. CASE TestTicks
  <2>1. irr = {} /\ (Before <=> slept < w)
    BY <1>7, NothingLatched, BeforeMeansTicksLeft DEF TestTicks, Step, w
  <2>2. /\ UNCHANGED <<irr, cpu, ticks, target, asked, slept>>
        /\ pc = "test" /\ raised' = {}
        /\ pc' = IF Before THEN "hlt" ELSE "prompt"
    BY <1>7 DEF TestTicks, Step
  <2>3. UNCHANGED Left
    BY <2>2 DEF Left, Uncounted, wanted
  <2>4. slept <= w + 1
    BY <1>0, <1>1, <1>3, <2>2 DEF SleepInv, w
  <2> QED
    BY <1>0, <1>1, <1>3, <2>1, <2>2, <2>3, <2>4 DEF SleepInv, w
<1>8. CASE hlt
  <2>1. irr = {}
    BY <1>8, NothingLatched DEF hlt, Step
  <2>2. /\ UNCHANGED <<irr, cpu, ticks, target, asked, slept>>
        /\ pc = "hlt" /\ raised' = {} /\ pc' = "halted"
    BY <1>8 DEF hlt, Step
  <2>3. UNCHANGED Left
    BY <2>2 DEF Left, Uncounted, wanted
  <2>4. slept <= w
    BY <1>0, <1>1, <1>3, <2>2 DEF SleepInv, w
  <2> QED
    BY <1>0, <1>1, <1>3, <2>1, <2>2, <2>3, <2>4 DEF SleepInv, w
<1>9. CASE Interrupt
  <2>1. PICK line \in Lines :
          /\ line \in irr /\ irr' = irr \ {line}
          /\ cpu' = Gate(Vector(line))
          /\ slept' = IF line = 0 /\ Sleeping /\ slept < TICK_WORD
                      THEN slept + 1 ELSE slept
    BY <1>9 DEF Interrupt, Highest, Deliverable
  <2>2. /\ UNCHANGED <<pc, target, asked, ticks, raised>>
        /\ pc \in Running /\ loaded /\ cpu = Main
    BY <1>0, <1>9 DEF Interrupt, BootInv
  <2>3. cpu' = [at |-> "irq", int_no |-> 32 + line] /\ line \in 0 .. 15
    BY <1>0, <2>1, <2>2, LineGate, InterruptsAssumption
  <2>4. Left = w - slept
    BY <1>1, <1>3, <2>2 DEF Left, Uncounted, Main, w
  <2>5. CASE line = 0 /\ Sleeping
    <3>1. slept <= w /\ 0 \in raised
      BY <1>0, <1>1, <1>3, <2>1, <2>5 DEF SleepInv, w
    <3>2. slept' = slept + 1
      BY <1>1, <1>2, <1>3, <2>1, <2>5, <3>1
    <3>3. Left' = Left
      BY <1>1, <1>3, <2>2, <2>3, <2>4, <2>5, <3>2 DEF Left, Uncounted, w, wanted
    <3>4. Coming' = 0 /\ Coming = 1
      BY <2>1, <2>2, <2>5, <3>1
    <3> QED
      BY <1>0, <1>1, <1>3, <2>1, <2>2, <2>5, <3>1, <3>2, <3>3, <3>4
         DEF SleepInv, w
  <2>6. CASE ~(line = 0 /\ Sleeping)
    <3>1. slept' = slept
      BY <2>1, <2>6
    <3>2. Sleeping => Left' = Left /\ Coming' = Coming
      BY <1>1, <1>3, <2>1, <2>2, <2>3, <2>4, <2>6, <3>1
         DEF Left, Uncounted, w, wanted
    <3> QED
      BY <1>0, <2>1, <2>2, <3>1, <3>2 DEF SleepInv
  <2> QED
    BY <2>5, <2>6
<1>10. CASE irq_handler
  <2>1. /\ UNCHANGED <<pc, target, asked, slept, irr, raised>>
        /\ cpu' = [cpu EXCEPT !.at = "eoi"] /\ cpu.at = "irq"
    BY <1>10 DEF irq_handler
  <2>2. /\ pc \in Running /\ handlers[0] = "timer_callback"
        /\ cpu.int_no - 32 \in 0 .. 15 /\ Uncounted' = 0
    BY <1>0, <2>1 DEF BootInv, ServiceInv, InService, Uncounted
  <2>3. CASE cpu.int_no = 32
    <3>1. ticks' = (ticks + 1) % TICK_WORD
      BY <1>10, <2>2, <2>3 DEF irq_handler, timer_callback
    <3>2. ticks' = IF ticks = TICK_WORD - 1 THEN 0 ELSE ticks + 1
      BY <1>2, <1>3, <3>1
    <3>3. Left = w - slept + 1 /\ Left' = w - slept
      BY <1>1, <1>3, <2>1, <2>2, <2>3 DEF Left, Uncounted, w, wanted
    <3>4. Sleeping => slept <= w + 1
      BY <1>0, <1>1, <1>3 DEF SleepInv, w
    <3>5. Sleeping => target - ticks' \in {Left' - TICK_WORD, Left',
                                           Left' + TICK_WORD}
      BY <1>0, <1>1, <1>2, <1>3, <3>2, <3>3, <3>4 DEF SleepInv
    <3> QED
      BY <1>0, <2>1, <3>5 DEF SleepInv, wanted
  <2>4. CASE cpu.int_no # 32
    <3>1. ticks' = ticks
      BY <1>0, <1>10, <2>2, <2>4 DEF irq_handler, BootInv
    <3>2. Left' = Left
      BY <2>1, <2>2, <2>4 DEF Left, Uncounted, wanted
    <3> QED
      BY <1>0, <2>1, <3>1, <3>2 DEF SleepInv, wanted
  <2> QED
    BY <2>3, <2>4
<1>11. CASE isr_handler \/ EndOfInterrupt
  <2>1. /\ UNCHANGED <<pc, target, asked, slept, ticks, irr, raised>>
        /\ Uncounted = 0 /\ Uncounted' = 0
    BY <1>0, <1>11 DEF isr_handler, EndOfInterrupt, Uncounted, BootInv
  <2> QED
    BY <1>0, <2>1 DEF SleepInv, Left, wanted
<1>12. CASE iret
  <2>1. /\ UNCHANGED <<target, asked, slept, ticks, irr, raised>>
        /\ pc' = (IF pc = "halted" THEN "test" ELSE pc)
        /\ Uncounted = 0 /\ Uncounted' = 0
    BY <1>12 DEF iret, Uncounted, Main
  <2> QED
    BY <1>0, <2>1 DEF SleepInv, Left, wanted
<1>13. ASSUME NEW ms \in Durations, timer_sleep(ms)
       PROVE  SleepInv'
  <2>1. irr = {}
    BY <1>13, NothingLatched DEF timer_sleep, Step
  <2>2. /\ UNCHANGED <<irr, cpu, ticks>> /\ cpu = Main
        /\ pc' = "test" /\ raised' = {} /\ asked' = ms /\ slept' = 0
        /\ target' = (ticks + wanted(ms)) % TICK_WORD
    BY <1>13 DEF timer_sleep, Step
  <2>3. wanted(ms) \in Nat /\ wanted(ms) < TICK_WORD \div 2
    BY WantedInRange
  <2>4. Left' = wanted(ms)
    BY <2>2, <2>3 DEF Left, Uncounted, Main, wanted
  <2>5. target' - ticks \in {wanted(ms), wanted(ms) - TICK_WORD}
    BY <1>2, <1>3, <2>2, <2>3
  <2>6. wanted(asked)' = wanted(ms)
    BY <2>2 DEF wanted
  <2> QED
    BY <1>13, <2>1, <2>2, <2>3, <2>4, <2>5, <2>6 DEF SleepInv
<1>14. CASE cmd_halt
  BY <1>0, <1>14 DEF cmd_halt, Step, SleepInv, wanted
<1>15. ASSUME NEW line \in Lines, Raise(line)
       PROVE  SleepInv'
  <2>1. /\ UNCHANGED <<pc, cpu, target, asked, slept, ticks>>
        /\ line \notin raised
        /\ irr' = irr \cup {line} /\ raised' = raised \cup {line}
    BY <1>15 DEF Raise
  <2>2. UNCHANGED Left /\ wanted(asked)' = wanted(asked)
    BY <2>1 DEF Left, Uncounted, wanted
  <2>3. Coming' = Coming
    BY <2>1
  <2> QED
    BY <1>0, <2>1, <2>2, <2>3 DEF SleepInv
<1>16. ASSUME NEW line \in {7, 15}, SpuriousInterrupt(line)
       PROVE  SleepInv'
  <2>1. /\ UNCHANGED <<pc, target, asked, slept, ticks, irr, raised>>
        /\ cpu = Main /\ enabled /\ cpu' = Gate(Vector(line))
    BY <1>16 DEF SpuriousInterrupt
  <2>2. loaded
    BY <1>0, <2>1 DEF BootInv
  <2>3. line \in 0 .. 15 /\ line # 0
    BY <1>16
  <2>4. cpu' = [at |-> "irq", int_no |-> 32 + line]
    BY <1>0, <2>1, <2>2, <2>3, LineGate
  <2>5. Uncounted = 0 /\ Uncounted' = 0
    BY <2>1, <2>3, <2>4 DEF Uncounted, Main
  <2> QED
    BY <1>0, <2>1, <2>5 DEF SleepInv, Left, wanted
<1>17. ASSUME NEW number \in Faults, Exception(number)
       PROVE  SleepInv'
  <2>1. /\ UNCHANGED <<pc, target, asked, slept, ticks, irr, raised>>
        /\ cpu = Main /\ loaded /\ cpu' = Gate(number)
    BY <1>17 DEF Exception
  <2>2. Uncounted = 0 /\ Uncounted' = 0
    BY <2>1, FaultGate DEF Uncounted, Main
  <2> QED
    BY <1>0, <2>1, <2>2 DEF SleepInv, Left, wanted
<1> QED
  BY <1>4, <1>5, <1>6, <1>7, <1>8, <1>9, <1>10, <1>11, <1>12, <1>13, <1>14,
     <1>15, <1>16, <1>17 DEF Next, Cpu

LEMMA IInvAlways == Spec => []IInv
<1>1. IInv /\ [Next]_vars => IInv'
  <2>1. CASE Next
    BY <2>1, NextTables, NextType, NextSleep DEF IInv
  <2>2. CASE UNCHANGED vars
    BY <2>2 DEF vars, IInv, TypeOK, BootInv, NoFalsePanic, ServiceInv, SleepInv,
                InService, Left, Uncounted, Coming, Sleeping, wanted
  <2> QED
    BY <2>1, <2>2
<1> QED
  BY InitIInv, <1>1, PTL DEF Spec

(* The indices, counters and sets of the model stay in their ranges; in    *)
(* particular the tick counter of timer.c stays in its word.               *)
THEOREM InterruptsTypeAlways == Spec => []TypeOK
<1>1. IInv => TypeOK
  BY DEF IInv
<1> QED
  BY <1>1, IInvAlways, PTL

(* Whatever devices ask for and whenever they do, from before idt_init on, *)
(* no request is taken for an exception or meets an absent gate.           *)
THEOREM NoFalsePanicAlways == Spec => []NoFalsePanic
<1>1. IInv => NoFalsePanic
  BY DEF IInv
<1> QED
  BY <1>1, IInvAlways, PTL

(* irq_handler's ends of interrupt leave nothing in service on either      *)
(* controller, for every line and for spurious interrupts.                 *)
THEOREM ControllersAlwaysFree == Spec => []ControllersFree
<1>1. IInv => ControllersFree
  BY DEF IInv, ServiceInv, ControllersFree, Main
<1> QED
  BY <1>1, IInvAlways, PTL

(* For every frequency and every duration for which timer_sleep's product  *)
(* fits in its word, it takes the ticks asked for, rounded up, and at most *)
(* one more, across the wrap of the counter, whatever else the program     *)
(* sleeps before and after, longer than that included.                     *)
THEOREM SleepLengthAlways == Spec => []SleepLength
<1>1. IInv => SleepLength
  <2> SUFFICES ASSUME IInv, pc = "prompt",
                      asked * TIMER_HZ + SECOND - 1 < TICK_WORD
               PROVE  /\ slept * SECOND >= asked * TIMER_HZ
                      /\ (slept - 2) * SECOND < asked * TIMER_HZ
    BY DEF SleepLength
  <2>1. asked \in Durations \cup {0} /\ slept \in Nat
    BY DEF IInv, SleepInv, TypeOK
  <2>2. wanted(asked) <= slept /\ slept <= wanted(asked) + 1
    BY DEF IInv, SleepInv
  <2> DEFINE m == asked * TIMER_HZ
             w == wanted(asked)
  <2>3. w \in Nat /\ w * SECOND >= m /\ (w - 1) * SECOND < m
    BY <2>1, Wanted, WantedInRange
  <2>4. m \in Nat
    BY <2>1, InterruptsAssumption
  <2> HIDE DEF m
  <2> HIDE DEF w
  <2>5. SECOND \in Nat /\ slept - w \in {0, 1}
    BY <2>1, <2>2, <2>3, InterruptsAssumption DEF w
  <2>6. /\ slept * SECOND = w * SECOND + (slept - w) * SECOND
        /\ (slept - 2) * SECOND = (w - 1) * SECOND + (slept - w - 1) * SECOND
    <3>1. slept \in Int /\ w \in Int /\ SECOND \in Int
      BY <2>1, <2>3, <2>5
    <3>2. \A x, y, z \in Int : /\ x * z = y * z + (x - y) * z
                               /\ (x - 2) * z = (y - 1) * z + (x - y - 1) * z
      OBVIOUS
    <3> QED
      BY <3>1, <3>2
  <2>7. /\ (slept - w) * SECOND >= 0 /\ (slept - w - 1) * SECOND <= 0
        /\ w * SECOND \in Int /\ (w - 1) * SECOND \in Int
        /\ (slept - w) * SECOND \in Int /\ (slept - w - 1) * SECOND \in Int
    BY <2>1, <2>3, <2>5
  <2>8. slept * SECOND >= m /\ (slept - 2) * SECOND < m
    BY <2>3, <2>4, <2>6, <2>7
  <2> QED
    BY <2>8 DEF m
<1> QED
  BY <1>1, IInvAlways, PTL
=============================================================================
