----------------------------- MODULE Keyboard ------------------------------
(***************************************************************************)
(* The keyboard driver (drivers/keyboard.c) and its only reader, the loop  *)
(* of read_line (kernel/shell.c).                                          *)
(*                                                                         *)
(* Two actors share the ring buffer: the handler of IRQ 1, which runs to   *)
(* its end with interrupts off, and the main loop, which it may interrupt  *)
(* between any two accesses.  The loop halts the CPU when it saw nothing;  *)
(* any interrupt, of the keyboard or of the timer, wakes it.               *)
(*                                                                         *)
(* A scancode is [key, up] or PREFIX (0xE0).  The keys are the ones the    *)
(* driver tells apart: the shifts, caps lock, a letter, a digit, a key     *)
(* without a character, and an arrow, which is sent after PREFIX.  Real    *)
(* keyboards also send a shift after PREFIX around some keys.              *)
(***************************************************************************)
EXTENDS Integers, Sequences

CONSTANTS
  BUFFER_SIZE,   \* cells of the ring
  Keys,          \* the keys of this keyboard sent without PREFIX
  Empty          \* what an unused cell holds, and "no key"

Shifts == {"lshift", "rshift"}

ASSUME BufferAssumption == BUFFER_SIZE \in Nat \ {0, 1}
ASSUME KeysAssumption ==
  /\ Shifts \subseteq Keys
  /\ Keys \subseteq Shifts \cup {"caps", "letter", "digit", "other"}
ASSUME EmptyAssumption == Empty \notin {"a", "A", "1", "!", "KEY_UP"}

PREFIX == [key |-> "0xE0", up |-> 0]

Scancode(keys) == [key : keys, up : {0, 1}]

(* What follows PREFIX: an arrow, or a shift the keyboard made up. *)
ExtKeys == {"up"} \cup Shifts

keymap == [letter |-> "a", digit |-> "1"]

keymap_shift == [letter |-> "A", digit |-> "!"]

(* Everything that can be in the buffer: characters and KEY_ codes. *)
Key == {"a", "A", "1", "!", "KEY_UP"}

Cell == 0 .. BUFFER_SIZE - 1

VARIABLES
  buffer, head, tail,             \* the ring
  turn,                           \* auxiliary: a bit that every push turns
  shift_held, caps_on, extended,  \* decoder state
  held,                           \* the shift keys that are down
  prefixed,                       \* the keyboard's last byte was PREFIX
  pc,                             \* where the main loop is
  c,                              \* keyboard_getchar's local
  got                             \* the key read_line was given last

ring    == <<buffer, head>>
decoder == <<shift_held, caps_on, extended>>
vars    == <<buffer, head, tail, turn, shift_held, caps_on, extended, held,
             prefixed, pc, c, got>>

-----------------------------------------------------------------------------
(* Interrupts *)

(* Mutant: the CPU halts with interrupts off (cli; hlt). *)
Wake_Cli == UNCHANGED pc

(* hlt returns after any interrupt. *)
Wake == pc' = IF pc = "halted" THEN "poll" ELSE pc

(* Mutant: the index is not wrapped around. *)
next_NoWrap(i) == i + 1

next(i) == (i + 1) % BUFFER_SIZE

(* Mutant: the last cell but one is taken for the end of a full ring. *)
buffer_push_TooSoon(k) ==
  /\ turn' = 1 - turn
  /\ IF next(next(head)) = tail
       THEN UNCHANGED ring
       ELSE buffer' = [buffer EXCEPT ![head] = k] /\ head' = next(head)

(* A full buffer drops the key. *)
buffer_push(k) ==
  /\ turn' = 1 - turn
  /\ IF next(head) = tail
       THEN UNCHANGED ring
       ELSE buffer' = [buffer EXCEPT ![head] = k] /\ head' = next(head)

NoPush == UNCHANGED <<ring, turn>>

(* Caps lock flips the case of a letter. *)
Flip(k) == CASE k = "a" -> "A" [] k = "A" -> "a" [] OTHER -> k

(* The character of a mapped key, as the driver sees shift and caps lock. *)
Decode(key) ==
  LET k == IF shift_held = 1 THEN keymap_shift[key] ELSE keymap[key]
  IN  IF caps_on = 1 THEN Flip(k) ELSE k

AfterPrefix(sc) ==
  /\ extended' = 0
  /\ IF sc.up = 0 /\ sc.key = "up" THEN buffer_push("KEY_UP")
                                   ELSE NoPush
  /\ UNCHANGED <<shift_held, caps_on>>

(* Mutant: only the left shift key is released. *)
KeyUp_LeftOnly(sc) ==
  /\ shift_held' = IF sc.key = "lshift" THEN 0 ELSE shift_held
  /\ NoPush /\ UNCHANGED <<caps_on, extended>>

KeyUp(sc) ==
  /\ shift_held' = IF sc.key \in Shifts THEN 0 ELSE shift_held
  /\ NoPush /\ UNCHANGED <<caps_on, extended>>

KeyDown(sc) ==
  /\ shift_held' = IF sc.key \in Shifts THEN 1 ELSE shift_held
  /\ caps_on'    = IF sc.key = "caps" THEN 1 - caps_on ELSE caps_on
  /\ IF sc.key \in DOMAIN keymap THEN buffer_push(Decode(sc.key))
                                 ELSE NoPush
  /\ UNCHANGED extended

keyboard_callback(sc) ==
  \/ /\ sc = PREFIX /\ extended' = 1
     /\ NoPush /\ UNCHANGED <<shift_held, caps_on>>
  \/ sc # PREFIX /\ extended = 1 /\ AfterPrefix(sc)
  \/ sc # PREFIX /\ extended = 0 /\ sc.up = 1 /\ KeyUp(sc)
  \/ sc # PREFIX /\ extended = 0 /\ sc.up = 0 /\ KeyDown(sc)

(* IRQ 1 with a byte the keyboard can send: a key that is down may repeat, *)
(* and only a shift that is down is released.                              *)
KeyboardIrq(sc) ==
  /\ keyboard_callback(sc)
  /\ Wake
  /\ UNCHANGED <<tail, c, got>>

PrefixByte ==
  /\ prefixed = 0 /\ prefixed' = 1
  /\ KeyboardIrq(PREFIX)
  /\ UNCHANGED held

ExtendedKey ==
  /\ prefixed = 1 /\ prefixed' = 0
  /\ \E sc \in Scancode(ExtKeys) : KeyboardIrq(sc)
  /\ UNCHANGED held

PlainKey ==
  /\ prefixed = 0
  /\ \E sc \in Scancode(Keys) :
       /\ sc.key \in Shifts /\ sc.up = 1 => sc.key \in held
       /\ held' = IF sc.key \notin Shifts THEN held
                  ELSE IF sc.up = 1 THEN held \ {sc.key} ELSE held \cup {sc.key}
       /\ KeyboardIrq(sc)
  /\ UNCHANGED prefixed

(* IRQ 0 comes 100 times a second; only its effect on hlt matters here. *)
TimerIrq ==
  /\ pc = "halted"
  /\ Wake
  /\ UNCHANGED <<ring, tail, turn, decoder, held, prefixed, c, got>>

-----------------------------------------------------------------------------
(* The main loop: keyboard_getchar, and hlt when there was nothing *)

Idle == UNCHANGED <<ring, turn, decoder, held, prefixed>>

CheckEmpty ==
  /\ pc = "poll"
  /\ pc' = IF head = tail THEN "hlt" ELSE "load"
  /\ Idle /\ UNCHANGED <<tail, c, got>>

LoadKey ==
  /\ pc = "load"
  /\ c' = buffer[tail]
  /\ pc' = "advance"
  /\ Idle /\ UNCHANGED <<tail, got>>

Advance ==
  /\ pc = "advance"
  /\ tail' = next(tail)
  /\ got' = c
  /\ pc' = "poll"
  /\ Idle /\ UNCHANGED c

Halt ==
  /\ pc = "hlt"
  /\ pc' = "halted"
  /\ Idle /\ UNCHANGED <<tail, c, got>>

MainLoop == CheckEmpty \/ LoadKey \/ Advance \/ Halt

Init ==
  /\ buffer = [i \in Cell |-> Empty] /\ head = 0 /\ tail = 0
  /\ turn = 0
  /\ shift_held = 0 /\ caps_on = 0 /\ extended = 0
  /\ held = {} /\ prefixed = 0
  /\ pc = "poll" /\ c = Empty /\ got = Empty

Next == PrefixByte \/ ExtendedKey \/ PlainKey \/ TimerIrq \/ MainLoop

(* The CPU runs the loop whenever it is not halted, and the PIT fires for  *)
(* ever once timer_init programmed it.  Nobody has to press a key.         *)
Fairness == WF_vars(MainLoop) /\ WF_vars(TimerIrq)

Spec == Init /\ [][Next]_vars /\ Fairness

-----------------------------------------------------------------------------
(* Properties *)

(* Both indices stay inside the ring, which holds keys only. *)
TypeOK ==
  /\ buffer \in [Cell -> Key \cup {Empty}]
  /\ head \in Cell /\ tail \in Cell /\ turn \in {0, 1}
  /\ shift_held \in {0, 1} /\ caps_on \in {0, 1} /\ extended \in {0, 1}
  /\ held \in SUBSET Shifts /\ prefixed \in {0, 1}
  /\ pc \in {"poll", "load", "advance", "hlt", "halted"}
  /\ c \in Key \cup {Empty} /\ got \in Key \cup {Empty}

(* Shift never sticks: with both shift keys up the driver is back to lower *)
(* case, although keyboards send shifts of their own around arrow keys.    *)
(* The reverse does not hold: two keys share one flag, and releasing one   *)
(* clears it while the other is still down.                                *)
ShiftNeverSticks == held = {} => shift_held = 0

(* The ring, shared with the interrupt handler without a lock, is a FIFO   *)
(* of BUFFER_SIZE - 1 keys: no key that was pushed is lost, doubled,       *)
(* reordered or read before it is there, except that a full queue drops    *)
(* the newest.                                                             *)
Waiting == [k \in 1 .. (head - tail) % BUFFER_SIZE
              |-> buffer[(tail + k - 1) % BUFFER_SIZE]]

Queue == INSTANCE KeyQueue WITH Capacity <- BUFFER_SIZE - 1, NoKey <- Empty,
                                queue <- Waiting

ImplementsKeyQueue == Queue!Spec

(* No lost wakeup: a key that waits is read, even when it arrived between  *)
(* the loop's test and its hlt, and even if no other key is ever pressed.  *)
WaitingKeyIsRead ==
  \A t \in Cell : (tail = t /\ head # t) ~> (tail # t)
=============================================================================
