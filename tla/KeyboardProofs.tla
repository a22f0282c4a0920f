-------------------------- MODULE KeyboardProofs ---------------------------
(***************************************************************************)
(* Proofs about module Keyboard, for every size of the ring and every set  *)
(* of keys: shift never sticks, and the ring that the interrupt handler    *)
(* and the main loop share without a lock implements the queue KeyQueue.   *)
(***************************************************************************)
EXTENDS Keyboard, TLAPS

-----------------------------------------------------------------------------
(* Arithmetic of the ring *)

(* next(i) is the cell after i, and the first one after the last. *)
LEMMA NextCell ==
  ASSUME NEW i \in Cell
  PROVE  /\ next(i) \in Cell
         /\ next(i) = IF i = BUFFER_SIZE - 1 THEN 0 ELSE i + 1
<1>1. BUFFER_SIZE % BUFFER_SIZE = 0
  BY BufferAssumption
<1>2. i # BUFFER_SIZE - 1 => (i + 1) % BUFFER_SIZE = i + 1
  BY BufferAssumption DEF Cell
<1> QED
  BY <1>1, <1>2, BufferAssumption DEF next, Cell

(* The number of keys that wait, as the indices tell it. *)
Waits(h, t) == IF h >= t THEN h - t ELSE h - t + BUFFER_SIZE

(* The cell of the k-th key that waits. *)
CellOf(t, k) == IF t + k - 1 < BUFFER_SIZE THEN t + k - 1
                                           ELSE t + k - 1 - BUFFER_SIZE

LEMMA WaitsIsDifference ==
  ASSUME NEW h \in Cell, NEW t \in Cell
  PROVE  /\ (h - t) % BUFFER_SIZE = Waits(h, t)
         /\ Waits(h, t) \in Cell
BY BufferAssumption DEF Waits, Cell

LEMMA CellOfIsRemainder ==
  ASSUME NEW t \in Cell, NEW k \in 1 .. BUFFER_SIZE
  PROVE  /\ (t + k - 1) % BUFFER_SIZE = CellOf(t, k)
         /\ CellOf(t, k) \in Cell
BY BufferAssumption DEF CellOf, Cell
-----------------------------------------------------------------------------
(* The inductive invariant *)

(* The driver's flag follows the keyboard's prefix byte; a key the reader  *)
(* has found is still there, and unchanged, whatever interrupts did since. *)
IInv ==
  /\ TypeOK
  /\ ShiftNeverSticks
  /\ extended = prefixed
  /\ pc \in {"load", "advance"} => head # tail
  /\ pc = "advance" => c = buffer[tail]

LEMMA InitIInv == Init => IInv
BY BufferAssumption DEF Init, IInv, TypeOK, ShiftNeverSticks, Cell

(* What a push does, whoever reads meanwhile. *)
LEMMA Push ==
  ASSUME TypeOK, NEW k \in Key, buffer_push(k)
  PROVE  /\ buffer' \in [Cell -> Key \cup {Empty}] /\ head' \in Cell
         /\ head # tail => head' # tail /\ buffer'[tail] = buffer[tail]
         /\ turn' \in {0, 1}
<1>1. next(head) \in Cell
  BY NextCell DEF TypeOK
<1> QED
  BY <1>1 DEF TypeOK, buffer_push, ring

(* Every mapped key decodes to a character. *)
LEMMA Decoded ==
  ASSUME NEW key \in DOMAIN keymap
  PROVE  Decode(key) \in Key
<1>1. key \in {"letter", "digit"}
  BY DEF keymap
<1> QED
  BY <1>1 DEF Decode, keymap, keymap_shift, Flip, Key

(* One interrupt of the keyboard, with any byte. *)
LEMMA Callback ==
  ASSUME TypeOK, NEW sc, keyboard_callback(sc)
  PROVE  /\ \/ NoPush
            \/ \E k \in Key : buffer_push(k)
         /\ caps_on' \in {0, 1}
<1>1. "KEY_UP" \in Key
  BY DEF Key
<1>2. CASE NoPush /\ UNCHANGED caps_on
  BY <1>2 DEF TypeOK
<1>3. CASE AfterPrefix(sc)
  BY <1>1, <1>3 DEF AfterPrefix, TypeOK
<1>4. CASE KeyUp(sc)
  BY <1>4 DEF KeyUp, TypeOK
<1>5. CASE KeyDown(sc)
  BY <1>5, Decoded DEF KeyDown, TypeOK
<1> QED
  BY <1>2, <1>3, <1>4, <1>5 DEF keyboard_callback

(* The ring, the reader and the types after it. *)
LEMMA IrqKeepsReader ==
  ASSUME IInv, NEW sc, KeyboardIrq(sc)
  PROVE  /\ buffer' \in [Cell -> Key \cup {Empty}] /\ head' \in Cell
         /\ tail' \in Cell /\ caps_on' \in {0, 1} /\ turn' \in {0, 1}
         /\ pc' \in {"poll", "load", "advance", "hlt", "halted"}
         /\ c' \in Key \cup {Empty} /\ got' \in Key \cup {Empty}
         /\ pc' \in {"load", "advance"} => head' # tail'
         /\ pc' = "advance" => c' = buffer'[tail']
<1>1. keyboard_callback(sc) /\ Wake /\ UNCHANGED <<tail, c, got>>
  BY DEF KeyboardIrq
<1>2. TypeOK
  BY DEF IInv
<1>3. /\ buffer' \in [Cell -> Key \cup {Empty}] /\ head' \in Cell
      /\ head # tail => head' # tail /\ buffer'[tail] = buffer[tail]
      /\ caps_on' \in {0, 1} /\ turn' \in {0, 1}
  <2>1. CASE NoPush
    BY <1>1, <1>2, <2>1, Callback DEF TypeOK, NoPush, ring
  <2>2. CASE \E k \in Key : buffer_push(k)
    BY <1>1, <1>2, <2>2, Callback, Push
  <2> QED
    BY <1>1, <1>2, <2>1, <2>2, Callback
<1>4. pc' \in {"load", "advance"} => pc' = pc
  BY <1>1 DEF Wake
<1> QED
  BY <1>1, <1>2, <1>3, <1>4 DEF IInv, TypeOK, Wake

LEMMA NextIInv == IInv /\ [Next]_vars => IInv'
<1> SUFFICES ASSUME IInv, [Next]_vars PROVE IInv'
  OBVIOUS
<1>0. TypeOK
  BY DEF IInv
<1>1. CASE PrefixByte
  <2>1. KeyboardIrq(PREFIX) /\ prefixed' = 1 /\ held' = held
    BY <1>1 DEF PrefixByte
  <2>2. extended' = 1 /\ shift_held' = shift_held
    BY <2>1, <1>1 DEF KeyboardIrq, keyboard_callback
  <2> QED
    BY <2>1, <2>2, IrqKeepsReader DEF IInv, TypeOK, ShiftNeverSticks
<1>2. CASE ExtendedKey
  <2>1. PICK sc \in Scancode(ExtKeys) : KeyboardIrq(sc)
    BY <1>2 DEF ExtendedKey
  <2>2. prefixed = 1 /\ prefixed' = 0 /\ held' = held
    BY <1>2 DEF ExtendedKey
  <2>3. sc # PREFIX
    BY <2>1 DEF Scancode, ExtKeys, Shifts, PREFIX
  <2>4. AfterPrefix(sc)
    BY <2>1, <2>2, <2>3 DEF KeyboardIrq, keyboard_callback, IInv
  <2>5. extended' = 0 /\ shift_held' = shift_held
    BY <2>4 DEF AfterPrefix
  <2> QED
    BY <2>1, <2>2, <2>5, IrqKeepsReader DEF IInv, TypeOK, ShiftNeverSticks
<1>3. CASE PlainKey
  <2>1. PICK sc \in Scancode(Keys) :
          /\ sc.key \in Shifts /\ sc.up = 1 => sc.key \in held
          /\ held' = IF sc.key \notin Shifts THEN held
                     ELSE IF sc.up = 1 THEN held \ {sc.key}
                                       ELSE held \cup {sc.key}
          /\ KeyboardIrq(sc)
    BY <1>3 DEF PlainKey
  <2>2. prefixed = 0 /\ prefixed' = 0 /\ extended = 0
    BY <1>3 DEF PlainKey, IInv
  <2>3. sc # PREFIX /\ sc.up \in {0, 1}
    BY <2>1, KeysAssumption DEF Scancode, Shifts, PREFIX
  <2>4. \/ sc.up = 1 /\ KeyUp(sc)
        \/ sc.up = 0 /\ KeyDown(sc)
    BY <2>1, <2>2, <2>3 DEF KeyboardIrq, keyboard_callback
  <2>5. extended' = 0 /\ shift_held' \in {0, 1} /\ held' \in SUBSET Shifts
    BY <2>1, <2>2, <2>4, <1>0 DEF KeyUp, KeyDown, TypeOK
  <2>6. held' = {} => shift_held' = 0
    <3>1. CASE sc.key \in Shifts
      BY <2>1, <2>4, <3>1 DEF KeyUp, KeyDown
    <3>2. CASE sc.key \notin Shifts
      BY <2>1, <2>4, <3>2 DEF KeyUp, KeyDown, IInv, ShiftNeverSticks
    <3> QED
      BY <3>1, <3>2
  <2> QED
    BY <2>1, <2>2, <2>5, <2>6, IrqKeepsReader DEF IInv, TypeOK, ShiftNeverSticks
<1>4. CASE TimerIrq
  BY <1>4 DEF TimerIrq, Wake, IInv, TypeOK, ShiftNeverSticks, ring, decoder
<1>5. CASE CheckEmpty
  BY <1>5 DEF CheckEmpty, Idle, IInv, TypeOK, ShiftNeverSticks, ring, decoder
<1>6. CASE LoadKey
  BY <1>6 DEF LoadKey, Idle, IInv, TypeOK, ShiftNeverSticks, ring, decoder
<1>7. CASE Advance
  <2>1. next(tail) \in Cell
    BY <1>0, NextCell DEF TypeOK
  <2> QED
    BY <1>7, <2>1 DEF Advance, Idle, IInv, TypeOK, ShiftNeverSticks, ring, decoder
<1>8. CASE Halt
  BY <1>8 DEF Halt, Idle, IInv, TypeOK, ShiftNeverSticks, ring, decoder
<1>9. CASE UNCHANGED vars
  BY <1>9 DEF vars, IInv, TypeOK, ShiftNeverSticks
<1> QED
  BY <1>1, <1>2, <1>3, <1>4, <1>5, <1>6, <1>7, <1>8, <1>9 DEF Next, MainLoop

LEMMA IInvAlways == Spec => []IInv
BY InitIInv, NextIInv, PTL DEF Spec

(* For every size of the ring and every keyboard the indices stay in the   *)
(* ring of keyboard.c, which holds keys only.                              *)
THEOREM KeyboardTypeAlways == Spec => []TypeOK
<1>1. IInv => TypeOK
  BY DEF IInv
<1> QED
  BY <1>1, IInvAlways, PTL

(* keyboard_callback never stays in upper case with both shift keys up.    *)
THEOREM ShiftAlways == Spec => []ShiftNeverSticks
<1>1. IInv => ShiftNeverSticks
  BY DEF IInv
<1> QED
  BY <1>1, IInvAlways, PTL

-----------------------------------------------------------------------------
(* The refinement *)

(* The keys in the ring b between the indices t and h, oldest first. *)
Pending(b, h, t) == [k \in 1 .. Waits(h, t) |-> b[CellOf(t, k)]]

Ring == [Cell -> Key \cup {Empty}]

LEMMA PendingType ==
  ASSUME NEW b \in Ring, NEW h \in Cell, NEW t \in Cell
  PROVE  /\ Pending(b, h, t) \in Seq(Key \cup {Empty})
         /\ Len(Pending(b, h, t)) = Waits(h, t)
         /\ Waits(h, t) \in Nat
<1>1. Waits(h, t) \in Nat /\ Waits(h, t) <= BUFFER_SIZE
  BY WaitsIsDifference, BufferAssumption DEF Cell
<1>2. \A k \in 1 .. Waits(h, t) : b[CellOf(t, k)] \in Key \cup {Empty}
  BY <1>1, CellOfIsRemainder, BufferAssumption DEF Ring
<1> QED
  BY <1>1, <1>2 DEF Pending

(* The refinement mapping, in terms of cells instead of remainders. *)
LEMMA WaitingIsPending ==
  ASSUME NEW b, NEW h \in Cell, NEW t \in Cell
  PROVE  [k \in 1 .. (h - t) % BUFFER_SIZE |-> b[(t + k - 1) % BUFFER_SIZE]]
           = Pending(b, h, t)
<1>1. (h - t) % BUFFER_SIZE = Waits(h, t)
  BY WaitsIsDifference
<1>2. \A k \in 1 .. Waits(h, t) : (t + k - 1) % BUFFER_SIZE = CellOf(t, k)
  <2>1. \A k \in 1 .. Waits(h, t) : k \in 1 .. BUFFER_SIZE
    BY WaitsIsDifference, BufferAssumption DEF Cell
  <2> QED
    BY <2>1, CellOfIsRemainder
<1> QED
  BY <1>1, <1>2 DEF Pending

(* A push into a ring that is not full appends. *)
LEMMA PushAppends ==
  ASSUME NEW b \in Ring, NEW h \in Cell, NEW t \in Cell, NEW k \in Key,
         next(h) # t
  PROVE  /\ Waits(h, t) < BUFFER_SIZE - 1
         /\ Pending([b EXCEPT ![h] = k], next(h), t) = Append(Pending(b, h, t), k)
<1> DEFINE n == Waits(h, t)
           p == Pending(b, h, t)
           q == Pending([b EXCEPT ![h] = k], next(h), t)
<1>1. n < BUFFER_SIZE - 1 /\ Waits(next(h), t) = n + 1 /\ n \in Nat
  BY NextCell, BufferAssumption DEF Waits, Cell
<1>2. p \in Seq(Key \cup {Empty}) /\ Len(p) = n
  BY PendingType
<1>3. [b EXCEPT ![h] = k] \in Ring /\ next(h) \in Cell
  BY NextCell DEF Ring
<1>4. q \in Seq(Key \cup {Empty}) /\ Len(q) = n + 1
  BY <1>1, <1>3, PendingType
<1>5. CellOf(t, n + 1) = h
  BY BufferAssumption DEF CellOf, Waits, Cell
<1>6. \A j \in 1 .. n : CellOf(t, j) \in Cell /\ CellOf(t, j) # h
  BY BufferAssumption DEF CellOf, Waits, Cell
<1>7. q[n + 1] = k
  BY <1>1, <1>5 DEF Pending, Ring
<1>8. \A j \in 1 .. n : q[j] = p[j]
  BY <1>1, <1>6 DEF Pending, Ring
<1> HIDE DEF p, q, n
<1>9. Append(p, k) \in Seq(Key \cup {Empty}) /\ Len(Append(p, k)) = n + 1
  BY <1>2
<1>10. \A j \in 1 .. n + 1 : q[j] = Append(p, k)[j]
  BY <1>1, <1>2, <1>7, <1>8
<1>11. q = Append(p, k)
  BY <1>1, <1>4, <1>9, <1>10
<1> QED
  BY <1>1, <1>11 DEF n, p, q

(* Advancing the tail of a ring that is not empty takes the oldest key. *)
LEMMA PopIsTail ==
  ASSUME NEW b \in Ring, NEW h \in Cell, NEW t \in Cell, h # t
  PROVE  /\ Pending(b, h, t) # <<>>
         /\ Head(Pending(b, h, t)) = b[t]
         /\ Pending(b, h, next(t)) = Tail(Pending(b, h, t))
<1> DEFINE n == Waits(h, t)
           p == Pending(b, h, t)
           q == Pending(b, h, next(t))
<1>1. n \in Nat \ {0} /\ Waits(h, next(t)) = n - 1 /\ next(t) \in Cell
  BY NextCell, BufferAssumption DEF Waits, Cell
<1>2. p \in Seq(Key \cup {Empty}) /\ Len(p) = n
  BY PendingType
<1>3. q \in Seq(Key \cup {Empty}) /\ Len(q) = n - 1
  BY <1>1, PendingType
<1>4. CellOf(t, 1) = t
  BY BufferAssumption DEF CellOf, Cell
<1>5. p[1] = b[t]
  BY <1>1, <1>4 DEF Pending
<1>6. \A j \in 1 .. n - 1 : CellOf(next(t), j) = CellOf(t, j + 1)
  <2> SUFFICES ASSUME NEW j \in 1 .. n - 1
               PROVE  CellOf(next(t), j) = CellOf(t, j + 1)
    OBVIOUS
  <2>1. n \in Nat /\ n <= BUFFER_SIZE - 1 /\ j \in Nat /\ j <= n - 1
    BY <1>1, WaitsIsDifference, BufferAssumption DEF Cell
  <2> HIDE DEF n
  <2>2. CASE t = BUFFER_SIZE - 1
    <3>1. next(t) = 0
      BY <2>2, NextCell
    <3> QED
      BY <2>1, <2>2, <3>1, BufferAssumption DEF CellOf
  <2>3. CASE t # BUFFER_SIZE - 1
    <3>1. next(t) = t + 1
      BY <2>3, NextCell
    <3> QED
      BY <2>1, <2>3, <3>1, BufferAssumption DEF CellOf, Cell
  <2> QED
    BY <2>2, <2>3
<1>7. \A j \in 1 .. n - 1 : q[j] = p[j + 1]
  BY <1>1, <1>6 DEF Pending
<1> HIDE DEF p, q, n
<1>8. p # <<>> /\ Head(p) = p[1] /\ Tail(p) \in Seq(Key \cup {Empty})
      /\ Len(Tail(p)) = n - 1
  BY <1>1, <1>2
<1>9. \A j \in 1 .. n - 1 : Tail(p)[j] = p[j + 1]
  BY <1>1, <1>2
<1>10. q = Tail(p)
  BY <1>1, <1>3, <1>7, <1>8, <1>9
<1> QED
  BY <1>5, <1>8, <1>10 DEF p, q

(* An interrupt of the keyboard puts one key, or does nothing. *)
LEMMA IrqRefines ==
  ASSUME IInv, IInv', NEW sc, KeyboardIrq(sc)
  PROVE  [Queue!Next]_<<Waiting, turn, got>>
<1>1. keyboard_callback(sc) /\ UNCHANGED <<tail, c, got>>
  BY DEF KeyboardIrq
<1>2. TypeOK /\ TypeOK'
  BY DEF IInv
<1>3. Waiting = Pending(buffer, head, tail)
  BY <1>2, WaitingIsPending DEF Waiting, TypeOK
<1>4. Waiting' = Pending(buffer', head', tail')
  BY <1>2, WaitingIsPending DEF Waiting, TypeOK
<1>5. CASE NoPush
  BY <1>1, <1>3, <1>4, <1>5 DEF NoPush, ring
<1>6. ASSUME NEW k \in Key, buffer_push(k) PROVE [Queue!Next]_<<Waiting, turn, got>>
  <2>1. CASE next(head) = tail
    <3>1. buffer \in Ring /\ head \in Cell /\ tail \in Cell
      BY <1>2 DEF TypeOK, Ring
    <3>2. Waits(head, tail) = BUFFER_SIZE - 1
      BY <2>1, <3>1, NextCell, BufferAssumption DEF Waits, Cell
    <3>3. ~(Len(Waiting) < BUFFER_SIZE - 1)
      BY <1>3, <3>1, <3>2, PendingType, BufferAssumption
    <3>4. Waiting' = Waiting /\ turn' = 1 - turn /\ got' = got
      BY <2>1, <1>1, <1>3, <1>4, <1>6 DEF buffer_push, ring
    <3>5. Queue!Put(k)
      BY <3>3, <3>4 DEF Queue!Put
    <3> QED
      BY <3>5 DEF Queue!Next
  <2>2. CASE next(head) # tail
    <3>1. /\ buffer' = [buffer EXCEPT ![head] = k] /\ head' = next(head)
          /\ turn' = 1 - turn
      BY <1>6, <2>2 DEF buffer_push
    <3>2. buffer \in Ring /\ head \in Cell /\ tail \in Cell
      BY <1>2 DEF TypeOK, Ring
    <3>3. /\ Waits(head, tail) < BUFFER_SIZE - 1
          /\ Waiting' = Append(Waiting, k)
      BY <1>1, <1>3, <1>4, <2>2, <3>1, <3>2, PushAppends
    <3>4. Len(Waiting) = Waits(head, tail)
      BY <1>3, <3>2, PendingType
    <3>5. Queue!Put(k)
      BY <1>1, <3>1, <3>3, <3>4 DEF Queue!Put
    <3> QED
      BY <3>5 DEF Queue!Next
  <2> QED
    BY <2>1, <2>2
<1> QED
  BY <1>1, <1>2, <1>5, <1>6, Callback

LEMMA NextRefines ==
  IInv /\ IInv' /\ [Next]_vars => [Queue!Next]_<<Waiting, turn, got>>
<1> SUFFICES ASSUME IInv, IInv', [Next]_vars
             PROVE  [Queue!Next]_<<Waiting, turn, got>>
  OBVIOUS
<1>1. CASE PrefixByte \/ ExtendedKey \/ PlainKey
  BY <1>1, IrqRefines DEF PrefixByte, ExtendedKey, PlainKey
<1>2. CASE Advance
  <2>1. TypeOK /\ TypeOK' /\ head # tail /\ c = buffer[tail]
    BY <1>2 DEF IInv, Advance
  <2>2. Waiting = Pending(buffer, head, tail)
    BY <2>1, WaitingIsPending DEF Waiting, TypeOK
  <2>3. Waiting' = Pending(buffer', head', tail')
    BY <2>1, WaitingIsPending DEF Waiting, TypeOK
  <2>4. buffer' = buffer /\ head' = head /\ tail' = next(tail) /\ got' = c
    BY <1>2 DEF Advance, Idle, ring
  <2>5. buffer \in Ring /\ head \in Cell /\ tail \in Cell
    BY <2>1 DEF TypeOK, Ring
  <2>6. turn' = turn
    BY <1>2 DEF Advance, Idle
  <2>7. Queue!Get
    BY <2>1, <2>2, <2>3, <2>4, <2>5, <2>6, PopIsTail DEF Queue!Get
  <2> QED
    BY <2>7 DEF Queue!Next
<1>3. CASE TimerIrq \/ CheckEmpty \/ LoadKey \/ Halt \/ UNCHANGED vars
  <2>1. UNCHANGED <<buffer, head, tail, turn, got>>
    BY <1>3 DEF TimerIrq, CheckEmpty, LoadKey, Halt, Idle, ring, vars
  <2> QED
    BY <2>1 DEF Waiting
<1> QED
  BY <1>1, <1>2, <1>3 DEF Next, MainLoop

(* For every size of the ring, at every interleaving of keyboard_getchar   *)
(* and the interrupt handler, the ring is a FIFO of BUFFER_SIZE - 1 keys;  *)
(* every key that is pushed while fewer wait is in it.                     *)
THEOREM RingImplementsQueue == Spec => ImplementsKeyQueue
<1>1. Init => Queue!Init
  <2> SUFFICES ASSUME Init PROVE Waiting = <<>> /\ turn = 0 /\ got = Empty
    BY DEF Queue!Init
  <2>1. (head - tail) % BUFFER_SIZE = 0
    BY BufferAssumption DEF Init
  <2> QED
    BY <2>1 DEF Waiting, Init
<1> QED
  BY <1>1, IInvAlways, NextRefines, PTL
     DEF Spec, ImplementsKeyQueue, Queue!Spec, Queue!vars
=============================================================================
