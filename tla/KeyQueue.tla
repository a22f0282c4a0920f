----------------------------- MODULE KeyQueue ------------------------------
(***************************************************************************)
(* What the keyboard driver promises read_line (include/keyboard.h): keys  *)
(* are handed over one by one, in the order they were decoded; a key that  *)
(* finds the queue full is dropped, and nothing else is.                   *)
(***************************************************************************)
EXTENDS Integers, Sequences

CONSTANTS Capacity, Key, NoKey

VARIABLES
  queue,   \* keys waiting
  turn,    \* a bit that every key turns, so that one that is dropped is a
           \*   step as well
  got      \* the key handed over last, or NoKey

vars == <<queue, turn, got>>

(* A key is decoded: it waits, unless the queue is full. *)
Put(k) ==
  /\ turn' = 1 - turn
  /\ queue' = IF Len(queue) < Capacity THEN Append(queue, k) ELSE queue
  /\ UNCHANGED got

Get ==
  /\ queue # <<>>
  /\ got'   = Head(queue)
  /\ queue' = Tail(queue)
  /\ UNCHANGED turn

Init == queue = <<>> /\ turn = 0 /\ got = NoKey

Next == (\E k \in Key : Put(k)) \/ Get

Spec == Init /\ [][Next]_vars
=============================================================================
