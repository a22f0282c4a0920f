--------------------------- MODULE MCInterrupts ----------------------------
EXTENDS Interrupts

(* The timer, the keyboard, and the disk on the slave. *)
MCLines     == {0, 1, 14}
MCFaults    == {0, 8}
(* No time, half a tick, whole ticks, ticks and a half, and 7, of which    *)
(* timer_sleep's product and sum wrap.                                     *)
MCDurations == {0, 1, 2, 3, 6, 7}
=============================================================================
