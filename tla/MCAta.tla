------------------------------- MODULE MCAta -------------------------------
EXTENDS Ata
CONSTANTS a, b

MCValue  == {a, b}
(* No sector, the one per call that Fish asks for, and a loop of two. *)
MCCounts == {0, 1, 2}
=============================================================================
