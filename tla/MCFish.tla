------------------------------ MODULE MCFish -------------------------------
EXTENDS FishView

CONSTANTS a, b, p, q, x

MCValidNames == {a, b}
NoNames      == {}
MCByte       == {NUL, x}
MCTexts      == {<<x>>}
MCLetter     == {p, q}

(* One name is the beginning of the other: the names are not symmetric. *)
MCSpelling == [name \in MCValidNames |-> IF name = a THEN <<p>> ELSE <<p, q>>]
=============================================================================
