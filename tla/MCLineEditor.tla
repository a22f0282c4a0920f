--------------------------- MODULE MCLineEditor ----------------------------
EXTENDS Shell

CONSTANTS p, q, x, o, arrow

MCPrompt    == <<p, q>>
(* A space, a letter, and digits that make numbers on both sides of the    *)
(* limits of sleep and color and of the word.                              *)
MCPrintable == {Space, x, 0, 1, 2}
MCIgnored   == {arrow}
MCOutputs   == {<<>>, <<o>>, <<o, NL>>, <<o, TAB>>, <<o, CR>>}
(* One name is the beginning of another, and the last page is not full. *)
MCCommands  == <<<<x>>, <<x, 1>>, <<x, x>>>>
=============================================================================
