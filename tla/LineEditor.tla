---------------------------- MODULE LineEditor -----------------------------
(***************************************************************************)
(* Typing a command (kernel/shell.c, shell_run and read_line): the prompt, *)
(* the line buffer, and the echo of both on the screen.                    *)
(*                                                                         *)
(* A command is reduced to the text it prints.  Keys are what              *)
(* keyboard_getchar hands over (module Keyboard): printable characters,    *)
(* NL, BS, other control characters and the KEY_ codes.                    *)
(***************************************************************************)
EXTENDS Vga

CONSTANTS
  LINE_MAX,    \* size of the line buffer, terminator included
  Prompt,      \* the text "name@host >> "
  Printable,   \* keys from ' ' to 255
  Ignored,     \* control characters and KEY_ codes
  Outputs      \* texts that commands print

(* The longest line the shell can show fits above the bottom row: 67 + 255 *)
(* characters against 24 rows of 80.                                       *)
ASSUME LineAssumption ==
  /\ LINE_MAX \in Nat \ {0}
  /\ Len(Prompt) + LINE_MAX - 1 <= (VGA_HEIGHT - 1) * VGA_WIDTH
  /\ Printable \cap ({NL, BS, CR, TAB} \cup Ignored) = {}

(* set_field in kernel/user.c keeps control characters out of the names,   *)
(* and so out of the prompt; a command may print anything.                 *)
ASSUME TextAssumption ==
  /\ Prompt \in Seq(Range(Prompt) \ {NL, BS, CR, TAB})
  /\ \A text \in Outputs : text \in Seq(Range(text))

VARIABLES
  screen,   \* what is on the screen
  line,     \* the characters typed so far: line[0 .. length - 1]
  pc        \* "prompt", "read" or "execute"

vars == <<screen, line, pc>>

(* shell_run prints the prompt and calls read_line. *)
ShowPrompt ==
  /\ pc = "prompt"
  /\ screen' = vga_write(screen, Prompt)
  /\ line' = <<>>
  /\ pc' = "read"

Enter ==
  /\ pc = "read"
  /\ screen' = vga_putchar(screen, NL)
  /\ pc' = "execute"
  /\ UNCHANGED line

(* Mutant: the boundary of the line is not checked. *)
Backspace_Unbounded ==
  /\ pc = "read"
  /\ line' = IF line = <<>> THEN <<>> ELSE Front(line)
  /\ screen' = vga_putchar(screen, BS)
  /\ UNCHANGED pc

Backspace ==
  /\ pc = "read" /\ Len(line) > 0
  /\ line' = Front(line)
  /\ screen' = vga_putchar(screen, BS)
  /\ UNCHANGED pc

(* Mutant: no room is left for the terminator. *)
Character_OffByOne(key) ==
  /\ pc = "read" /\ Len(line) < LINE_MAX
  /\ line' = Append(line, key)
  /\ screen' = vga_putchar(screen, key)
  /\ UNCHANGED pc

(* Characters past the end of the buffer are not accepted. *)
Character(key) ==
  /\ pc = "read" /\ Len(line) < LINE_MAX - 1
  /\ line' = Append(line, key)
  /\ screen' = vga_putchar(screen, key)
  /\ UNCHANGED pc

IgnoredKey(key) == pc = "read" /\ UNCHANGED vars

(* The command prints its output, or clears the screen. *)
Execute ==
  /\ pc = "execute"
  /\ \/ \E text \in Outputs : screen' = vga_write(screen, text)
     \/ screen' = vga_clear
  /\ pc' = "prompt"
  /\ UNCHANGED line

Init == screen = vga_clear /\ line = <<>> /\ pc = "prompt"

Next ==
  \/ ShowPrompt
  \/ Enter
  \/ Backspace
  \/ \E key \in Printable : Character(key)
  \/ \E key \in Ignored : IgnoredKey(key)
  \/ Execute

Spec == Init /\ [][Next]_vars

-----------------------------------------------------------------------------
(* Properties *)

(* The cursor is on the screen, and the line, with its terminator, fits    *)
(* its buffer.                                                             *)
TypeOK ==
  /\ screen.row \in 0 .. VGA_HEIGHT - 1 /\ screen.col \in 0 .. VGA_WIDTH - 1
  /\ DOMAIN screen.cell = Cells
  /\ line \in Seq(Printable) /\ Len(line) <= LINE_MAX - 1
  /\ pc \in {"prompt", "read", "execute"}

(* What the user sees is what will be executed: while he types, the cells  *)
(* before the cursor show the prompt and then the line, across row ends,   *)
(* scrolling and any number of backspaces.                                 *)
ScreenShowsLine ==
  LET text == Prompt \o line IN
  pc = "read" =>
    /\ Pos(screen) >= Len(text)
    /\ \A k \in 1 .. Len(text) :
         screen.cell[Pos(screen) - Len(text) + k - 1] = text[k]

(* shell.c: "Backspace can only delete what the user typed on this line,   *)
(* never the prompt or anything printed before it": one step of it blanks  *)
(* the cell of the last character, moves the cursor there, and changes no  *)
(* other cell.                                                             *)
BackspaceErasesOnlyTyped ==
  [][pc = "read" /\ pc' = "read" /\ Len(line') < Len(line)
       => /\ Pos(screen') = Pos(screen) - 1
          /\ screen'.cell = [screen.cell EXCEPT ![Pos(screen')] = Blank]]_vars
=============================================================================
