-------------------------------- MODULE Vga --------------------------------
(***************************************************************************)
(* The text screen (drivers/vga.c): VGA_HEIGHT rows of VGA_WIDTH cells and *)
(* a cursor.  A screen is a record [cell, row, col]; every operation maps  *)
(* a screen to the screen it leaves.  Colours, and the blinking hardware   *)
(* cursor that follows (row, col), are left out.  The four vga_cursor_     *)
(* functions are never called.                                             *)
(***************************************************************************)
EXTENDS Integers, Sequences, SequencesExt

CONSTANTS VGA_WIDTH, VGA_HEIGHT, TAB_STOP, Blank, NL, CR, BS, TAB

ASSUME ScreenAssumption ==
  /\ {VGA_WIDTH, VGA_HEIGHT, TAB_STOP} \subseteq Nat \ {0, 1}
  /\ NL \notin {CR, BS, TAB} /\ CR \notin {BS, TAB} /\ BS # TAB

Cells == 0 .. VGA_WIDTH * VGA_HEIGHT - 1

(* The cell the cursor is on, counted from the top left. *)
Pos(s) == s.row * VGA_WIDTH + s.col

vga_clear == [cell |-> [p \in Cells |-> Blank], row |-> 0, col |-> 0]

(* Every line moves up one and the bottom line is blanked. *)
scroll(s) ==
  [cell |-> [p \in Cells |-> IF p + VGA_WIDTH \in Cells
                               THEN s.cell[p + VGA_WIDTH] ELSE Blank],
   row  |-> VGA_HEIGHT - 1,
   col  |-> s.col]

(* The start of the next row, scrolling at the bottom. *)
NextRow(s) ==
  LET down == [s EXCEPT !.row = @ + 1, !.col = 0]
  IN  IF down.row = VGA_HEIGHT THEN scroll(down) ELSE down

(* Mutant: the start of a row stops it. *)
backspace_StaysOnRow(s) ==
  LET back == [s EXCEPT !.col = @ - 1]
  IN  IF s.col = 0 THEN s ELSE [back EXCEPT !.cell[Pos(back)] = Blank]

backspace(s) ==
  LET back == IF s.col > 0 THEN [s EXCEPT !.col = @ - 1]
              ELSE [s EXCEPT !.row = @ - 1, !.col = VGA_WIDTH - 1]
  IN  IF Pos(s) = 0 THEN s ELSE [back EXCEPT !.cell[Pos(back)] = Blank]

(* Blanks up to the next multiple of TAB_STOP, or to the end of the row. *)
tab(s) ==
  LET target == ((s.col + TAB_STOP) \div TAB_STOP) * TAB_STOP
      end    == IF target < VGA_WIDTH THEN target ELSE VGA_WIDTH
      wiped  == [s EXCEPT !.cell = [p \in Cells |->
                   IF p >= Pos(s) /\ p < s.row * VGA_WIDTH + end
                     THEN Blank ELSE @[p]],
                 !.col = end]
  IN  IF end = VGA_WIDTH THEN NextRow(wiped) ELSE wiped

vga_putchar(s, c) ==
  CASE c = NL  -> NextRow(s)
    [] c = CR  -> [s EXCEPT !.col = 0]
    [] c = BS  -> backspace(s)
    [] c = TAB -> tab(s)
    [] OTHER   -> LET put == [s EXCEPT !.cell[Pos(s)] = c, !.col = @ + 1]
                  IN  IF put.col = VGA_WIDTH THEN NextRow(put) ELSE put

vga_write(s, text) == FoldLeft(vga_putchar, s, text)
=============================================================================
