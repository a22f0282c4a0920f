------------------------- MODULE LineEditorProofs --------------------------
(***************************************************************************)
(* Proofs about modules Vga, LineEditor and Shell, for every size of the   *)
(* screen and of the line buffer: what the user sees is what he typed, and *)
(* what is executed is what he sees.                                       *)
(*                                                                         *)
(* The cells before the cursor are followed through each kind of output.   *)
(* A character that fills the last cell scrolls the screen, and the text   *)
(* moves up with it: the assumption that the longest line fits above the   *)
(* bottom row is what keeps its start on the screen.                       *)
(*                                                                         *)
(* A line is read by scans that stop at a first position: of a character   *)
(* that is no space, of a space, of the terminator.  The pieces between    *)
(* these positions are the line's words, character by character.           *)
(*                                                                         *)
(* A number is read by a loop over its digits.  No step of the loop makes  *)
(* it smaller, so no step wraps if the last one does not; and utoa takes   *)
(* off the digits that the loop put on, the last one first.                *)
(***************************************************************************)
EXTENDS Shell, TLAPS, SequenceTheorems, WellFoundedInduction

-----------------------------------------------------------------------------
(* Induction, with a set in the place of a predicate *)

(* Induction on the natural numbers. *)
LEMMA SetInduction ==
  ASSUME NEW S, 0 \in S, \A k \in Nat : k \in S => k + 1 \in S
  PROVE  Nat \subseteq S
<1> DEFINE LT == OpToRel(<, Nat)
           T  == Nat \ S
<1> SUFFICES ASSUME T # {} PROVE FALSE
  OBVIOUS
<1>1. PICK x \in T : \A y \in T : ~ (<<y, x>> \in LT)
  BY NatLessThanWellFounded, WFMin
<1>2. x \in Nat /\ x \notin S /\ x # 0
  OBVIOUS
<1>3. x - 1 \in Nat /\ x - 1 < x
  BY <1>2
<1>4. <<x - 1, x>> \in LT
  BY <1>2, <1>3 DEF OpToRel
<1>5. x - 1 \in S
  BY <1>1, <1>3, <1>4
<1>6. (x - 1) + 1 \in S
  BY <1>3, <1>5
<1> QED
  BY <1>2, <1>3, <1>6

LEMMA MaxOfNext ==
  ASSUME NEW m \in Nat, NEW s \in SUBSET (1 .. m + 1), m + 1 \in s
  PROVE  Max(s) = m + 1
<1>1. \A y \in s : m + 1 >= y
  OBVIOUS
<1>2. Max(s) \in s /\ Max(s) >= m + 1
  BY <1>1 DEF Max
<1>3. Max(s) \in 1 .. m + 1
  BY <1>2
<1> QED
  BY <1>2, <1>3

-----------------------------------------------------------------------------
(* The screen *)

(* Everything that is ever put into a cell, and every code in a text. *)
Char == {Blank} \cup Printable \cup Range(Prompt)
          \cup UNION {Range(text) : text \in Outputs}

Control == {NL, CR, BS, TAB}

Code == Char \cup Control

Screen == [cell : [Cells -> Char], row : 0 .. VGA_HEIGHT - 1,
           col : 0 .. VGA_WIDTH - 1]

(* The cursor may be just past the end of its row. *)
Wide == [cell : [Cells -> Char], row : 0 .. VGA_HEIGHT - 1,
         col : 0 .. VGA_WIDTH]

LEMMA Dimensions ==
  /\ VGA_WIDTH \in Nat /\ VGA_WIDTH >= 2
  /\ VGA_HEIGHT \in Nat /\ VGA_HEIGHT >= 2
  /\ TAB_STOP \in Nat /\ TAB_STOP >= 2
BY ScreenAssumption

LEMMA ScreenFields ==
  ASSUME NEW s \in Wide
  PROVE  /\ s.cell \in [Cells -> Char]
         /\ s.row \in Nat /\ s.row <= VGA_HEIGHT - 1
         /\ s.col \in Nat /\ s.col <= VGA_WIDTH
         /\ s = [cell |-> s.cell, row |-> s.row, col |-> s.col]
BY Dimensions DEF Wide

LEMMA ScreenIsWide ==
  ASSUME NEW s \in Screen
  PROVE  s \in Wide /\ s.col <= VGA_WIDTH - 1
BY Dimensions DEF Screen, Wide

(* Rows in cells. *)
LEMMA Rows ==
  ASSUME NEW r \in Nat, r <= VGA_HEIGHT - 1
  PROVE  /\ r * VGA_WIDTH \in Nat /\ VGA_HEIGHT * VGA_WIDTH \in Nat
         /\ r * VGA_WIDTH + VGA_WIDTH <= VGA_HEIGHT * VGA_WIDTH
         /\ (r + 1) * VGA_WIDTH = r * VGA_WIDTH + VGA_WIDTH
         /\ (r - 1) * VGA_WIDTH = r * VGA_WIDTH - VGA_WIDTH
         /\ (VGA_HEIGHT - 1) * VGA_WIDTH
              = VGA_HEIGHT * VGA_WIDTH - VGA_WIDTH
         /\ r > 0 => r * VGA_WIDTH >= VGA_WIDTH
<1>1. r * VGA_WIDTH \in Nat /\ VGA_HEIGHT * VGA_WIDTH \in Nat
  BY Dimensions
<1>2. r * VGA_WIDTH <= (VGA_HEIGHT - 1) * VGA_WIDTH
  BY Dimensions
<1>3. (VGA_HEIGHT - 1) * VGA_WIDTH = VGA_HEIGHT * VGA_WIDTH - VGA_WIDTH
  BY Dimensions
<1>4. /\ (r + 1) * VGA_WIDTH = r * VGA_WIDTH + VGA_WIDTH
      /\ (r - 1) * VGA_WIDTH = r * VGA_WIDTH - VGA_WIDTH
  BY Dimensions
<1>5. r > 0 => r * VGA_WIDTH >= 1 * VGA_WIDTH
  BY Dimensions
<1>6. r > 0 => r * VGA_WIDTH >= VGA_WIDTH
  BY <1>5, Dimensions
<1> DEFINE p == r * VGA_WIDTH
           q == VGA_HEIGHT * VGA_WIDTH
           o == (VGA_HEIGHT - 1) * VGA_WIDTH
<1>7. p + VGA_WIDTH <= q
  <2>1. p \in Nat /\ q \in Nat /\ p <= o /\ o = q - VGA_WIDTH
    BY <1>1, <1>2, <1>3
  <2> HIDE DEF p, q, o
  <2> QED
    BY <2>1, Dimensions
<1> QED
  BY <1>1, <1>3, <1>4, <1>6, <1>7

(* The cursor of a screen is on one of its cells. *)
LEMMA PosInCells ==
  ASSUME NEW s \in Screen
  PROVE  /\ Pos(s) \in Cells /\ Pos(s) \in Nat
         /\ Pos(s) = s.row * VGA_WIDTH + s.col
         /\ Cells = 0 .. VGA_HEIGHT * VGA_WIDTH - 1
<1> DEFINE p == s.row * VGA_WIDTH
           q == VGA_HEIGHT * VGA_WIDTH
<1>1. s.row \in Nat /\ s.row <= VGA_HEIGHT - 1
      /\ s.col \in Nat /\ s.col <= VGA_WIDTH - 1
  BY ScreenIsWide, ScreenFields
<1>2. p \in Nat /\ q \in Nat /\ p + VGA_WIDTH <= q
  BY <1>1, Rows
<1>3. Pos(s) = p + s.col
  BY DEF Pos
<1>4. VGA_WIDTH * VGA_HEIGHT = q
  BY Dimensions
<1>5. Cells = 0 .. q - 1
  BY <1>4 DEF Cells
<1> HIDE DEF p, q
<1>6. Pos(s) \in 0 .. q - 1 /\ Pos(s) \in Nat
  BY <1>1, <1>2, <1>3, Dimensions
<1> QED
  BY <1>3, <1>5, <1>6 DEF p, q

Shifted(cell) ==
  [p \in Cells |-> IF p + VGA_WIDTH \in Cells THEN cell[p + VGA_WIDTH]
                                              ELSE Blank]

(* Two fields of a screen replaced. *)
LEMMA Moved ==
  ASSUME NEW s \in Wide, NEW r, NEW c
  PROVE  [s EXCEPT !.row = r, !.col = c]
           = [cell |-> s.cell, row |-> r, col |-> c]
<1> DEFINE w == [s EXCEPT !.row = r]
<1>1. w = [cell |-> s.cell, row |-> r, col |-> s.col]
  BY DEF Wide
<1>2. [s EXCEPT !.row = r, !.col = c] = [w EXCEPT !.col = c]
  OBVIOUS
<1> HIDE DEF w
<1> QED
  BY <1>1, <1>2

LEMMA Repainted ==
  ASSUME NEW s \in Wide, NEW z, NEW c
  PROVE  [s EXCEPT !.cell = z, !.col = c]
           = [cell |-> z, row |-> s.row, col |-> c]
<1> DEFINE w == [s EXCEPT !.cell = z]
<1>1. w = [cell |-> z, row |-> s.row, col |-> s.col]
  BY DEF Wide
<1>2. [s EXCEPT !.cell = z, !.col = c] = [w EXCEPT !.col = c]
  OBVIOUS
<1> HIDE DEF w
<1> QED
  BY <1>1, <1>2

(* What the start of the next row comes to. *)
LEMMA NextRowIs ==
  ASSUME NEW s \in Wide
  PROVE  /\ NextRow(s) \in Screen
         /\ s.row < VGA_HEIGHT - 1 =>
              NextRow(s) = [cell |-> s.cell, row |-> s.row + 1, col |-> 0]
         /\ s.row = VGA_HEIGHT - 1 =>
              NextRow(s) = [cell |-> Shifted(s.cell), row |-> VGA_HEIGHT - 1,
                            col |-> 0]
<1> DEFINE down == [cell |-> s.cell, row |-> s.row + 1, col |-> 0]
<1>1. /\ s.cell \in [Cells -> Char]
      /\ s.row \in Nat /\ s.row <= VGA_HEIGHT - 1
      /\ s = [cell |-> s.cell, row |-> s.row, col |-> s.col]
  BY ScreenFields
<1>2. [s EXCEPT !.row = @ + 1, !.col = 0] = down
  BY Moved
<1>3. NextRow(s) = IF down.row = VGA_HEIGHT THEN scroll(down) ELSE down
  BY <1>2 DEF NextRow
<1>4. CASE s.row < VGA_HEIGHT - 1
  <2>1. NextRow(s) = down
    BY <1>1, <1>3, <1>4, Dimensions
  <2>2. down \in Screen
    BY <1>1, <1>4, Dimensions DEF Screen
  <2> QED
    BY <1>1, <1>4, <2>1, <2>2, Dimensions
<1>5. CASE s.row = VGA_HEIGHT - 1
  <2> DEFINE up == [cell |-> Shifted(s.cell), row |-> VGA_HEIGHT - 1,
                    col |-> 0]
  <2>1. NextRow(s) = scroll(down)
    BY <1>1, <1>3, <1>5, Dimensions
  <2>2. scroll(down) = up
    BY DEF scroll, Shifted
  <2>3. Shifted(s.cell) \in [Cells -> Char]
    BY <1>1 DEF Shifted, Char
  <2>4. up \in Screen
    BY <2>3, Dimensions DEF Screen
  <2> QED
    BY <1>5, <2>1, <2>2, <2>4, Dimensions
<1> QED
  BY <1>1, <1>4, <1>5, Dimensions

(* Backspace blanks the cell before the cursor, on the row above if need   *)
(* be, and changes no other.                                               *)
LEMMA BackspaceIs ==
  ASSUME NEW s \in Screen
  PROVE  /\ backspace(s) \in Screen
         /\ Pos(s) # 0 =>
              /\ Pos(backspace(s)) = Pos(s) - 1
              /\ backspace(s).cell = [s.cell EXCEPT ![Pos(s) - 1] = Blank]
<1>1. /\ s.cell \in [Cells -> Char]
      /\ s.row \in Nat /\ s.row <= VGA_HEIGHT - 1
      /\ s.col \in Nat /\ s.col <= VGA_WIDTH - 1
      /\ s = [cell |-> s.cell, row |-> s.row, col |-> s.col]
  BY ScreenIsWide, ScreenFields
<1>2. Pos(s) \in Nat /\ Pos(s) \in Cells /\ Pos(s) = s.row * VGA_WIDTH + s.col
      /\ Cells = 0 .. VGA_HEIGHT * VGA_WIDTH - 1
  BY PosInCells
<1>3. CASE Pos(s) = 0
  BY <1>3 DEF backspace
<1>4. CASE Pos(s) # 0
  <2> DEFINE r == IF s.col > 0 THEN s.row ELSE s.row - 1
             c == IF s.col > 0 THEN s.col - 1 ELSE VGA_WIDTH - 1
             back == [cell |-> s.cell, row |-> r, col |-> c]
             z == [s.cell EXCEPT ![Pos(s) - 1] = Blank]
             done == [cell |-> z, row |-> r, col |-> c]
  <2>1. s.col = 0 => s.row # 0
    BY <1>1, <1>2, <1>4, Dimensions
  <2>2. r \in 0 .. VGA_HEIGHT - 1 /\ c \in 0 .. VGA_WIDTH - 1
    BY <1>1, <2>1, Dimensions
  <2>3. r * VGA_WIDTH + c = Pos(s) - 1
    <3>1. /\ s.row * VGA_WIDTH \in Nat
          /\ (s.row - 1) * VGA_WIDTH = s.row * VGA_WIDTH - VGA_WIDTH
      BY <1>1, Rows
    <3>2. CASE s.col > 0
      <4>1. r = s.row /\ c = s.col - 1
        BY <3>2
      <4> HIDE DEF r, c
      <4> QED
        BY <1>1, <1>2, <3>1, <4>1
    <3>3. CASE s.col = 0
      <4>1. r = s.row - 1 /\ c = VGA_WIDTH - 1
        BY <3>3
      <4> HIDE DEF r, c
      <4> QED
        BY <1>1, <1>2, <3>1, <3>3, <4>1, Dimensions
    <3> QED
      BY <1>1, <3>2, <3>3
  <2>4. z \in [Cells -> Char]
    BY <1>1 DEF Char
  <2>5. (IF s.col > 0 THEN [s EXCEPT !.col = @ - 1]
         ELSE [s EXCEPT !.row = @ - 1, !.col = VGA_WIDTH - 1]) = back
    BY <1>1
  <2>6. backspace(s) = [back EXCEPT !.cell[Pos(back)] = Blank]
    BY <1>4, <2>5 DEF backspace
  <2> HIDE DEF r, c
  <2>7. Pos(back) = Pos(s) - 1
    BY <2>3 DEF Pos
  <2>8. backspace(s) = done
    BY <2>6, <2>7
  <2>9. done \in Screen
    BY <2>2, <2>4 DEF Screen
  <2>10. Pos(done) = Pos(s) - 1
    BY <2>3 DEF Pos
  <2> QED
    BY <2>8, <2>9, <2>10
<1> QED
  BY <1>3, <1>4

LEMMA TabIs ==
  ASSUME NEW s \in Screen
  PROVE  tab(s) \in Screen
<1> DEFINE target == ((s.col + TAB_STOP) \div TAB_STOP) * TAB_STOP
           end    == IF target < VGA_WIDTH THEN target ELSE VGA_WIDTH
           z      == [p \in Cells |->
                        IF p >= Pos(s) /\ p < s.row * VGA_WIDTH + end
                          THEN Blank ELSE s.cell[p]]
           wiped  == [cell |-> z, row |-> s.row, col |-> end]
<1>1. /\ s.cell \in [Cells -> Char]
      /\ s.row \in Nat /\ s.row <= VGA_HEIGHT - 1
      /\ s.col \in Nat /\ s.col <= VGA_WIDTH - 1
      /\ s = [cell |-> s.cell, row |-> s.row, col |-> s.col]
  BY ScreenIsWide, ScreenFields
<1>2. end \in 0 .. VGA_WIDTH
  <2> DEFINE d == (s.col + TAB_STOP) \div TAB_STOP
  <2>1. d \in Nat
    BY <1>1, Dimensions
  <2> HIDE DEF d
  <2>2. d * TAB_STOP \in Nat
    BY <2>1, Dimensions
  <2>3. target \in Nat
    BY <2>2 DEF d
  <2> HIDE DEF target
  <2> QED
    BY <2>3, Dimensions
<1>3. z \in [Cells -> Char]
  BY <1>1 DEF Char
<1>4. tab(s) = IF end = VGA_WIDTH THEN NextRow(wiped) ELSE wiped
  <2>1. [s EXCEPT !.cell = [p \in Cells |->
                     IF p >= Pos(s) /\ p < s.row * VGA_WIDTH + end
                       THEN Blank ELSE @[p]],
                  !.col = end] = wiped
    <3>1. s \in Wide
      BY ScreenIsWide
    <3> HIDE DEF end
    <3>2. [s EXCEPT !.cell = z, !.col = end] = wiped
      BY <3>1, Repainted
    <3> QED
      BY <3>2
  <2> QED
    BY <2>1 DEF tab
<1> HIDE DEF end, z
<1>5. wiped \in Wide
  BY <1>1, <1>2, <1>3, Dimensions DEF Wide
<1>6. CASE end = VGA_WIDTH
  BY <1>4, <1>5, <1>6, NextRowIs
<1>7. CASE end # VGA_WIDTH
  <2>1. wiped \in Screen
    BY <1>1, <1>2, <1>3, <1>7, Dimensions DEF Screen
  <2> QED
    BY <1>4, <1>7, <2>1
<1> QED
  BY <1>6, <1>7

(* A character goes to the cell under the cursor; in the last column of    *)
(* the last row everything then moves up a row.                            *)
LEMMA PutIs ==
  ASSUME NEW s \in Screen, NEW c \in Char, c \notin Control
  PROVE  LET z == [s.cell EXCEPT ![Pos(s)] = c]
             t == vga_putchar(s, c)
         IN  /\ t \in Screen
             /\ \/ t.cell = z /\ Pos(t) = Pos(s) + 1
                \/ /\ t.cell = Shifted(z)
                   /\ Pos(t) = Pos(s) + 1 - VGA_WIDTH
                   /\ Pos(t) = (VGA_HEIGHT - 1) * VGA_WIDTH
<1> DEFINE z == [s.cell EXCEPT ![Pos(s)] = c]
           t == vga_putchar(s, c)
           put == [cell |-> z, row |-> s.row, col |-> s.col + 1]
<1>1. /\ s.cell \in [Cells -> Char]
      /\ s.row \in Nat /\ s.row <= VGA_HEIGHT - 1
      /\ s.col \in Nat /\ s.col <= VGA_WIDTH - 1
      /\ s = [cell |-> s.cell, row |-> s.row, col |-> s.col]
  BY ScreenIsWide, ScreenFields
<1>2. Pos(s) \in Nat /\ Pos(s) \in Cells /\ Pos(s) = s.row * VGA_WIDTH + s.col
  BY PosInCells
<1>3. /\ s.row * VGA_WIDTH \in Nat /\ VGA_HEIGHT * VGA_WIDTH \in Nat
      /\ (s.row + 1) * VGA_WIDTH = s.row * VGA_WIDTH + VGA_WIDTH
      /\ (VGA_HEIGHT - 1) * VGA_WIDTH = VGA_HEIGHT * VGA_WIDTH - VGA_WIDTH
  BY <1>1, Rows
<1>4. z \in [Cells -> Char]
  BY <1>1
<1>5. t = IF put.col = VGA_WIDTH THEN NextRow(put) ELSE put
  <2>1. [s EXCEPT !.cell[Pos(s)] = c, !.col = @ + 1] = put
    <3>1. s \in Wide
      BY ScreenIsWide
    <3>2. [s EXCEPT !.cell = z, !.col = s.col + 1] = put
      BY <3>1, Repainted
    <3> QED
      BY <3>2
  <2>2. c # NL /\ c # CR /\ c # BS /\ c # TAB
    BY DEF Control
  <2> QED
    BY <2>1, <2>2 DEF vga_putchar
<1> HIDE DEF z, t
<1>6. put \in Wide
  BY <1>1, <1>4, Dimensions DEF Wide
<1>7. CASE s.col + 1 # VGA_WIDTH
  <2>1. t = put
    BY <1>5, <1>7
  <2>2. put \in Screen
    BY <1>1, <1>4, <1>7, Dimensions DEF Screen
  <2>3. Pos(put) = Pos(s) + 1
    BY <1>1, <1>2, <1>3 DEF Pos
  <2> QED
    BY <2>1, <2>2, <2>3 DEF z, t
<1>8. CASE s.col + 1 = VGA_WIDTH /\ s.row < VGA_HEIGHT - 1
  <2>1. t = [cell |-> z, row |-> s.row + 1, col |-> 0] /\ t \in Screen
    BY <1>5, <1>6, <1>8, NextRowIs
  <2>2. Pos(t) = (s.row + 1) * VGA_WIDTH + 0
    BY <2>1 DEF Pos
  <2>3. Pos(t) = Pos(s) + 1
    BY <1>1, <1>2, <1>3, <1>8, <2>2, Dimensions
  <2> QED
    BY <2>1, <2>3 DEF z, t
<1>9. CASE s.col + 1 = VGA_WIDTH /\ s.row = VGA_HEIGHT - 1
  <2>1. /\ t = [cell |-> Shifted(z), row |-> VGA_HEIGHT - 1, col |-> 0]
        /\ t \in Screen
    BY <1>5, <1>6, <1>9, NextRowIs
  <2>2. Pos(t) = (VGA_HEIGHT - 1) * VGA_WIDTH + 0
    BY <2>1 DEF Pos
  <2>3. /\ Pos(t) = (VGA_HEIGHT - 1) * VGA_WIDTH
        /\ Pos(t) = Pos(s) + 1 - VGA_WIDTH
    BY <1>1, <1>2, <1>3, <1>9, <2>2, Dimensions
  <2> QED
    BY <2>1, <2>3 DEF z, t
<1> QED
  BY <1>1, <1>7, <1>8, <1>9, Dimensions

(* Every code leaves a screen. *)
LEMMA PutcharType ==
  ASSUME NEW s \in Screen, NEW c \in Code
  PROVE  vga_putchar(s, c) \in Screen
<1>1. CASE c = NL
  BY <1>1, ScreenIsWide, NextRowIs, ScreenAssumption DEF vga_putchar
<1>2. CASE c = CR
  <2>1. vga_putchar(s, c) = [s EXCEPT !.col = 0]
    BY <1>2, ScreenAssumption DEF vga_putchar
  <2> QED
    BY <2>1, Dimensions DEF Screen
<1>3. CASE c = BS
  BY <1>3, BackspaceIs, ScreenAssumption DEF vga_putchar
<1>4. CASE c = TAB
  BY <1>4, TabIs, ScreenAssumption DEF vga_putchar
<1>5. CASE c \notin Control
  BY <1>5, PutIs DEF Code
<1> QED
  BY <1>1, <1>2, <1>3, <1>4, <1>5 DEF Control

-----------------------------------------------------------------------------
(* A text is written character by character *)

(* The screen after the characters whose indices are in I. *)
WrittenUpTo(f, s, text, I) ==
  IF I = {} THEN s ELSE vga_putchar(f[I \ {Max(I)}], text[Max(I)])

Writes(s, text) ==
  CHOOSE f : f = [I \in SUBSET DOMAIN text |->
                    IF I = {} THEN s
                    ELSE vga_putchar(f[I \ {Max(I)}], text[Max(I)])]

LEMMA WriteIsLastPass ==
  ASSUME NEW s, NEW text
  PROVE  vga_write(s, text) = Writes(s, text)[DOMAIN text]
BY DEF vga_write, FoldLeft, MapThenFoldSet, Writes

(* The recursive function exists, for every text. *)
LEMMA WritesExist ==
  ASSUME NEW s \in Screen, NEW text \in Seq(Code)
  PROVE  \A I \in SUBSET DOMAIN text :
           Writes(s, text)[I] = WrittenUpTo(Writes(s, text), s, text, I)
<1> DEFINE n == Len(text)
           D(m) == SUBSET (1 .. m)
           Is(f, m) == \A I \in D(m) : f[I] = WrittenUpTo(f, s, text, I)
           Ok(m) == \E f \in [D(m) -> Screen] : Is(f, m)
           P == {m \in Nat : m <= n => Ok(m)}
<1>1. Ok(0)
  <2> DEFINE f == [I \in D(0) |-> s]
  <2>1. D(0) = {{}}
    BY SMT
  <2>2. f \in [D(0) -> Screen] /\ Is(f, 0)
    BY <2>1 DEF WrittenUpTo
  <2> QED
    BY <2>2
<1>2. ASSUME NEW m \in Nat, m + 1 <= n, Ok(m)
      PROVE  Ok(m + 1)
  <2>1. PICK g \in [D(m) -> Screen] : Is(g, m)
    BY <1>2
  <2> DEFINE f == [I \in D(m + 1) |->
                     IF m + 1 \in I
                       THEN vga_putchar(g[I \ {m + 1}], text[m + 1])
                       ELSE g[I]]
  <2>2. \A I \in D(m + 1) : I \ {m + 1} \in D(m)
    OBVIOUS
  <2>3. text[m + 1] \in Code
    <3>1. m + 1 \in 1 .. Len(text)
      BY <1>2
    <3> QED
      BY <3>1
  <2>4. f \in [D(m + 1) -> Screen]
    <3> SUFFICES ASSUME NEW I \in D(m + 1) PROVE f[I] \in Screen
      OBVIOUS
    <3>1. CASE m + 1 \in I
      BY <2>2, <2>3, <3>1, PutcharType
    <3>2. CASE m + 1 \notin I
      <4>1. I \in D(m)
        BY <3>2
      <4> QED
        BY <3>2, <4>1
    <3> QED
      BY <3>1, <3>2
  <2>5. ASSUME NEW I \in D(m + 1)
        PROVE  f[I] = WrittenUpTo(f, s, text, I)
    <3>1. CASE m + 1 \in I
      <4>1. Max(I) = m + 1
        BY <3>1, MaxOfNext
      <4>2. I \ {m + 1} \in D(m + 1) /\ m + 1 \notin I \ {m + 1}
        BY <2>2
      <4>3. f[I \ {m + 1}] = g[I \ {m + 1}]
        BY <4>2
      <4>4. f[I] = vga_putchar(g[I \ {m + 1}], text[m + 1])
        BY <3>1
      <4> HIDE DEF f
      <4> QED
        BY <3>1, <4>1, <4>3, <4>4 DEF WrittenUpTo
    <3>2. CASE m + 1 \notin I
      <4>1. I \in D(m) /\ I \in SUBSET (1 .. m)
        BY <3>2
      <4>2. f[I] = WrittenUpTo(g, s, text, I)
        BY <2>1, <3>2, <4>1
      <4>3. I # {} => f[I \ {Max(I)}] = g[I \ {Max(I)}]
        <5>1. I \ {Max(I)} \in D(m + 1) /\ m + 1 \notin I \ {Max(I)}
          BY <3>2
        <5> QED
          BY <5>1
      <4> HIDE DEF f
      <4> QED
        BY <4>2, <4>3 DEF WrittenUpTo
    <3> QED
      BY <3>1, <3>2
  <2> HIDE DEF f
  <2> QED
    BY <2>4, <2>5
<1>3. n \in Nat /\ DOMAIN text = 1 .. n
  OBVIOUS
<1> HIDE DEF Ok, n
<1>4. n \in P
  <2>1. 0 \in P /\ \A m \in Nat : m \in P => m + 1 \in P
    BY <1>1, <1>2, <1>3
  <2> HIDE DEF P
  <2> QED
    BY <1>3, <2>1, SetInduction
<1>5. PICK f \in [D(n) -> Screen] : Is(f, n)
  <2>1. Ok(n)
    BY <1>3, <1>4
  <2> QED
    BY <2>1 DEF Ok
<1>6. f = [I \in SUBSET DOMAIN text |->
             IF I = {} THEN s ELSE vga_putchar(f[I \ {Max(I)}], text[Max(I)])]
  BY <1>3, <1>5 DEF WrittenUpTo
<1> DEFINE p == Writes(s, text)
<1>7. p = [I \in SUBSET DOMAIN text |->
             IF I = {} THEN s ELSE vga_putchar(p[I \ {Max(I)}], text[Max(I)])]
  BY <1>6 DEF Writes
<1> HIDE DEF p
<1>8. \A I \in SUBSET DOMAIN text : p[I] = WrittenUpTo(p, s, text, I)
  BY <1>7 DEF WrittenUpTo
<1> QED
  BY <1>8 DEF p

(* The screen when k characters have been put on it. *)
Wrote(s, text, k) == Writes(s, text)[1 .. k]

LEMMA WriteByChar ==
  ASSUME NEW s \in Screen, NEW text \in Seq(Code)
  PROVE  /\ Wrote(s, text, 0) = s
         /\ \A k \in 0 .. Len(text) - 1 :
              Wrote(s, text, k + 1)
                = vga_putchar(Wrote(s, text, k), text[k + 1])
         /\ vga_write(s, text) = Wrote(s, text, Len(text))
<1>1. Wrote(s, text, 0) = s
  <2>1. 1 .. 0 = {} /\ {} \in SUBSET DOMAIN text
    OBVIOUS
  <2>2. Writes(s, text)[{}] = s
    BY <2>1, WritesExist DEF WrittenUpTo
  <2> QED
    BY <2>1, <2>2 DEF Wrote
<1>2. ASSUME NEW k \in 0 .. Len(text) - 1
      PROVE  Wrote(s, text, k + 1)
               = vga_putchar(Wrote(s, text, k), text[k + 1])
  <2> DEFINE I == 1 .. k + 1
  <2>1. k \in Nat /\ k + 1 \in I /\ I # {} /\ I \ {k + 1} = 1 .. k
    <3>1. k \in Nat
      OBVIOUS
    <3>2. \A x : x \in I \ {k + 1} <=> x \in 1 .. k
      BY <3>1
    <3> QED
      BY <3>1, <3>2
  <2>2. I \in SUBSET DOMAIN text
    OBVIOUS
  <2>3. Max(I) = k + 1
    BY <2>1, MaxOfNext
  <2> HIDE DEF I
  <2>4. Writes(s, text)[I]
          = vga_putchar(Writes(s, text)[I \ {Max(I)}], text[Max(I)])
    BY <2>1, <2>2, WritesExist DEF WrittenUpTo
  <2> QED
    BY <2>1, <2>3, <2>4 DEF Wrote, I
<1>3. vga_write(s, text) = Wrote(s, text, Len(text))
  <2>1. DOMAIN text = 1 .. Len(text)
    OBVIOUS
  <2> QED
    BY <2>1, WriteIsLastPass DEF Wrote
<1> QED
  BY <1>1, <1>2, <1>3

LEMMA WriteType ==
  ASSUME NEW s \in Screen, NEW text \in Seq(Code)
  PROVE  vga_write(s, text) \in Screen
<1> DEFINE S == {k \in Nat : k <= Len(text) => Wrote(s, text, k) \in Screen}
<1>1. 0 \in S
  BY WriteByChar
<1>2. ASSUME NEW k \in Nat, k \in S PROVE k + 1 \in S
  <2>1. SUFFICES ASSUME k + 1 <= Len(text)
                 PROVE  Wrote(s, text, k + 1) \in Screen
    OBVIOUS
  <2>2. Wrote(s, text, k) \in Screen /\ k \in 0 .. Len(text) - 1
    BY <1>2, <2>1
  <2>3. text[k + 1] \in Code
    BY <2>2
  <2>4. vga_putchar(Wrote(s, text, k), text[k + 1]) \in Screen
    BY <2>2, <2>3, PutcharType
  <2> QED
    BY <2>2, <2>4, WriteByChar
<1> HIDE DEF S
<1>3. Len(text) \in S
  BY <1>1, <1>2, SetInduction
<1> QED
  BY <1>3, WriteByChar DEF S

-----------------------------------------------------------------------------
(* The text before the cursor *)

(* The cells before the cursor show the first k characters of the text. *)
ShowsUpTo(s, text, k) ==
  /\ Pos(s) >= k
  /\ \A j \in 1 .. k : s.cell[Pos(s) - k + j - 1] = text[j]

(* One character more is shown, whether or not the screen scrolls. *)
LEMMA PutShows ==
  ASSUME NEW s \in Screen, NEW text, NEW k \in Nat,
         text[k + 1] \in Char, text[k + 1] \notin Control,
         k + 1 <= (VGA_HEIGHT - 1) * VGA_WIDTH,
         ShowsUpTo(s, text, k)
  PROVE  ShowsUpTo(vga_putchar(s, text[k + 1]), text, k + 1)
<1> DEFINE c == text[k + 1]
           z == [s.cell EXCEPT ![Pos(s)] = c]
           t == vga_putchar(s, c)
           p == Pos(s)
           N == VGA_HEIGHT * VGA_WIDTH
           B == (VGA_HEIGHT - 1) * VGA_WIDTH
<1>1. /\ p \in Nat /\ p \in Cells /\ Cells = 0 .. N - 1
      /\ N \in Nat /\ B = N - VGA_WIDTH /\ VGA_WIDTH \in Nat
  <2>1. s.row \in Nat /\ s.row <= VGA_HEIGHT - 1
    BY ScreenIsWide, ScreenFields
  <2> QED
    BY <2>1, PosInCells, Rows, Dimensions
<1>2. s.cell \in [Cells -> Char]
  BY ScreenIsWide, ScreenFields
<1>3. \/ t.cell = z /\ Pos(t) = p + 1
      \/ /\ t.cell = Shifted(z)
         /\ Pos(t) = p + 1 - VGA_WIDTH
         /\ Pos(t) = B
  BY PutIs
<1>4. p >= k /\ \A j \in 1 .. k : s.cell[p - k + j - 1] = text[j]
  BY DEF ShowsUpTo
<1>5. k + 1 <= B
  OBVIOUS
<1> HIDE DEF t, p, N, B
<1>6. ASSUME NEW j \in 1 .. k + 1
      PROVE  p - k + j - 1 \in Cells /\ z[p - k + j - 1] = text[j]
  <2> DEFINE i == p - k + j - 1
  <2>1. i \in Nat /\ i <= p /\ (i = p <=> j = k + 1)
    BY <1>1, <1>4
  <2>2. i \in Cells
    BY <1>1, <2>1
  <2>3. CASE j = k + 1
    <3>1. i = p
      BY <2>1, <2>3
    <3> QED
      BY <1>1, <1>2, <2>2, <2>3, <3>1 DEF p
  <2>4. CASE j # k + 1
    <3>1. j \in 1 .. k /\ i # p
      BY <2>1, <2>4
    <3>2. s.cell[i] = text[j]
      BY <1>4, <3>1
    <3> QED
      BY <1>2, <2>2, <3>1, <3>2 DEF p
  <2> QED
    BY <2>3, <2>4
<1> HIDE DEF z, c
<1>7. CASE t.cell = z /\ Pos(t) = p + 1
  <2>1. Pos(t) >= k + 1
    BY <1>1, <1>4, <1>7
  <2>2. ASSUME NEW j \in 1 .. k + 1
        PROVE  t.cell[Pos(t) - (k + 1) + j - 1] = text[j]
    <3>1. Pos(t) - (k + 1) + j - 1 = p - k + j - 1
      BY <1>1, <1>7
    <3> QED
      BY <1>6, <1>7, <3>1
  <2> QED
    BY <2>1, <2>2 DEF ShowsUpTo, t, c
<1>8. CASE /\ t.cell = Shifted(z)
           /\ Pos(t) = p + 1 - VGA_WIDTH
           /\ Pos(t) = B
  <2>1. Pos(t) >= k + 1
    BY <1>1, <1>5, <1>8
  <2>2. ASSUME NEW j \in 1 .. k + 1
        PROVE  t.cell[Pos(t) - (k + 1) + j - 1] = text[j]
    <3> DEFINE i == Pos(t) - (k + 1) + j - 1
    <3>1. i + VGA_WIDTH = p - k + j - 1 /\ i \in Nat
      BY <1>1, <1>8, <2>1
    <3>2. i + VGA_WIDTH \in Cells /\ z[i + VGA_WIDTH] = text[j]
      BY <1>6, <3>1
    <3>3. i \in Cells
      BY <1>1, <3>1, <3>2
    <3> HIDE DEF i
    <3>4. Shifted(z)[i] = text[j]
      BY <3>2, <3>3 DEF Shifted
    <3> QED
      BY <1>8, <3>4 DEF i
  <2> QED
    BY <2>1, <2>2 DEF ShowsUpTo, t, c
<1> QED
  BY <1>3, <1>7, <1>8

(* Backspace takes the last character away. *)
LEMMA BackShows ==
  ASSUME NEW s \in Screen, NEW text, NEW k \in Nat,
         ShowsUpTo(s, text, k + 1)
  PROVE  ShowsUpTo(backspace(s), text, k)
<1> DEFINE p == Pos(s)
           t == backspace(s)
<1>1. p \in Nat /\ p \in Cells /\ p >= k + 1
      /\ Cells = 0 .. VGA_HEIGHT * VGA_WIDTH - 1
  BY PosInCells DEF ShowsUpTo
<1>2. Pos(t) = p - 1 /\ t.cell = [s.cell EXCEPT ![p - 1] = Blank]
  <2>1. Pos(s) # 0
    BY <1>1
  <2> QED
    BY <2>1, BackspaceIs, Zenon
<1>3. \A j \in 1 .. k + 1 : s.cell[p - (k + 1) + j - 1] = text[j]
  BY DEF ShowsUpTo
<1>4. s.cell \in [Cells -> Char]
  BY ScreenIsWide, ScreenFields
<1> HIDE DEF p, t
<1>5. ASSUME NEW j \in 1 .. k
      PROVE  t.cell[Pos(t) - k + j - 1] = text[j]
  <2> DEFINE i == p - (k + 1) + j - 1
  <2>1. i \in Nat /\ i < p - 1 /\ Pos(t) - k + j - 1 = i
    BY <1>1, <1>2
  <2>2. s.cell[i] = text[j]
    BY <1>3
  <2> HIDE DEF i
  <2>3. t.cell[i] = s.cell[i]
    BY <1>1, <1>2, <1>4, <2>1
  <2> QED
    BY <2>1, <2>2, <2>3
<1>6. Pos(t) >= k
  BY <1>1, <1>2
<1> QED
  BY <1>5, <1>6 DEF ShowsUpTo, t

(* A text of printable characters that fits above the bottom row is shown  *)
(* whole.                                                                  *)
LEMMA WriteShows ==
  ASSUME NEW s \in Screen, NEW text \in Seq(Char \ Control),
         Len(text) <= (VGA_HEIGHT - 1) * VGA_WIDTH
  PROVE  ShowsUpTo(vga_write(s, text), text, Len(text))
<1> DEFINE S == {k \in Nat : k <= Len(text) =>
                   /\ Wrote(s, text, k) \in Screen
                   /\ ShowsUpTo(Wrote(s, text, k), text, k)}
           B == (VGA_HEIGHT - 1) * VGA_WIDTH
<1>1. text \in Seq(Code) /\ Len(text) \in Nat /\ Len(text) <= B
  BY DEF Code
<1>b. B \in Nat
  <2>1. VGA_HEIGHT - 1 \in Nat /\ VGA_WIDTH \in Nat
    BY Dimensions
  <2> QED
    BY <2>1
<1>2. 0 \in S
  <2>1. Wrote(s, text, 0) = s
    BY <1>1, WriteByChar
  <2>2. Pos(s) \in Nat
    BY PosInCells
  <2> QED
    BY <2>1, <2>2 DEF ShowsUpTo
<1> HIDE DEF B
<1>3. ASSUME NEW k \in Nat, k \in S PROVE k + 1 \in S
  <2>1. SUFFICES ASSUME k + 1 <= Len(text)
                 PROVE  /\ Wrote(s, text, k + 1) \in Screen
                        /\ ShowsUpTo(Wrote(s, text, k + 1), text, k + 1)
    OBVIOUS
  <2>2. /\ Wrote(s, text, k) \in Screen /\ k \in 0 .. Len(text) - 1
        /\ ShowsUpTo(Wrote(s, text, k), text, k)
        /\ k + 1 <= B
    BY <1>1, <1>3, <1>b, <2>1
  <2>3. text[k + 1] \in Char /\ text[k + 1] \notin Control
        /\ text[k + 1] \in Code
    BY <2>2 DEF Code
  <2>4. Wrote(s, text, k + 1) = vga_putchar(Wrote(s, text, k), text[k + 1])
    BY <1>1, <2>2, WriteByChar
  <2>5. vga_putchar(Wrote(s, text, k), text[k + 1]) \in Screen
    BY <2>2, <2>3, PutcharType
  <2>6. ShowsUpTo(vga_putchar(Wrote(s, text, k), text[k + 1]), text, k + 1)
    BY <2>2, <2>3, PutShows DEF B
  <2> QED
    BY <2>4, <2>5, <2>6
<1> HIDE DEF S
<1>4. Len(text) \in S
  BY <1>1, <1>2, <1>3, SetInduction
<1> QED
  BY <1>1, <1>4, WriteByChar DEF S

-----------------------------------------------------------------------------
(* The line editor *)

(* What holds in every state: the types, and the text before the cursor. *)
IInv ==
  /\ screen \in Screen
  /\ line \in Seq(Printable) /\ Len(line) <= LINE_MAX - 1
  /\ pc \in {"prompt", "read", "execute"}
  /\ pc = "read" => ShowsUpTo(screen, Prompt \o line, Len(Prompt) + Len(line))

(* The prompt and the line are printable, and the longest fit the screen. *)
LEMMA Texts ==
  /\ Prompt \in Seq(Char \ Control) /\ Len(Prompt) \in Nat
  /\ Printable \subseteq Char \ Control
  /\ \A text \in Outputs : text \in Seq(Code)
  /\ LINE_MAX \in Nat /\ LINE_MAX >= 1
  /\ Len(Prompt) + LINE_MAX - 1 <= (VGA_HEIGHT - 1) * VGA_WIDTH
  /\ (VGA_HEIGHT - 1) * VGA_WIDTH \in Nat
<1>1. Range(Prompt) \ {NL, BS, CR, TAB} \subseteq Char \ Control
  BY DEF Char, Control
<1>2. Prompt \in Seq(Range(Prompt) \ {NL, BS, CR, TAB})
  BY TextAssumption
<1>3. Prompt \in Seq(Char \ Control) /\ Len(Prompt) \in Nat
  BY <1>1, <1>2
<1>4. Printable \subseteq Char \ Control
  BY LineAssumption DEF Char, Control
<1>5. ASSUME NEW text \in Outputs PROVE text \in Seq(Code)
  <2>1. Range(text) \subseteq Code
    BY DEF Char, Code
  <2>2. text \in Seq(Range(text))
    BY TextAssumption
  <2> QED
    BY <2>1, <2>2
<1>6. (VGA_HEIGHT - 1) * VGA_WIDTH \in Nat
  <2>1. VGA_HEIGHT - 1 \in Nat /\ VGA_WIDTH \in Nat
    BY Dimensions
  <2> QED
    BY <2>1
<1>7. /\ LINE_MAX \in Nat /\ LINE_MAX >= 1
      /\ Len(Prompt) + LINE_MAX - 1 <= (VGA_HEIGHT - 1) * VGA_WIDTH
  BY LineAssumption
<1> QED
  BY <1>3, <1>4, <1>5, <1>6, <1>7

LEMMA ClearType == vga_clear \in Screen
BY Dimensions DEF vga_clear, Screen, Char

LEMMA InitIInv == Init => IInv
BY ClearType, Texts DEF Init, IInv

LEMMA ShowPromptStep == IInv /\ ShowPrompt => IInv'
<1> SUFFICES ASSUME IInv, ShowPrompt PROVE IInv'
  OBVIOUS
<1>1. /\ screen \in Screen /\ screen' = vga_write(screen, Prompt)
      /\ line' = <<>> /\ pc' = "read"
  BY DEF IInv, ShowPrompt
<1>2. Prompt \in Seq(Code)
  BY Texts DEF Code
<1>3. screen' \in Screen
  BY <1>1, <1>2, WriteType
<1>4. Len(Prompt) <= (VGA_HEIGHT - 1) * VGA_WIDTH
  BY Texts
<1>5. ShowsUpTo(screen', Prompt, Len(Prompt))
  BY <1>1, <1>4, Texts, WriteShows
<1>6. Prompt \o line' = Prompt /\ Len(line') = 0
      /\ Len(Prompt) + Len(line') = Len(Prompt)
  BY <1>1, Texts
<1>7. line' \in Seq(Printable) /\ Len(line') <= LINE_MAX - 1
  BY <1>1, Texts
<1> QED
  BY <1>1, <1>3, <1>5, <1>6, <1>7 DEF IInv

LEMMA EnterStep == IInv /\ Enter => IInv'
<1> SUFFICES ASSUME IInv, Enter PROVE IInv'
  OBVIOUS
<1>1. NL \in Code
  BY DEF Code, Control
<1>2. screen' \in Screen
  BY <1>1, PutcharType DEF IInv, Enter
<1> QED
  BY <1>2 DEF IInv, Enter

LEMMA FrontOf ==
  ASSUME NEW S, NEW q \in Seq(S), Len(q) > 0
  PROVE  LET r == SubSeq(q, 1, Len(q) - 1) IN
         /\ r \in Seq(S) /\ Len(r) = Len(q) - 1
         /\ \A j \in 1 .. Len(q) - 1 : r[j] = q[j]
<1> DEFINE n == Len(q) - 1
           r == [j \in 1 .. n |-> q[j]]
<1>1. n \in Nat /\ \A j \in 1 .. n : q[j] \in S
  OBVIOUS
<1>2. SubSeq(q, 1, n) = r
  BY <1>1
<1> HIDE DEF n
<1>3. r \in Seq(S) /\ Len(r) = n
  BY <1>1
<1> QED
  BY <1>1, <1>2, <1>3 DEF n

LEMMA SameStart ==
  ASSUME NEW S, NEW T, NEW p \in Seq(S), NEW q \in Seq(T), NEW r \in Seq(T),
         NEW n \in Nat, Len(r) = n, n <= Len(q),
         \A j \in 1 .. n : r[j] = q[j],
         NEW j \in 1 .. Len(p) + n
  PROVE  (p \o q)[j] = (p \o r)[j]
<1>1. CASE j <= Len(p)
  BY <1>1
<1>2. CASE j > Len(p)
  <2>1. j - Len(p) \in 1 .. n
    BY <1>2
  <2>2. (p \o q)[j] = q[j - Len(p)] /\ (p \o r)[j] = r[j - Len(p)]
    BY <1>2, <2>1
  <2> QED
    BY <2>1, <2>2
<1> QED
  BY <1>1, <1>2

(* The last character leaves the screen with the line. *)
LEMMA BackspaceStep ==
  ASSUME IInv, Backspace
  PROVE  /\ IInv'
         /\ Pos(screen') = Pos(screen) - 1
         /\ screen'.cell = [screen.cell EXCEPT ![Pos(screen')] = Blank]
<1> DEFINE n == Len(line) - 1
           text == Prompt \o line
           k == Len(Prompt) + n
<1>1. /\ screen \in Screen /\ line \in Seq(Printable) /\ Len(line) > 0
      /\ Len(line) <= LINE_MAX - 1 /\ pc = "read" /\ pc' = pc
      /\ ShowsUpTo(screen, text, Len(Prompt) + Len(line))
  BY DEF IInv, Backspace
<1>2. screen' = backspace(screen)
  BY ScreenAssumption DEF Backspace, vga_putchar
<1>3. /\ line' \in Seq(Printable) /\ Len(line') = n
      /\ \A j \in 1 .. n : line'[j] = line[j]
  <2>1. line' = SubSeq(line, 1, Len(line) - 1)
    BY DEF Backspace, Front
  <2>2. Len(line) - 1 \in Nat
    BY <1>1
  <2> QED
    BY <1>1, <2>1, <2>2, FrontOf
<1>4. n \in Nat /\ k \in Nat /\ Len(Prompt) + Len(line) = k + 1
  BY <1>1, Texts
<1>5. ShowsUpTo(screen', text, k)
  BY <1>1, <1>2, <1>4, BackShows
<1>6. ASSUME NEW j \in 1 .. k PROVE text[j] = (Prompt \o line')[j]
  <2> HIDE DEF n
  <2>1. n <= Len(line) /\ j \in 1 .. Len(Prompt) + n
    BY <1>4 DEF n
  <2> QED
    BY <1>1, <1>3, <1>4, <2>1, Texts, SameStart
<1>7. ShowsUpTo(screen', Prompt \o line', k)
  BY <1>5, <1>6 DEF ShowsUpTo
<1>8. screen' \in Screen
  BY <1>1, <1>2, BackspaceIs
<1>9. Pos(screen) # 0
  BY <1>1, <1>4, PosInCells DEF ShowsUpTo
<1>10. /\ Pos(screen') = Pos(screen) - 1
       /\ screen'.cell = [screen.cell EXCEPT ![Pos(screen')] = Blank]
  BY <1>1, <1>2, <1>9, BackspaceIs
<1>11. IInv'
  BY <1>1, <1>3, <1>4, <1>7, <1>8, Texts DEF IInv
<1> QED
  BY <1>10, <1>11

LEMMA CharacterStep ==
  ASSUME NEW key \in Printable, IInv, Character(key)
  PROVE  IInv' /\ Len(line') = Len(line) + 1
<1> DEFINE text == Prompt \o Append(line, key)
           k == Len(Prompt) + Len(line)
<1>1. /\ screen \in Screen /\ line \in Seq(Printable)
      /\ Len(line) < LINE_MAX - 1 /\ pc = "read" /\ pc' = pc
      /\ ShowsUpTo(screen, Prompt \o line, k)
      /\ line' = Append(line, key) /\ screen' = vga_putchar(screen, key)
  BY DEF IInv, Character
<1>2. /\ line' \in Seq(Printable) /\ Len(line') = Len(line) + 1
      /\ k \in Nat /\ Len(line') <= LINE_MAX - 1
      /\ Len(Prompt) + Len(line') = k + 1
  BY <1>1, Texts
<1>3. text[k + 1] = key
  BY <1>1, <1>2, Texts
<1>4. ASSUME NEW j \in 1 .. k PROVE (Prompt \o line)[j] = text[j]
  BY <1>1, <1>2, Texts
<1>5. ShowsUpTo(screen, text, k)
  BY <1>1, <1>4 DEF ShowsUpTo
<1>6. key \in Char /\ key \notin Control /\ key \in Code
  BY Texts DEF Code
<1>7. k + 1 <= (VGA_HEIGHT - 1) * VGA_WIDTH
  BY <1>1, <1>2, Texts
<1> HIDE DEF k, text
<1>8. ShowsUpTo(screen', text, k + 1)
  BY <1>1, <1>2, <1>3, <1>5, <1>6, <1>7, PutShows
<1>9. screen' \in Screen
  BY <1>1, <1>6, PutcharType
<1>10. ShowsUpTo(screen', Prompt \o line', Len(Prompt) + Len(line'))
  BY <1>1, <1>2, <1>8 DEF text
<1> QED
  BY <1>1, <1>2, <1>9, <1>10 DEF IInv

LEMMA ExecuteStep == IInv /\ Execute => IInv'
<1> SUFFICES ASSUME IInv, Execute PROVE IInv'
  OBVIOUS
<1>1. screen' \in Screen
  <2>1. ASSUME NEW text \in Outputs, screen' = vga_write(screen, text)
        PROVE  screen' \in Screen
    BY <2>1, Texts, WriteType DEF IInv
  <2>2. CASE screen' = vga_clear
    BY <2>2, ClearType
  <2> QED
    BY <2>1, <2>2 DEF Execute
<1> QED
  BY <1>1 DEF IInv, Execute

(* No step but a backspace makes the line shorter while it is read. *)
LEMMA NextIInv ==
  ASSUME IInv, [Next]_vars
  PROVE  /\ IInv'
         /\ pc = "read" /\ pc' = "read" /\ Len(line') < Len(line) =>
              /\ Pos(screen') = Pos(screen) - 1
              /\ screen'.cell = [screen.cell EXCEPT ![Pos(screen')] = Blank]
<1>1. Len(line) \in Nat
  BY DEF IInv
<1>2. CASE ShowPrompt
  BY <1>2, ShowPromptStep DEF ShowPrompt
<1>3. CASE Enter
  BY <1>3, EnterStep DEF Enter
<1>4. CASE Backspace
  BY <1>4, BackspaceStep
<1>5. ASSUME NEW key \in Printable, Character(key)
      PROVE  IInv' /\ ~ (Len(line') < Len(line))
  BY <1>1, <1>5, CharacterStep
<1>6. ASSUME UNCHANGED vars PROVE IInv' /\ ~ (Len(line') < Len(line))
  BY <1>1, <1>6 DEF IInv, vars
<1>7. CASE Execute
  BY <1>7, ExecuteStep DEF Execute
<1> QED
  BY <1>2, <1>3, <1>4, <1>5, <1>6, <1>7 DEF Next, IgnoredKey

LEMMA IInvAlways == Spec => []IInv
<1>1. IInv /\ [Next]_vars => IInv'
  BY NextIInv
<1> QED
  BY <1>1, InitIInv, PTL DEF Spec

-----------------------------------------------------------------------------
(* Scans of a buffer *)

LEMMA MinOfNats ==
  ASSUME NEW S \in SUBSET Nat, S # {}
  PROVE  Min(S) \in S /\ \A y \in S : Min(S) <= y
<1> DEFINE LT == OpToRel(<, Nat)
<1>1. \E x \in S : \A y \in S : ~ (<<y, x>> \in LT)
  BY NatLessThanWellFounded, WFMin
<1>2. \A x, y \in S : y < x => <<y, x>> \in LT
  BY DEF OpToRel
<1> HIDE DEF LT
<1>3. PICK x \in S : \A y \in S : ~ (<<y, x>> \in LT)
  BY <1>1
<1>4. \A y \in S : ~ (y < x)
  BY <1>2, <1>3
<1>5. \A y \in S : x <= y
  BY <1>4
<1> QED
  BY <1>5 DEF Min

(* A scan that has something to stop at stops there at the latest. *)
LEMMA ScanStops ==
  ASSUME NEW mem, Len(mem) \in Nat, NEW i \in Nat, NEW skipped,
         NEW e \in i .. Len(mem), mem[e] \notin skipped
  PROVE  LET k == SkipWhile(mem, i, skipped) IN
         /\ k \in i .. e /\ mem[k] \notin skipped
         /\ \A j \in i .. k - 1 : mem[j] \in skipped
<1> DEFINE S == {j \in i .. Len(mem) : mem[j] \notin skipped}
           k == Min(S)
<1>1. S \in SUBSET Nat /\ e \in S
  OBVIOUS
<1>2. k \in S /\ \A y \in S : k <= y
  <2>1. S # {}
    BY <1>1
  <2> HIDE DEF S
  <2> QED
    BY <1>1, <2>1, MinOfNats
<1>3. SkipWhile(mem, i, skipped) = k
  BY DEF SkipWhile
<1> HIDE DEF k
<1>4. k \in i .. e /\ mem[k] \notin skipped
  BY <1>1, <1>2
<1>5. ASSUME NEW j \in i .. k - 1 PROVE mem[j] \in skipped
  BY <1>2, <1>4
<1> QED
  BY <1>3, <1>4, <1>5

LEMMA StringEnds ==
  ASSUME NEW mem, Len(mem) \in Nat, NEW i \in Nat,
         NEW e \in i .. Len(mem), mem[e] = NUL,
         \A j \in i .. e - 1 : mem[j] # NUL
  PROVE  String(mem, i) = SubSeq(mem, i, e - 1)
<1> DEFINE S == {j \in i .. Len(mem) : mem[j] = NUL}
           k == Min(S)
<1>1. S \in SUBSET Nat /\ e \in S
  OBVIOUS
<1>2. k \in S /\ \A y \in S : k <= y
  <2>1. S # {}
    BY <1>1
  <2> HIDE DEF S
  <2> QED
    BY <1>1, <2>1, MinOfNats
<1>3. k \in Nat /\ k <= e /\ k >= i /\ mem[k] = NUL
  BY <1>1, <1>2
<1>4. k = e
  <2> HIDE DEF k
  <2> QED
    BY <1>3
<1> QED
  BY <1>4 DEF String

(* y is the text p followed by the text q. *)
IsJoined(y, p, q) ==
  /\ y \in Seq(Printable) /\ Len(y) = Len(p) + Len(q)
  /\ \A i \in 1 .. Len(p) : y[i] = p[i]
  /\ \A i \in 1 .. Len(q) : y[Len(p) + i] = q[i]

LEMMA Joined ==
  ASSUME NEW p \in Seq(Printable), NEW q \in Seq(Printable)
  PROVE  IsJoined(p \o q, p, q)
BY DEF IsJoined

(* How a text is read, character by character. *)
LEMMA ReadsInParts ==
  ASSUME NEW s \in Seq(Printable), NEW first \in Seq(Printable),
         NEW rest \in Seq(Printable), NEW g \in Nat,
         Len(s) = Len(first) + g + Len(rest),
         \A k \in 1 .. Len(first) : s[k] = first[k] /\ first[k] # Space,
         \A k \in 1 .. g : s[Len(first) + k] = Space,
         \A k \in 1 .. Len(rest) : s[Len(first) + g + k] = rest[k],
         Len(rest) = 0 \/ (g > 0 /\ rest[1] # Space)
  PROVE  ReadsAs(s, first, rest)
<1> DEFINE gap == [k \in 1 .. g |-> Space]
           f == Len(first)
           r == Len(rest)
           z == first \o gap
<1>0. Space \in Printable
  BY ShellAssumption
<1>1. gap \in Seq(Printable) /\ Len(gap) = g /\ f \in Nat /\ Len(rest) \in Nat
  BY <1>0
<1>2. \A k \in 1 .. g : gap[k] = Space
  OBVIOUS
<1>3. Len(s) - Len(first) - Len(rest) = g
  OBVIOUS
<1> HIDE DEF gap
<1>4. /\ z \in Seq(Printable) /\ Len(z) = f + g
      /\ \A i \in 1 .. f : z[i] = first[i]
      /\ \A i \in 1 .. g : z[f + i] = Space
  <2>1. IsJoined(z, first, gap)
    BY <1>1, Joined
  <2> HIDE DEF z
  <2> QED
    BY <1>1, <1>2, <2>1 DEF IsJoined
<1> DEFINE y == z \o rest
<1> HIDE DEF z
<1>5. /\ y \in Seq(Printable) /\ Len(y) = f + g + r
      /\ \A i \in 1 .. f + g : y[i] = z[i]
      /\ \A i \in 1 .. r : y[f + g + i] = rest[i]
  <2>1. IsJoined(y, z, rest)
    BY <1>4, Joined
  <2> HIDE DEF y
  <2> QED
    BY <1>1, <1>4, <2>1 DEF IsJoined
<1>a. /\ f \in Nat /\ r \in Nat /\ Len(s) = f + g + r
      /\ \A k \in 1 .. f : s[k] = first[k] /\ first[k] # Space
      /\ \A k \in 1 .. g : s[f + k] = Space
      /\ \A k \in 1 .. r : s[f + g + k] = rest[k]
  BY <1>1
<1> HIDE DEF f, r, y
<1>6. ASSUME NEW i \in 1 .. f + g + r PROVE s[i] = y[i]
  <2>1. CASE i \in 1 .. f
    <3>1. i \in 1 .. f + g
      BY <1>a, <2>1
    <3> QED
      BY <1>4, <1>5, <1>a, <2>1, <3>1
  <2>2. CASE \E k \in 1 .. g : i = f + k
    <3>1. PICK k \in 1 .. g : i = f + k
      BY <2>2
    <3>2. i \in 1 .. f + g
      BY <1>a, <3>1
    <3> QED
      BY <1>4, <1>5, <1>a, <3>1, <3>2
  <2>3. CASE \E k \in 1 .. r : i = f + g + k
    <3>1. PICK k \in 1 .. r : i = f + g + k
      BY <2>3
    <3> QED
      BY <1>5, <1>a, <3>1
  <2>4. \/ i \in 1 .. f
        \/ i - f \in 1 .. g /\ i = f + (i - f)
        \/ i - (f + g) \in 1 .. r /\ i = f + g + (i - (f + g))
    <3>1. f \in Nat /\ g \in Nat /\ r \in Nat
      BY <1>a
    <3>2. CASE i <= f
      BY <3>1, <3>2
    <3>3. CASE f < i /\ i <= f + g
      BY <3>1, <3>3
    <3>4. CASE f + g < i
      BY <3>1, <3>4
    <3> QED
      BY <3>1, <3>2, <3>3, <3>4
  <2> QED
    BY <2>1, <2>2, <2>3, <2>4
<1>7. s = z \o rest
  <2>1. Len(s) = Len(y) /\ \A i \in 1 .. Len(s) : s[i] = y[i]
    BY <1>5, <1>6, <1>a
  <2> QED
    BY <1>5, <2>1, SeqEqual DEF y
<1>8. NoSpace(first)
  BY DEF NoSpace
<1>9. rest = <<>> \/ (g > 0 /\ Head(rest) # Space)
  OBVIOUS
<1>10. s = first \o [k \in 1 .. g |-> Space] \o rest
  BY <1>7, Zenon DEF z, gap
<1>11. g >= 0
  OBVIOUS
<1> QED
  BY <1>3, <1>8, <1>9, <1>10, <1>11, Zenon DEF ReadsAs

-----------------------------------------------------------------------------
(* The command *)

(* The line q stands in the buffer with its terminator. *)
Holds(mem, q) ==
  /\ q \in Seq(Printable) /\ mem \in Seq(Printable \cup {NUL})
  /\ Len(q) < Len(mem)
  /\ \A k \in 1 .. Len(q) : mem[k] = q[k]
  /\ mem[Len(q) + 1] = NUL

(* The word and the argument of a line. *)
WordAndRest(q, word, arg) ==
  /\ word # <<>>
  /\ \E lead \in 0 .. Len(q) :
       /\ AllSpaces(SubSeq(q, 1, lead))
       /\ ReadsAs(SubSeq(q, lead + 1, Len(q)), word, arg)

LEMMA Piece ==
  ASSUME NEW q \in Seq(Printable), NEW i \in Nat \ {0}, NEW e \in Nat,
         i <= e + 1, e <= Len(q)
  PROVE  /\ SubSeq(q, i, e) \in Seq(Printable)
         /\ Len(SubSeq(q, i, e)) = e - i + 1
         /\ \A k \in 1 .. e - i + 1 : SubSeq(q, i, e)[k] = q[i + k - 1]
<1>1. \A k \in i .. e : q[k] \in Printable
  OBVIOUS
<1> QED
  BY <1>1, SubSeqProperties

(* The row of the table that is run has the word's name; without one there *)
(* is no such row.                                                         *)
LEMMA RowOfWord ==
  ASSUME NEW word
  PROVE  LET rows == {k \in DOMAIN Commands : Commands[k] = word}
             run  == IF rows = {} THEN 0 ELSE Min(rows)
         IN  IF run = 0 THEN \A k \in DOMAIN Commands : Commands[k] # word
                        ELSE Commands[run] = word
<1> DEFINE rows == {k \in DOMAIN Commands : Commands[k] = word}
<1>1. DOMAIN Commands \subseteq Nat \ {0}
  BY ShellAssumption
<1>2. CASE rows = {}
  BY <1>2
<1>3. CASE rows # {}
  <2>1. rows \in SUBSET Nat
    BY <1>1
  <2>2. Min(rows) \in rows
    <3> HIDE DEF rows
    <3> QED
      BY <1>3, <2>1, MinOfNats
  <2>3. Min(rows) # 0 /\ Commands[Min(rows)] = word
    BY <1>1, <2>2
  <2> QED
    BY <1>3, <2>3
<1> QED
  BY <1>2, <1>3

(* A string of the buffer is a piece of the line. *)
LEMMA StringIn ==
  ASSUME NEW mem, Len(mem) \in Nat, NEW q \in Seq(Printable),
         NEW i \in Nat \ {0}, NEW e \in i .. Len(mem), e - 1 <= Len(q),
         mem[e] = NUL, \A j \in i .. e - 1 : mem[j] = q[j]
  PROVE  String(mem, i) = SubSeq(q, i, e - 1)
<1>1. \A j \in i .. e - 1 : q[j] \in Printable
  OBVIOUS
<1>2. NUL \notin Printable
  BY ShellAssumption
<1>3. String(mem, i) = SubSeq(mem, i, e - 1)
  BY <1>1, <1>2, StringEnds
<1> DEFINE x == SubSeq(mem, i, e - 1)
           y == SubSeq(q, i, e - 1)
<1>4. /\ x \in Seq(Printable)
      /\ Len(x) = IF i <= e - 1 THEN e - 1 - i + 1 ELSE 0
      /\ \A k \in 1 .. e - 1 - i + 1 : x[k] = mem[i + k - 1]
  BY <1>1, SubSeqProperties
<1>5. /\ y \in Seq(Printable)
      /\ Len(y) = IF i <= e - 1 THEN e - 1 - i + 1 ELSE 0
      /\ \A k \in 1 .. e - 1 - i + 1 : y[k] = q[i + k - 1]
  BY <1>1, SubSeqProperties
<1> HIDE DEF x, y
<1>6. ASSUME NEW k \in 1 .. Len(x) PROVE x[k] = y[k]
  <2>1. k \in 1 .. e - 1 - i + 1 /\ i + k - 1 \in i .. e - 1
    BY <1>4
  <2> QED
    BY <1>4, <1>5, <2>1
<1>7. x = y
  BY <1>4, <1>5, <1>6, SeqEqual
<1> QED
  BY <1>3, <1>7 DEF x, y

(* Spaces up to a, a word up to i, spaces up to b, and the rest. *)
LEMMA WordsOfLine ==
  ASSUME NEW q \in Seq(Printable), NEW a \in 1 .. Len(q),
         NEW i \in a + 1 .. Len(q) + 1, NEW b \in i .. Len(q) + 1,
         \A j \in 1 .. a - 1 : q[j] = Space,
         \A j \in a .. i - 1 : q[j] # Space,
         \A j \in i .. b - 1 : q[j] = Space,
         b <= Len(q) => i < b /\ q[b] # Space
  PROVE  /\ WordAndRest(q, SubSeq(q, a, i - 1), SubSeq(q, b, Len(q)))
         /\ SubSeq(q, b, Len(q)) \in Seq(Printable)
<1> DEFINE n == Len(q)
           lead == SubSeq(q, 1, a - 1)
           s    == SubSeq(q, a, n)
           word == SubSeq(q, a, i - 1)
           rest == SubSeq(q, b, n)
           g    == b - i
<1>1. /\ n \in Nat /\ a \in Nat /\ i \in Nat /\ b \in Nat
      /\ 1 <= a /\ a < i /\ i <= b /\ b <= n + 1
      /\ \A j \in 1 .. n : q[j] \in Printable
  OBVIOUS
<1>2. /\ lead \in Seq(Printable) /\ Len(lead) = a - 1
      /\ \A k \in 1 .. a - 1 : lead[k] = q[k]
  BY <1>1, Piece
<1>3. /\ s \in Seq(Printable) /\ Len(s) = n - a + 1
      /\ \A k \in 1 .. n - a + 1 : s[k] = q[a + k - 1]
  BY <1>1, Piece
<1>4. /\ word \in Seq(Printable) /\ Len(word) = i - a
      /\ \A k \in 1 .. i - a : word[k] = q[a + k - 1]
  BY <1>1, Piece
<1>5. /\ rest \in Seq(Printable) /\ Len(rest) = n - b + 1
      /\ \A k \in 1 .. n - b + 1 : rest[k] = q[b + k - 1]
  BY <1>1, Piece
<1> HIDE DEF n, lead, s, word, rest
<1>6. AllSpaces(lead)
  <2>1. \A k \in 1 .. a - 1 : lead[k] = Space
    BY <1>2
  <2> QED
    BY <1>2, <2>1 DEF AllSpaces
<1>7. ASSUME NEW k \in 1 .. Len(word) PROVE s[k] = word[k] /\ word[k] # Space
  <2>1. k \in 1 .. i - a /\ k \in 1 .. n - a + 1 /\ a + k - 1 \in a .. i - 1
    BY <1>1, <1>4
  <2> QED
    BY <1>3, <1>4, <2>1
<1>8. ASSUME NEW k \in 1 .. g PROVE s[Len(word) + k] = Space
  <2>1. /\ Len(word) + k \in 1 .. n - a + 1
        /\ a + (Len(word) + k) - 1 \in i .. b - 1
    BY <1>1, <1>4
  <2> QED
    BY <1>3, <2>1
<1>9. ASSUME NEW k \in 1 .. Len(rest) PROVE s[Len(word) + g + k] = rest[k]
  <2>1. /\ k \in 1 .. n - b + 1
        /\ Len(word) + g + k \in 1 .. n - a + 1
        /\ a + (Len(word) + g + k) - 1 = b + k - 1
    BY <1>1, <1>4, <1>5
  <2> QED
    BY <1>3, <1>5, <2>1
<1>10. Len(rest) = 0 \/ (g > 0 /\ rest[1] # Space)
  <2>1. CASE b <= n
    <3>1. 1 \in 1 .. n - b + 1 /\ b + 1 - 1 = b /\ g > 0 /\ q[b] # Space
      BY <1>1, <2>1 DEF n
    <3>2. rest[1] = q[b + 1 - 1]
      BY <1>5, <3>1
    <3> QED
      BY <3>1, <3>2
  <2>2. CASE ~(b <= n)
    BY <1>1, <1>5, <2>2
  <2> QED
    BY <2>1, <2>2
<1>11. g \in Nat /\ Len(s) = Len(word) + g + Len(rest)
  BY <1>1, <1>3, <1>4, <1>5
<1> HIDE DEF g
<1>12. ReadsAs(s, word, rest)
  BY <1>3, <1>4, <1>5, <1>7, <1>8, <1>9, <1>10, <1>11, ReadsInParts
<1>13. word # <<>>
  BY <1>1, <1>4
<1>14. a - 1 \in 0 .. n /\ (a - 1) + 1 = a
  BY <1>1
<1>15. /\ AllSpaces(SubSeq(q, 1, a - 1))
       /\ ReadsAs(SubSeq(q, (a - 1) + 1, n), word, rest)
  BY <1>6, <1>12, <1>14 DEF lead, s
<1> QED
  BY <1>5, <1>13, <1>14, <1>15 DEF WordAndRest, n, word, rest

(* The row that is run for a word: the row with its name, or none. *)
RunsRow(run, word) ==
  IF run = 0 THEN \A k \in DOMAIN Commands : Commands[k] # word
             ELSE Commands[run] = word

LEMMA ExecuteReads ==
  ASSUME NEW mem, NEW q, Holds(mem, q)
  PROVE  LET r == execute(mem) IN
         /\ r.arg \in Seq(Printable)
         /\ \/ AllSpaces(q) /\ r = NoCommand
            \/ WordAndRest(q, r.word, r.arg) /\ RunsRow(r.run, r.word)
<1> DEFINE n == Len(q)
           a == SkipWhile(mem, 1, {Space})
<1>1. /\ n \in Nat /\ Len(mem) \in Nat /\ n + 1 \in 1 .. Len(mem)
      /\ q \in Seq(Printable) /\ mem[n + 1] = NUL
      /\ \A k \in 1 .. n : mem[k] = q[k] /\ q[k] \in Printable
      /\ mem \in Seq(Printable \cup {NUL})
  BY DEF Holds
<1>2. Space \in Printable /\ NUL \notin Printable /\ NUL # Space
  BY ShellAssumption
<1>3. /\ a \in 1 .. n + 1 /\ mem[a] # Space
      /\ \A j \in 1 .. a - 1 : mem[j] = Space
  <2>1. mem[n + 1] \notin {Space}
    BY <1>1, <1>2
  <2>2. /\ a \in 1 .. n + 1 /\ mem[a] \notin {Space}
        /\ \A j \in 1 .. a - 1 : mem[j] \in {Space}
    BY <1>1, <2>1, ScanStops
  <2> QED
    BY <2>2
<1> HIDE DEF n, a
<1>4. CASE a = n + 1
  <2>1. execute(mem) = NoCommand
    BY <1>1, <1>4 DEF execute, a
  <2>2. \A j \in 1 .. n : q[j] = Space
    BY <1>1, <1>3, <1>4
  <2>3. AllSpaces(q)
    BY <1>1, <2>2 DEF AllSpaces, n
  <2> QED
    BY <2>1, <2>3 DEF NoCommand
<1>5. CASE a # n + 1
  <2> DEFINE i == SkipWhile(mem, a, Printable \ {Space})
             s == split(mem, a)
  <2>1. a \in 1 .. n /\ a \in Nat /\ mem[a] \in Printable \ {Space}
        /\ n + 1 \in a .. Len(mem)
    BY <1>1, <1>3, <1>5
  <2>2. /\ i \in a .. n + 1 /\ mem[i] \notin Printable \ {Space}
        /\ \A j \in a .. i - 1 : mem[j] \in Printable \ {Space}
    <3>1. mem[n + 1] \notin Printable \ {Space}
      BY <1>1, <1>2
    <3> QED
      BY <1>1, <2>1, <3>1, ScanStops
  <2> HIDE DEF i
  <2>3. /\ i \in a + 1 .. n + 1
        /\ \A j \in a .. i - 1 : q[j] # Space
        /\ i <= n => mem[i] = Space
        /\ \A j \in 1 .. a - 1 : q[j] = Space
    BY <1>1, <1>3, <2>1, <2>2
  <2> DEFINE cut == [mem EXCEPT ![i] = NUL]
             b == IF i = n + 1 THEN i ELSE SkipWhile(cut, i + 1, {Space})
             m == IF i = n + 1 THEN mem ELSE cut
  <2>4. s = [mem |-> m, arg |-> b]
    <3>1. mem[i] = NUL <=> i = n + 1
      BY <1>1, <1>2, <2>1, <2>3
    <3> QED
      BY <3>1 DEF split, i
  <2>5. /\ Len(cut) = Len(mem) /\ cut[i] = NUL
        /\ \A j \in 1 .. Len(mem) : j # i => cut[j] = mem[j]
    BY <1>1, <2>1, <2>3
  <2> HIDE DEF cut
  <2>6. /\ b \in i .. n + 1
        /\ \A j \in i .. b - 1 : q[j] = Space
        /\ b <= n => i < b /\ q[b] # Space
    <3>1. CASE i = n + 1
      BY <1>1, <3>1
    <3>2. CASE i # n + 1
      <4>1. i + 1 \in Nat /\ n + 1 \in i + 1 .. Len(cut) /\ i \in 1 .. n
        <5>1. i \in Nat /\ a \in Nat /\ i >= 1 /\ i <= n
          BY <1>1, <2>1, <2>3, <3>2
        <5> QED
          BY <1>1, <2>5, <5>1
      <4>2. cut[n + 1] \notin {Space}
        BY <1>1, <1>2, <2>5, <4>1
      <4>3. /\ b \in i + 1 .. n + 1 /\ cut[b] \notin {Space}
            /\ \A j \in i + 1 .. b - 1 : cut[j] \in {Space}
        BY <1>1, <2>5, <3>2, <4>1, <4>2, ScanStops
      <4> HIDE DEF b
      <4>4. q[i] = Space
        BY <1>1, <2>3, <4>1
      <4>5. ASSUME NEW j \in i .. b - 1 PROVE q[j] = Space
        <5>1. CASE j = i
          BY <4>4, <5>1
        <5>2. CASE j # i
          <6>1. j \in i + 1 .. b - 1 /\ j \in 1 .. n /\ j \in 1 .. Len(mem)
            BY <1>1, <4>1, <4>3, <5>2
          <6> QED
            BY <1>1, <2>5, <4>3, <5>2, <6>1
        <5> QED
          BY <5>1, <5>2
      <4>6. ASSUME b <= n PROVE i < b /\ q[b] # Space
        <5>1. b \in 1 .. n /\ b \in 1 .. Len(mem) /\ b # i /\ i < b
          BY <1>1, <4>1, <4>3, <4>6
        <5> QED
          BY <1>1, <2>5, <4>3, <5>1
      <4>7. b \in i .. n + 1
        BY <1>1, <4>1, <4>3
      <4> QED
        BY <4>5, <4>6, <4>7
    <3> QED
      BY <3>1, <3>2
  <2>7. /\ Len(m) = Len(mem) /\ m[i] = NUL /\ m[n + 1] = NUL
        /\ \A j \in 1 .. n : j # i => m[j] = q[j]
    <3>1. CASE i = n + 1
      BY <1>1, <3>1
    <3>2. CASE i # n + 1
      BY <1>1, <2>5, <3>2
    <3> QED
      BY <3>1, <3>2
  <2>8. b = i => b = n + 1
    BY <1>1, <2>1, <2>3, <2>6
  <2> HIDE DEF b, m
  <2>9. String(m, a) = SubSeq(q, a, i - 1)
    <3>1. /\ a \in Nat \ {0} /\ i \in a .. Len(m) /\ i - 1 <= Len(q)
          /\ \A j \in a .. i - 1 : m[j] = q[j]
      BY <1>1, <2>1, <2>3, <2>7 DEF n
    <3> QED
      BY <1>1, <2>7, <3>1, StringIn
  <2>10. String(m, b) = SubSeq(q, b, n)
    <3>1. /\ b \in Nat \ {0} /\ n + 1 \in b .. Len(m) /\ (n + 1) - 1 <= Len(q)
          /\ \A j \in b .. (n + 1) - 1 : m[j] = q[j]
      BY <1>1, <2>1, <2>3, <2>6, <2>7, <2>8 DEF n
    <3>2. String(m, b) = SubSeq(q, b, (n + 1) - 1)
      BY <1>1, <2>7, <3>1, StringIn
    <3>3. (n + 1) - 1 = n
      BY <1>1
    <3> QED
      BY <3>2, <3>3
  <2> DEFINE word == SubSeq(q, a, i - 1)
             arg  == SubSeq(q, b, n)
             rows == {k \in DOMAIN Commands : Commands[k] = word}
             run  == IF rows = {} THEN 0 ELSE Min(rows)
  <2>11. execute(mem) = [word |-> word, run |-> run, arg |-> arg]
    <3>1. mem[a] # NUL
      BY <1>2, <2>1
    <3>2. s.mem = m /\ s.arg = b
      BY <2>4
    <3> HIDE DEF s
    <3>3. execute(mem) =
            [word |-> String(s.mem, a),
             run  |-> LET z == {k \in DOMAIN Commands :
                                  Commands[k] = String(s.mem, a)}
                      IN  IF z = {} THEN 0 ELSE Min(z),
             arg  |-> String(s.mem, s.arg)]
      BY <3>1, Zenon DEF execute, a, s
    <3> QED
      BY <2>9, <2>10, <3>2, <3>3, Zenon
  <2>12. RunsRow(run, word)
    BY RowOfWord DEF RunsRow
  <2> HIDE DEF run
  <2>13. WordAndRest(q, word, arg) /\ arg \in Seq(Printable)
    BY <1>1, <2>1, <2>3, <2>6, WordsOfLine DEF n
  <2> HIDE DEF word, arg
  <2> QED
    BY <2>11, <2>12, <2>13
<1> QED
  BY <1>4, <1>5

-----------------------------------------------------------------------------
(* The name and the text of write and append *)

LEMMA WriteCommonReads ==
  ASSUME NEW arg \in Seq(Printable)
  PROVE  LET w == write_common(arg) IN
         /\ Len(w.name) < FISH_NAME_MAX
         /\ \/ ReadsAs(arg, w.name, w.text)
            \/ /\ Len(w.name) = FISH_NAME_MAX - 1 /\ NoSpace(w.name)
               /\ arg = w.name \o w.text /\ Head(w.text) # Space
<1> DEFINE n == Len(arg)
           F == FISH_NAME_MAX
           K == {k - 1 : k \in {j \in DOMAIN arg : arg[j] = Space}}
           I == {F - 1, n} \cup K
           i == Min(I)
           T == {k \in i + 1 .. n : arg[k] # Space} \cup {n + 1}
           t == Min(T)
           name == SubSeq(arg, 1, i)
           text == SubSeq(arg, t, n)
<1>1. /\ n \in Nat /\ DOMAIN arg = 1 .. n /\ F \in Nat /\ F >= 1
      /\ \A j \in 1 .. n : arg[j] \in Printable
  BY ShellAssumption
<1>2. write_common(arg) = [name |-> name, text |-> text]
  BY DEF write_common
<1> HIDE DEF n, F
<1>3. I \in SUBSET Nat /\ F - 1 \in I /\ n \in I
      /\ \A j \in 1 .. n : arg[j] = Space => j - 1 \in I
  BY <1>1
<1>stops. \A x \in I : \/ x = F - 1 \/ x = n
                   \/ \E j \in 1 .. n : arg[j] = Space /\ x = j - 1
  BY <1>1
<1> HIDE DEF I
<1>4. i \in I /\ \A y \in I : i <= y
  BY <1>3, MinOfNats
<1> HIDE DEF i
<1>5. i \in Nat /\ i <= F - 1 /\ i <= n
  BY <1>3, <1>4
<1>6. ASSUME NEW j \in 1 .. i PROVE arg[j] # Space
  BY <1>1, <1>3, <1>4, <1>5
<1>7. T \in SUBSET Nat /\ n + 1 \in T /\ T # {}
  BY <1>1, <1>5
<1>8. t \in T /\ \A y \in T : t <= y
  <2> HIDE DEF T
  <2> QED
    BY <1>7, MinOfNats
<1> HIDE DEF t
<1>9. /\ t \in i + 1 .. n + 1 /\ t \in Nat
      /\ t <= n => arg[t] # Space
  BY <1>1, <1>5, <1>8
<1>10. ASSUME NEW j \in i + 1 .. t - 1 PROVE arg[j] = Space
  <2>1. j \in i + 1 .. n /\ ~(t <= j)
    BY <1>1, <1>5, <1>9
  <2> QED
    BY <1>8, <2>1
<1> HIDE DEF T
<1>11. /\ name \in Seq(Printable) /\ Len(name) = i
       /\ \A k \in 1 .. i : name[k] = arg[k]
  <2>1. /\ name \in Seq(Printable) /\ Len(name) = i - 1 + 1
        /\ \A k \in 1 .. i - 1 + 1 : name[k] = arg[1 + k - 1]
    BY <1>5, Piece DEF n
  <2> HIDE DEF name
  <2> QED
    BY <1>5, <2>1
<1>12. /\ text \in Seq(Printable) /\ Len(text) = n - t + 1
       /\ \A k \in 1 .. n - t + 1 : text[k] = arg[t + k - 1]
  BY <1>1, <1>5, <1>9, Piece DEF n
<1> HIDE DEF name, text
<1>13. Len(name) < F
  BY <1>1, <1>5, <1>11
<1>14. NoSpace(name)
  BY <1>6, <1>11 DEF NoSpace
<1>15. CASE t = i + 1 /\ t <= n
  <2>1. i = F - 1
    <3>1. arg[i + 1] # Space /\ i # n
      BY <1>1, <1>5, <1>9, <1>15
    <3>2. ~ \E j \in 1 .. n : arg[j] = Space /\ i = j - 1
      <4> SUFFICES ASSUME NEW j \in 1 .. n, arg[j] = Space, i = j - 1
                   PROVE  FALSE
        OBVIOUS
      <4>1. j = i + 1
        BY <1>1, <1>5
      <4> QED
        BY <3>1, <4>1, Zenon
    <3>3. \/ i = F - 1 \/ i = n
          \/ \E j \in 1 .. n : arg[j] = Space /\ i = j - 1
      <4>1. i \in I
        BY <1>4
      <4> QED
        BY <1>stops, <4>1, Zenon
    <3> QED
      BY <3>1, <3>2, <3>3, Zenon
  <2> DEFINE y == name \o text
  <2>2. IsJoined(y, name, text)
    BY <1>11, <1>12, Joined
  <2> HIDE DEF y
  <2>3. Len(y) = n /\ y \in Seq(Printable)
    BY <1>1, <1>5, <1>11, <1>12, <1>15, <2>2 DEF IsJoined
  <2>4. ASSUME NEW k \in 1 .. n PROVE arg[k] = y[k]
    <3>1. CASE k <= i
      <4>1. k \in 1 .. i
        BY <3>1
      <4> QED
        BY <1>11, <2>2, <4>1 DEF IsJoined
    <3>2. CASE ~(k <= i)
      <4>1. k - i \in 1 .. n - t + 1 /\ k = i + (k - i) /\ t + (k - i) - 1 = k
        BY <1>1, <1>5, <1>15, <3>2
      <4>2. text[k - i] = arg[t + (k - i) - 1]
        BY <1>12, <4>1
      <4>3. y[i + (k - i)] = text[k - i]
        BY <1>11, <1>12, <2>2, <4>1 DEF IsJoined
      <4> QED
        BY <4>1, <4>2, <4>3
    <3> QED
      BY <3>1, <3>2
  <2>5. arg = y
    BY <2>3, <2>4, SeqEqual DEF n
  <2>6. Head(text) # Space
    <3>1. 1 \in 1 .. n - t + 1 /\ t + 1 - 1 = t
      BY <1>1, <1>9, <1>15
    <3>2. text[1] = arg[t]
      BY <1>12, <3>1
    <3> QED
      BY <1>9, <1>12, <1>15, <3>2
  <2>7. Len(name) = F - 1
    BY <1>11, <2>1
  <2> QED
    BY <1>2, <1>13, <1>14, <2>5, <2>6, <2>7 DEF F, y
<1>16. CASE ~(t = i + 1 /\ t <= n)
  <2> DEFINE g == t - i - 1
  <2>1. g \in Nat /\ Len(arg) = Len(name) + g + Len(text)
    BY <1>1, <1>5, <1>9, <1>11, <1>12 DEF n
  <2>2. ASSUME NEW k \in 1 .. Len(name)
        PROVE  arg[k] = name[k] /\ name[k] # Space
    BY <1>6, <1>11
  <2>3. ASSUME NEW k \in 1 .. g PROVE arg[Len(name) + k] = Space
    BY <1>5, <1>9, <1>10, <1>11
  <2>4. ASSUME NEW k \in 1 .. Len(text) PROVE arg[Len(name) + g + k] = text[k]
    <3>1. k \in 1 .. n - t + 1 /\ Len(name) + g + k = t + k - 1
      BY <1>1, <1>5, <1>9, <1>11, <1>12
    <3> QED
      BY <1>12, <3>1
  <2>5. Len(text) = 0 \/ (g > 0 /\ text[1] # Space)
    <3>1. CASE t <= n
      <4>1. 1 \in 1 .. n - t + 1 /\ t + 1 - 1 = t /\ g > 0
        BY <1>1, <1>5, <1>9, <1>16, <3>1
      <4>2. text[1] = arg[t]
        BY <1>12, <4>1
      <4> QED
        BY <1>9, <3>1, <4>1, <4>2
    <3>2. CASE ~(t <= n)
      BY <1>1, <1>9, <1>12, <3>2
    <3> QED
      BY <3>1, <3>2
  <2> HIDE DEF g
  <2>6. ReadsAs(arg, name, text)
    BY <1>11, <1>12, <2>1, <2>2, <2>3, <2>4, <2>5, ReadsInParts
  <2> QED
    BY <1>2, <1>13, <2>6 DEF F
<1> QED
  BY <1>15, <1>16

(* The buffer holds the line, whatever is left over behind it. *)
LEMMA BufferHolds ==
  ASSUME IInv, NEW old \in Printable \cup {NUL}
  PROVE  Holds(Buffer(old), line)
<1>1. /\ line \in Seq(Printable) /\ Len(line) \in Nat
      /\ Len(line) <= LINE_MAX - 1 /\ LINE_MAX \in Nat
  BY Texts DEF IInv
<1> DEFINE m == Buffer(old)
<1>2. /\ m \in [1 .. LINE_MAX -> Printable \cup {NUL}]
      /\ \A k \in 1 .. Len(line) : m[k] = line[k]
      /\ m[Len(line) + 1] = NUL
  BY <1>1 DEF Buffer
<1> HIDE DEF m
<1>3. m \in Seq(Printable \cup {NUL}) /\ Len(m) = LINE_MAX
  BY <1>1, <1>2
<1> QED
  BY <1>1, <1>2, <1>3 DEF Holds, m

-----------------------------------------------------------------------------
(* Numbers *)

(* Sets of positions have a last one. *)
LEMMA MaxOfPositions ==
  ASSUME NEW m \in Nat, NEW S \in SUBSET (1 .. m), S # {}
  PROVE  Max(S) \in S
<1> DEFINE T == {m - x : x \in S}
<1>0. \A x \in S : m - x \in Nat
  OBVIOUS
<1>1. T \in SUBSET Nat /\ T # {}
  BY <1>0
<1>2. Min(T) \in T /\ \A y \in T : Min(T) <= y
  BY <1>1, MinOfNats
<1>3. PICK x \in S : Min(T) = m - x
  BY <1>2
<1>4. \A y \in S : m - x <= m - y
  BY <1>2, <1>3
<1>5. \A y \in S : x >= y
  <2> SUFFICES ASSUME NEW y \in S PROVE x >= y
    OBVIOUS
  <2>1. x \in Nat /\ y \in Nat /\ m - x <= m - y
    BY <1>4
  <2> QED
    BY <2>1
<1> QED
  BY <1>5 DEF Max

(* A fold over a sequence as a function of the positions used so far.  The *)
(* step is the function g, v replaced by g[v][c] for the element c.        *)
IsFold(f, V, base, seq, g) ==
  /\ f \in [SUBSET DOMAIN seq -> V]
  /\ \A I \in SUBSET DOMAIN seq :
       f[I] = IF I = {} THEN base ELSE g[f[I \ {Max(I)}]][seq[Max(I)]]

(* There is one for every sequence: position by position, up to its end.   *)
LEMMA FoldExists ==
  ASSUME NEW V, NEW C, NEW base \in V, NEW seq \in Seq(C),
         NEW g \in [V -> [C -> V]]
  PROVE  \E f : IsFold(f, V, base, seq, g)
<1> DEFINE n == Len(seq)
           D(m) == SUBSET (1 .. m)
           Upto(f, I) ==
             IF I = {} THEN base ELSE g[f[I \ {Max(I)}]][seq[Max(I)]]
           Ok(m) == \E f \in [D(m) -> V] : \A I \in D(m) : f[I] = Upto(f, I)
           P == {m \in Nat : m <= n => Ok(m)}
<1>1. Ok(0)
  <2> DEFINE f == [I \in D(0) |-> base]
  <2>1. D(0) = {{}}
    BY SMT
  <2>2. f \in [D(0) -> V] /\ \A I \in D(0) : f[I] = Upto(f, I)
    BY <2>1
  <2> QED
    BY <2>2
<1>2. ASSUME NEW m \in Nat, m + 1 <= n, Ok(m)
      PROVE  Ok(m + 1)
  <2>1. PICK h \in [D(m) -> V] : \A I \in D(m) : h[I] = Upto(h, I)
    BY <1>2
  <2> DEFINE f == [I \in D(m + 1) |->
                     IF m + 1 \in I THEN g[h[I \ {m + 1}]][seq[m + 1]]
                                    ELSE h[I]]
  <2>2. \A I \in D(m + 1) : I \ {m + 1} \in D(m)
    OBVIOUS
  <2>3. seq[m + 1] \in C
    <3>1. m + 1 \in 1 .. Len(seq)
      BY <1>2
    <3> QED
      BY <3>1
  <2>4. f \in [D(m + 1) -> V]
    <3> SUFFICES ASSUME NEW I \in D(m + 1) PROVE f[I] \in V
      OBVIOUS
    <3>1. CASE m + 1 \in I
      <4>1. h[I \ {m + 1}] \in V
        BY <2>2
      <4>2. g[h[I \ {m + 1}]] \in [C -> V]
        BY <4>1
      <4> QED
        BY <2>3, <3>1, <4>2
    <3>2. CASE m + 1 \notin I
      <4>1. I \in D(m)
        <5>1. I \ {m + 1} = I
          BY <3>2
        <5> QED
          BY <2>2, <5>1
      <4> QED
        BY <3>2, <4>1
    <3> QED
      BY <3>1, <3>2
  <2>5. ASSUME NEW I \in D(m + 1) PROVE f[I] = Upto(f, I)
    <3>1. CASE m + 1 \in I
      <4>1. Max(I) = m + 1
        BY <3>1, MaxOfNext
      <4>2. I \ {m + 1} \in D(m + 1) /\ m + 1 \notin I \ {m + 1}
        BY <2>2
      <4>3. f[I \ {m + 1}] = h[I \ {m + 1}]
        BY <4>2
      <4>4. f[I] = g[h[I \ {m + 1}]][seq[m + 1]]
        BY <3>1
      <4> HIDE DEF f
      <4> QED
        BY <3>1, <4>1, <4>3, <4>4
    <3>2. CASE m + 1 \notin I
      <4>1. I \in D(m) /\ I \in SUBSET (1 .. m)
        BY <3>2
      <4>2. h[I] = Upto(h, I)
        BY <2>1, <4>1
      <4>3. f[I] = h[I]
        BY <3>2
      <4>4. I # {} => f[I \ {Max(I)}] = h[I \ {Max(I)}]
        <5>1. I \ {Max(I)} \in D(m + 1) /\ m + 1 \notin I \ {Max(I)}
          BY <3>2
        <5> QED
          BY <5>1
      <4> HIDE DEF f
      <4> QED
        BY <4>2, <4>3, <4>4
    <3> QED
      BY <3>1, <3>2
  <2> HIDE DEF f, Upto
  <2> QED
    BY <2>4, <2>5
<1>3. n \in Nat /\ DOMAIN seq = 1 .. n
  OBVIOUS
<1> HIDE DEF Ok, n
<1>4. n \in P
  <2>1. 0 \in P /\ \A m \in Nat : m \in P => m + 1 \in P
    BY <1>1, <1>2, <1>3
  <2> HIDE DEF P
  <2> QED
    BY <1>3, <2>1, SetInduction
<1>5. Ok(n)
  BY <1>3, <1>4
<1> QED
  BY <1>3, <1>5 DEF Ok, IsFold

(* d[k] is the value of the first k digits of arg. *)
IsValue(d, arg) ==
  /\ d \in [0 .. Len(arg) -> Nat] /\ d[0] = 0
  /\ \A k \in 0 .. Len(arg) - 1 : d[k + 1] = d[k] * 10 + arg[k + 1]

(* The same when every step is taken modulo WORD. *)
IsWrapped(d, arg) ==
  /\ d \in [0 .. Len(arg) -> Nat] /\ d[0] = 0
  /\ \A k \in 0 .. Len(arg) - 1 : d[k + 1] = (d[k] * 10 + arg[k + 1]) % WORD

(* The number the user typed, digit by digit. *)
LEMMA DecimalByDigit ==
  ASSUME NEW arg \in Seq(Digit)
  PROVE  \E d : IsValue(d, arg) /\ Decimal(arg) = d[Len(arg)]
<1> DEFINE l == Len(arg)
           g == [v \in Nat |-> [c \in Digit |-> v * 10 + c]]
           p == CHOOSE f : f = [I \in SUBSET DOMAIN arg |->
                  IF I = {} THEN 0 ELSE f[I \ {Max(I)}] * 10 + arg[Max(I)]]
           d == [k \in 0 .. l |-> p[1 .. k]]
<1>1. l \in Nat /\ DOMAIN arg = 1 .. l /\ \A k \in 1 .. l : arg[k] \in Digit
  OBVIOUS
<1>2. g \in [Nat -> [Digit -> Nat]]
  BY DEF Digit
<1>3. PICK f : IsFold(f, Nat, 0, arg, g)
  <2> HIDE DEF g
  <2> QED
    BY <1>2, FoldExists
<1>4. f = [I \in SUBSET DOMAIN arg |->
             IF I = {} THEN 0 ELSE f[I \ {Max(I)}] * 10 + arg[Max(I)]]
  <2>1. f \in [SUBSET DOMAIN arg -> Nat]
    BY <1>3 DEF IsFold
  <2>2. ASSUME NEW I \in SUBSET DOMAIN arg, I # {}
        PROVE  f[I] = f[I \ {Max(I)}] * 10 + arg[Max(I)]
    <3>1. Max(I) \in 1 .. l
      BY <1>1, <2>2, MaxOfPositions
    <3>2. f[I \ {Max(I)}] \in Nat /\ arg[Max(I)] \in Digit
      BY <1>1, <2>1, <3>1
    <3>3. f[I] = g[f[I \ {Max(I)}]][arg[Max(I)]]
      BY <1>3, <2>2 DEF IsFold
    <3> QED
      BY <3>2, <3>3
  <2>3. f[{}] = 0
    BY <1>3 DEF IsFold
  <2> QED
    BY <2>1, <2>2, <2>3
<1>5. p = [I \in SUBSET DOMAIN arg |->
             IF I = {} THEN 0 ELSE p[I \ {Max(I)}] * 10 + arg[Max(I)]]
  BY <1>4
<1>6. Decimal(arg) = p[DOMAIN arg]
  BY DEF Decimal, FoldLeft, MapThenFoldSet
<1> HIDE DEF p, l
<1>7. p[1 .. 0] = 0
  <2>1. 1 .. 0 = {} /\ {} \in SUBSET DOMAIN arg
    OBVIOUS
  <2> QED
    BY <1>5, <2>1
<1>8. ASSUME NEW k \in Nat, k < l
      PROVE  p[1 .. k + 1] = p[1 .. k] * 10 + arg[k + 1]
  <2> DEFINE I == 1 .. k + 1
  <2>1. k + 1 \in I /\ I \ {k + 1} = 1 .. k /\ I \in SUBSET (1 .. k + 1)
    <3>1. \A x : x \in I \ {k + 1} <=> x \in 1 .. k
      OBVIOUS
    <3>2. k + 1 \in I /\ I \in SUBSET (1 .. k + 1)
      OBVIOUS
    <3> HIDE DEF I
    <3> QED
      BY <3>1, <3>2
  <2>2. I \in SUBSET DOMAIN arg
    BY <1>1, <1>8
  <2> HIDE DEF I
  <2>3. Max(I) = k + 1
    BY <2>1, MaxOfNext
  <2>4. p[I] = p[I \ {Max(I)}] * 10 + arg[Max(I)]
    BY <1>5, <2>1, <2>2
  <2> QED
    BY <2>1, <2>3, <2>4 DEF I
<1>9. ASSUME NEW k \in 0 .. l PROVE p[1 .. k] \in Nat
  <2> DEFINE P == {j \in Nat : j <= l => p[1 .. j] \in Nat}
  <2>1. 0 \in P
    BY <1>7
  <2>2. ASSUME NEW j \in Nat, j \in P PROVE j + 1 \in P
    <3> SUFFICES ASSUME j + 1 <= l PROVE p[1 .. j + 1] \in Nat
      OBVIOUS
    <3>1. j < l /\ p[1 .. j] \in Nat /\ j + 1 \in 1 .. l
      BY <1>1, <2>2
    <3>2. arg[j + 1] \in Nat
      BY <1>1, <3>1 DEF Digit
    <3> QED
      BY <1>8, <3>1, <3>2
  <2>3. k \in P
    <3> HIDE DEF P
    <3> QED
      BY <1>1, <2>1, <2>2, SetInduction
  <2> QED
    BY <1>1, <2>3
<1>10. d \in [0 .. l -> Nat] /\ d[0] = 0
  BY <1>1, <1>7, <1>9
<1>11. ASSUME NEW k \in 0 .. l - 1 PROVE d[k + 1] = d[k] * 10 + arg[k + 1]
  <2>1. k \in Nat /\ k < l /\ k \in 0 .. l /\ k + 1 \in 0 .. l
    BY <1>1
  <2> QED
    BY <1>8, <2>1
<1>12. d[l] = Decimal(arg)
  BY <1>1, <1>6
<1> HIDE DEF d
<1> QED
  BY <1>10, <1>11, <1>12 DEF IsValue, l

(* What the loop makes of it, digit by digit. *)
LEMMA NumberByDigit ==
  ASSUME NEW arg \in Seq(Digit)
  PROVE  \E d : IsWrapped(d, arg) /\ Number(arg) = d[Len(arg)]
<1> DEFINE l == Len(arg)
           g == [v \in Nat |-> [c \in Digit |-> (v * 10 + c) % WORD]]
           p == CHOOSE f : f = [I \in SUBSET DOMAIN arg |->
                  IF I = {} THEN 0
                  ELSE (f[I \ {Max(I)}] * 10 + arg[Max(I)]) % WORD]
           d == [k \in 0 .. l |-> p[1 .. k]]
<1>1. l \in Nat /\ DOMAIN arg = 1 .. l /\ \A k \in 1 .. l : arg[k] \in Digit
  OBVIOUS
<1>1a. \A x \in Nat : x % WORD \in Nat
  BY ShellAssumption
<1>2. g \in [Nat -> [Digit -> Nat]]
  <2>1. \A v \in Nat, c \in Digit : v * 10 + c \in Nat
    BY DEF Digit
  <2> QED
    BY <1>1a, <2>1
<1>3. PICK f : IsFold(f, Nat, 0, arg, g)
  <2> HIDE DEF g
  <2> QED
    BY <1>2, FoldExists
<1>4. f = [I \in SUBSET DOMAIN arg |->
             IF I = {} THEN 0
             ELSE (f[I \ {Max(I)}] * 10 + arg[Max(I)]) % WORD]
  <2>1. f \in [SUBSET DOMAIN arg -> Nat]
    BY <1>3 DEF IsFold
  <2>2. ASSUME NEW I \in SUBSET DOMAIN arg, I # {}
        PROVE  f[I] = (f[I \ {Max(I)}] * 10 + arg[Max(I)]) % WORD
    <3>1. Max(I) \in 1 .. l
      BY <1>1, <2>2, MaxOfPositions
    <3>2. f[I \ {Max(I)}] \in Nat /\ arg[Max(I)] \in Digit
      BY <1>1, <2>1, <3>1
    <3>3. f[I] = g[f[I \ {Max(I)}]][arg[Max(I)]]
      BY <1>3, <2>2 DEF IsFold
    <3> QED
      BY <3>2, <3>3
  <2>3. f[{}] = 0
    BY <1>3 DEF IsFold
  <2> QED
    BY <2>1, <2>2, <2>3
<1>5. p = [I \in SUBSET DOMAIN arg |->
             IF I = {} THEN 0
             ELSE (p[I \ {Max(I)}] * 10 + arg[Max(I)]) % WORD]
  BY <1>4
<1>6. Number(arg) = p[DOMAIN arg]
  BY DEF Number, FoldLeft, MapThenFoldSet
<1> HIDE DEF p, l
<1>7. p[1 .. 0] = 0
  <2>1. 1 .. 0 = {} /\ {} \in SUBSET DOMAIN arg
    OBVIOUS
  <2> QED
    BY <1>5, <2>1
<1>8. ASSUME NEW k \in Nat, k < l
      PROVE  p[1 .. k + 1] = (p[1 .. k] * 10 + arg[k + 1]) % WORD
  <2> DEFINE I == 1 .. k + 1
  <2>1. k + 1 \in I /\ I \ {k + 1} = 1 .. k /\ I \in SUBSET (1 .. k + 1)
    <3>1. \A x : x \in I \ {k + 1} <=> x \in 1 .. k
      OBVIOUS
    <3>2. k + 1 \in I /\ I \in SUBSET (1 .. k + 1)
      OBVIOUS
    <3> HIDE DEF I
    <3> QED
      BY <3>1, <3>2
  <2>2. I \in SUBSET DOMAIN arg
    BY <1>1, <1>8
  <2> HIDE DEF I
  <2>3. Max(I) = k + 1
    BY <2>1, MaxOfNext
  <2>4. p[I] = (p[I \ {Max(I)}] * 10 + arg[Max(I)]) % WORD
    BY <1>5, <2>1, <2>2
  <2> QED
    BY <2>1, <2>3, <2>4 DEF I
<1>9. ASSUME NEW k \in 0 .. l PROVE p[1 .. k] \in Nat
  <2> DEFINE P == {j \in Nat : j <= l => p[1 .. j] \in Nat}
  <2>1. 0 \in P
    BY <1>7
  <2>2. ASSUME NEW j \in Nat, j \in P PROVE j + 1 \in P
    <3> SUFFICES ASSUME j + 1 <= l PROVE p[1 .. j + 1] \in Nat
      OBVIOUS
    <3>1. j < l /\ p[1 .. j] \in Nat /\ j + 1 \in 1 .. l
      BY <1>1, <2>2
    <3>2a. arg[j + 1] \in Nat
      BY <1>1, <3>1 DEF Digit
    <3>2. p[1 .. j] * 10 + arg[j + 1] \in Nat
      BY <3>1, <3>2a
    <3>3. (p[1 .. j] * 10 + arg[j + 1]) % WORD \in Nat
      BY <1>1a, <3>2
    <3> QED
      BY <1>8, <3>1, <3>3
  <2>3. k \in P
    <3> HIDE DEF P
    <3> QED
      BY <1>1, <2>1, <2>2, SetInduction
  <2> QED
    BY <1>1, <2>3
<1>10. d \in [0 .. l -> Nat] /\ d[0] = 0
  BY <1>1, <1>7, <1>9
<1>11. ASSUME NEW k \in 0 .. l - 1
       PROVE  d[k + 1] = (d[k] * 10 + arg[k + 1]) % WORD
  <2>1. k \in Nat /\ k < l /\ k \in 0 .. l /\ k + 1 \in 0 .. l
    BY <1>1
  <2> QED
    BY <1>8, <2>1
<1>12. d[l] = Number(arg)
  BY <1>1, <1>6
<1> HIDE DEF d
<1> QED
  BY <1>10, <1>11, <1>12 DEF IsWrapped, l

(* Every digit makes the number larger or leaves it as it is. *)
LEMMA ValueGrows ==
  ASSUME NEW arg \in Seq(Digit), NEW d, IsValue(d, arg)
  PROVE  \A k \in 0 .. Len(arg) : d[k] <= d[Len(arg)]
<1> DEFINE l == Len(arg)
           P == {j \in Nat : j <= l => d[l - j] <= d[l]}
<1>1. l \in Nat /\ \A k \in 1 .. l : arg[k] \in Nat
  BY DEF Digit
<1>2. /\ d \in [0 .. l -> Nat] /\ d[0] = 0
      /\ \A k \in 0 .. l - 1 : d[k + 1] = d[k] * 10 + arg[k + 1]
  BY DEF IsValue
<1> HIDE DEF l
<1>3. 0 \in P
  BY <1>1, <1>2
<1>4. ASSUME NEW j \in Nat, j \in P PROVE j + 1 \in P
  <2> SUFFICES ASSUME j + 1 <= l PROVE d[l - (j + 1)] <= d[l]
    OBVIOUS
  <2> DEFINE i == l - (j + 1)
  <2>1. /\ i \in 0 .. l - 1 /\ i \in 0 .. l /\ i + 1 \in 1 .. l
        /\ i + 1 \in 0 .. l /\ i + 1 = l - j /\ l \in 0 .. l
    BY <1>1
  <2>2. d[l - j] <= d[l]
    BY <1>1, <1>4
  <2> HIDE DEF i
  <2>3. d[i + 1] = d[i] * 10 + arg[i + 1]
    BY <1>2, <2>1
  <2>4. /\ d[i] \in Nat /\ d[i + 1] \in Nat /\ d[l] \in Nat
        /\ arg[i + 1] \in Nat
    BY <1>1, <1>2, <2>1
  <2>5. d[i] <= d[i + 1]
    BY <2>3, <2>4
  <2>6. d[i + 1] <= d[l]
    BY <2>1, <2>2
  <2> QED
    BY <2>4, <2>5, <2>6 DEF i
<1>5. ASSUME NEW k \in 0 .. l PROVE d[k] <= d[l]
  <2>1. l - k \in Nat /\ l - k <= l /\ l - (l - k) = k
    BY <1>1
  <2>2. l - k \in P
    <3> HIDE DEF P
    <3> QED
      BY <1>3, <1>4, <2>1, SetInduction
  <2> QED
    BY <2>1, <2>2
<1> QED
  BY <1>5 DEF l

(* The value of a number below WORD survives the loop over its digits. *)
LEMMA NumberIsDecimal ==
  ASSUME NEW arg \in Seq(Digit), Decimal(arg) < WORD
  PROVE  Number(arg) = Decimal(arg)
<1> DEFINE l == Len(arg)
<1>1. PICK d : IsValue(d, arg) /\ Decimal(arg) = d[Len(arg)]
  BY DecimalByDigit
<1>2. PICK e : IsWrapped(e, arg) /\ Number(arg) = e[Len(arg)]
  BY NumberByDigit
<1>3. l \in Nat /\ WORD \in Nat \ {0}
  BY ShellAssumption
<1>4. \A k \in 1 .. l : arg[k] \in Nat
  BY DEF Digit
<1>5. /\ d \in [0 .. l -> Nat] /\ d[0] = 0
      /\ \A k \in 0 .. l - 1 : d[k + 1] = d[k] * 10 + arg[k + 1]
  BY <1>1 DEF IsValue
<1>6. /\ e \in [0 .. l -> Nat] /\ e[0] = 0
      /\ \A k \in 0 .. l - 1 : e[k + 1] = (e[k] * 10 + arg[k + 1]) % WORD
  BY <1>2 DEF IsWrapped
<1> HIDE DEF l
<1>7. \A k \in 0 .. l : d[k] <= d[l]
  BY <1>1, ValueGrows DEF l
<1>8. ASSUME NEW x \in Nat, x < WORD PROVE x % WORD = x
  BY <1>3, <1>8
<1>9. l \in 0 .. l /\ d[l] < WORD /\ d[l] \in Nat
  <2>1. l \in 0 .. l
    BY <1>3
  <2> QED
    BY <1>1, <1>5, <2>1 DEF l
<1>10. e[l] = d[l]
  <2> DEFINE P == {j \in Nat : j <= l => e[j] = d[j]}
  <2>1. 0 \in P
    BY <1>5, <1>6
  <2>2. ASSUME NEW j \in Nat, j \in P PROVE j + 1 \in P
    <3> SUFFICES ASSUME j + 1 <= l PROVE e[j + 1] = d[j + 1]
      OBVIOUS
    <3>1. j \in 0 .. l - 1 /\ j + 1 \in 0 .. l
      BY <1>3
    <3>2. e[j] = d[j]
      BY <1>3, <2>2
    <3>3. e[j + 1] = d[j + 1] % WORD
      BY <1>5, <1>6, <3>1, <3>2
    <3>4. d[j + 1] \in Nat /\ d[j + 1] <= d[l]
      BY <1>5, <1>7, <3>1
    <3>5. d[j + 1] < WORD
      BY <1>3, <1>9, <3>4
    <3> QED
      BY <1>8, <3>3, <3>4, <3>5
  <2>3. l \in P
    <3> HIDE DEF P
    <3> QED
      BY <1>3, <2>1, <2>2, SetInduction
  <2> QED
    BY <1>3, <2>3
<1> QED
  BY <1>1, <1>2, <1>10 DEF l

(* The digits of utoa, ones first: the recursion ends for every value. *)
LEMMA BackwardsByDigit ==
  /\ Backwards \in [0 .. WORD - 1 -> Seq(Nat)]
  /\ \A v \in 0 .. WORD - 1 :
       Backwards[v] =
         IF v = 0 THEN <<>> ELSE <<v % 10>> \o Backwards[v \div 10]
<1> DEFINE D(m) == 0 .. m
           Upto(f, v) == IF v = 0 THEN <<>> ELSE <<v % 10>> \o f[v \div 10]
           Ok(m) == \E f \in [D(m) -> Seq(Nat)] :
                      \A v \in D(m) : f[v] = Upto(f, v)
           P == {m \in Nat : Ok(m)}
<1>1. Ok(0)
  <2> DEFINE f == [v \in D(0) |-> <<>>]
  <2>1. f \in [D(0) -> Seq(Nat)] /\ \A v \in D(0) : f[v] = Upto(f, v)
    <3>1. \A v \in D(0) : v = 0
      OBVIOUS
    <3>2. <<>> \in Seq(Nat)
      OBVIOUS
    <3> QED
      BY <3>1, <3>2
  <2> QED
    BY <2>1
<1>2. ASSUME NEW v \in Nat, v # 0
      PROVE  v \div 10 \in 0 .. v - 1 /\ v % 10 \in Nat
  BY <1>2
<1>3. ASSUME NEW m \in Nat, Ok(m) PROVE Ok(m + 1)
  <2>1. PICK h \in [D(m) -> Seq(Nat)] : \A v \in D(m) : h[v] = Upto(h, v)
    BY <1>3
  <2> DEFINE w == m + 1
             x == <<w % 10>> \o h[w \div 10]
             f == [v \in D(m + 1) |-> IF v = w THEN x ELSE h[v]]
  <2>2. w \in Nat /\ w # 0 /\ w \in D(m + 1) /\ w - 1 = m
    OBVIOUS
  <2>3. w \div 10 \in D(m) /\ w % 10 \in Nat
    BY <1>2, <2>2
  <2>4. \A v \in D(m + 1) : v # w => v \in D(m)
    OBVIOUS
  <2>5. \A v \in D(m) : v \in D(m + 1) /\ v # w
    OBVIOUS
  <2>6. \A v \in D(m) : v # 0 => v \div 10 \in D(m)
    <3> SUFFICES ASSUME NEW v \in D(m), v # 0 PROVE v \div 10 \in D(m)
      OBVIOUS
    <3>1. v \in Nat /\ v <= m
      OBVIOUS
    <3>2. v \div 10 \in 0 .. v - 1
      BY <1>2, <3>1
    <3> QED
      BY <3>1, <3>2
  <2> HIDE DEF w
  <2>7. x \in Seq(Nat)
    BY <2>3
  <2> HIDE DEF D, x
  <2>8. f \in [D(m + 1) -> Seq(Nat)]
    BY <2>4, <2>7
  <2>9. f[w] = x /\ \A v \in D(m) : f[v] = h[v]
    BY <2>2, <2>5
  <2> HIDE DEF f
  <2>10. ASSUME NEW v \in D(m + 1) PROVE f[v] = Upto(f, v)
    <3>1. CASE v = w
      BY <2>2, <2>3, <2>9, <3>1 DEF x
    <3>2. CASE v # w
      BY <2>1, <2>4, <2>6, <2>9, <3>2
    <3> QED
      BY <3>1, <3>2
  <2> HIDE DEF Upto
  <2> QED
    BY <2>8, <2>10
<1>4. WORD - 1 \in Nat
  BY ShellAssumption
<1> HIDE DEF Ok
<1>5. WORD - 1 \in P
  <2>1. 0 \in P /\ \A m \in Nat : m \in P => m + 1 \in P
    BY <1>1, <1>3
  <2> HIDE DEF P
  <2> QED
    BY <1>4, <2>1, SetInduction
<1>6. PICK f \in [D(WORD - 1) -> Seq(Nat)] :
        \A v \in D(WORD - 1) : f[v] = Upto(f, v)
  BY <1>5 DEF Ok
<1>7. f = [v \in 0 .. WORD - 1 |-> Upto(f, v)]
  BY <1>6
<1>8. Backwards = [v \in 0 .. WORD - 1 |-> Upto(Backwards, v)]
  BY <1>7 DEF Backwards
<1>9. ASSUME NEW v \in 0 .. WORD - 1 PROVE Backwards[v] = Upto(Backwards, v)
  BY <1>8
<1>10. ASSUME NEW v \in 0 .. WORD - 1 PROVE Backwards[v] \in Seq(Nat)
  <2> DEFINE Q == {m \in Nat : \A u \in D(m) :
                     u <= WORD - 1 => Backwards[u] \in Seq(Nat)}
  <2>1. 0 \in Q
    <3>1. 0 \in 0 .. WORD - 1
      BY <1>4
    <3>2. Backwards[0] = <<>>
      BY <1>9, <3>1
    <3>3. \A u \in D(0) : u = 0
      OBVIOUS
    <3>4. <<>> \in Seq(Nat)
      OBVIOUS
    <3>5. \A u \in D(0) : Backwards[u] \in Seq(Nat)
      BY <3>2, <3>3, <3>4
    <3> QED
      BY <3>5
  <2>2. ASSUME NEW m \in Nat, m \in Q PROVE m + 1 \in Q
    <3> SUFFICES ASSUME NEW u \in D(m + 1), u <= WORD - 1
                 PROVE  Backwards[u] \in Seq(Nat)
      OBVIOUS
    <3>1. CASE u \in D(m)
      BY <2>2, <3>1
    <3>2. CASE u \notin D(m)
      <4>1. u \in 0 .. WORD - 1 /\ u \in Nat /\ u # 0 /\ u - 1 = m
        BY <1>4, <3>2
      <4>2. u \div 10 \in D(m) /\ u % 10 \in Nat
        BY <1>2, <4>1
      <4>3. u \div 10 <= WORD - 1
        BY <1>4, <4>1, <4>2
      <4>4. Backwards[u \div 10] \in Seq(Nat)
        BY <2>2, <4>2, <4>3
      <4>5. Backwards[u] = <<u % 10>> \o Backwards[u \div 10]
        BY <1>9, <4>1
      <4> QED
        BY <4>2, <4>4, <4>5
    <3> QED
      BY <3>1, <3>2
  <2>3. WORD - 1 \in Q
    <3> HIDE DEF Q
    <3> QED
      BY <1>4, <2>1, <2>2, SetInduction
  <2> QED
    BY <1>4, <2>3
<1>11. Backwards \in [0 .. WORD - 1 -> Seq(Nat)]
  BY <1>8, <1>10
<1> QED
  BY <1>9, <1>11

(* The last digit and the others come apart again. *)
LEMMA LastDigit ==
  ASSUME NEW e \in Nat, NEW c \in 0 .. 9, NEW v, v = e * 10 + c
  PROVE  v % 10 = c /\ v \div 10 = e
OBVIOUS

(* utoa prints a number below WORD the way it is typed. *)
LEMMA UtoaPrints ==
  ASSUME NEW arg \in Seq(Digit), arg # <<>>, Decimal(arg) < WORD,
         Head(arg) # 0 \/ Len(arg) = 1
  PROVE  utoa(Decimal(arg)) = arg
<1> DEFINE l == Len(arg)
<1>1. PICK d : IsValue(d, arg) /\ Decimal(arg) = d[Len(arg)]
  BY DecimalByDigit
<1>2. /\ l \in Nat \ {0} /\ Head(arg) = arg[1] /\ WORD \in Nat \ {0}
      /\ \A k \in 1 .. l : arg[k] \in 0 .. 9
  BY ShellAssumption DEF Digit
<1>3. /\ d \in [0 .. l -> Nat] /\ d[0] = 0
      /\ \A k \in 0 .. l - 1 : d[k + 1] = d[k] * 10 + arg[k + 1]
  BY <1>1 DEF IsValue
<1>4. \A k \in 0 .. l : d[k] <= d[l]
  BY <1>1, ValueGrows
<1>5. d[l] < WORD
  BY <1>1
<1>5a. \A k \in 1 .. l : arg[k] \in Nat
  BY <1>2
<1>5b. arg = [k \in 1 .. l |-> arg[k]]
  OBVIOUS
<1>5c. Decimal(arg) = d[l]
  BY <1>1
<1>5d. arg[1] # 0 \/ l = 1
  BY <1>2
<1> HIDE DEF l
<1>6. CASE arg[1] = 0
  <2>1. l = 1
    BY <1>5d, <1>6
  <2>2. 0 \in 0 .. l - 1
    BY <2>1
  <2>3. d[0 + 1] = d[0] * 10 + arg[0 + 1]
    BY <1>3, <2>2
  <2>4. d[l] = 0
    BY <1>3, <1>6, <2>1, <2>3
  <2>5. utoa(d[l]) = <<0>>
    BY <2>4 DEF utoa
  <2>6. arg = <<0>>
    <3>1. arg \in Seq(Digit) /\ Len(arg) = 1
      BY <2>1 DEF l
    <3> QED
      BY <1>6, <3>1
  <2> QED
    BY <1>5c, <2>5, <2>6
<1>7. CASE arg[1] # 0
  <2>1. ASSUME NEW k \in 1 .. l PROVE d[k] # 0
    <3> DEFINE P == {j \in Nat : j + 1 <= l => d[j + 1] # 0}
    <3>1. 0 \in P
      <4>1. 0 \in 0 .. l - 1 /\ 1 \in 1 .. l
        BY <1>2
      <4>2. d[0 + 1] = d[0] * 10 + arg[0 + 1]
        BY <1>3, <4>1
      <4>3. d[1] = arg[1]
        BY <1>3, <1>5a, <4>1, <4>2
      <4> QED
        BY <1>7, <4>3
    <3>2. ASSUME NEW j \in Nat, j \in P PROVE j + 1 \in P
      <4> SUFFICES ASSUME (j + 1) + 1 <= l PROVE d[(j + 1) + 1] # 0
        OBVIOUS
      <4>1. /\ j + 1 \in 0 .. l - 1 /\ j + 1 \in 0 .. l /\ j + 1 <= l
            /\ (j + 1) + 1 \in 1 .. l
        BY <1>2
      <4>2. d[j + 1] # 0 /\ d[j + 1] \in Nat
        BY <1>3, <3>2, <4>1
      <4>3. d[(j + 1) + 1] = d[j + 1] * 10 + arg[(j + 1) + 1]
        BY <1>3, <4>1
      <4>4. arg[(j + 1) + 1] \in Nat
        BY <1>5a, <4>1
      <4> QED
        BY <4>2, <4>3, <4>4
    <3>3. k - 1 \in Nat /\ (k - 1) + 1 = k /\ k <= l
      BY <1>2
    <3>4. k - 1 \in P
      <4> HIDE DEF P
      <4> QED
        BY <3>1, <3>2, <3>3, SetInduction
    <3> QED
      BY <3>3, <3>4
  <2> DEFINE Ok(k) == /\ Len(Backwards[d[k]]) = k
                      /\ \A j \in 1 .. k : Backwards[d[k]][j] = arg[k + 1 - j]
             Q == {k \in Nat : k <= l => Ok(k)}
  <2>2. \A k \in 0 .. l : d[k] \in 0 .. WORD - 1
    <3> SUFFICES ASSUME NEW k \in 0 .. l PROVE d[k] \in 0 .. WORD - 1
      OBVIOUS
    <3>1. d[k] \in Nat /\ d[l] \in Nat /\ d[k] <= d[l]
      BY <1>2, <1>3, <1>4
    <3> QED
      BY <1>2, <1>5, <3>1
  <2>3. 0 \in Q
    <3>1. Backwards[d[0]] = <<>>
      <4>1. 0 \in 0 .. l
        BY <1>2
      <4> QED
        BY <1>3, <2>2, <4>1, BackwardsByDigit
    <3> QED
      BY <3>1
  <2>4. ASSUME NEW k \in Nat, k \in Q PROVE k + 1 \in Q
    <3> SUFFICES ASSUME k + 1 <= l PROVE Ok(k + 1)
      OBVIOUS
    <3> DEFINE v == d[k + 1]
               B == Backwards[d[k]]
               c == arg[k + 1]
    <3>1. /\ k \in 0 .. l - 1 /\ k \in 0 .. l /\ k + 1 \in 0 .. l
          /\ k + 1 \in 1 .. l
      BY <1>2
    <3>2. /\ v = d[k] * 10 + c /\ d[k] \in Nat /\ c \in 0 .. 9
          /\ v \in 0 .. WORD - 1 /\ d[k] \in 0 .. WORD - 1 /\ v # 0
      BY <1>2, <1>3, <2>1, <2>2, <3>1
    <3>3. Len(B) = k /\ \A j \in 1 .. k : B[j] = arg[k + 1 - j]
      BY <1>2, <2>4, <3>1
    <3>4. Backwards[v] = <<v % 10>> \o Backwards[v \div 10]
      BY <3>2, BackwardsByDigit
    <3>5. B \in Seq(Nat)
      BY <3>2, BackwardsByDigit
    <3> HIDE DEF v, c
    <3>6. v % 10 = c /\ v \div 10 = d[k]
      <4> DEFINE e == d[k]
      <4>1. e \in Nat /\ c \in 0 .. 9 /\ v = e * 10 + c
        BY <3>2
      <4> HIDE DEF e
      <4>2. v % 10 = c /\ v \div 10 = e
        BY <4>1, LastDigit
      <4> QED
        BY <4>2 DEF e
    <3>7. Backwards[v] = <<c>> \o B
      BY <3>4, <3>6
    <3> HIDE DEF B
    <3>8. c \in Nat
      BY <3>2
    <3>9. /\ Len(<<c>> \o B) = k + 1
          /\ (<<c>> \o B)[1] = c
          /\ \A j \in 2 .. k + 1 : (<<c>> \o B)[j] = B[j - 1]
      BY <3>3, <3>5, <3>8
    <3>10. ASSUME NEW j \in 1 .. k + 1
           PROVE  Backwards[v][j] = arg[k + 1 + 1 - j]
      <4>1. CASE j = 1
        <5>1. k + 1 + 1 - j = k + 1
          BY <4>1
        <5> QED
          BY <3>7, <3>9, <4>1, <5>1 DEF c
      <4>2. CASE j # 1
        <5>1. /\ j \in 2 .. k + 1 /\ j - 1 \in 1 .. k
              /\ k + 1 - (j - 1) = k + 1 + 1 - j
          BY <4>2
        <5>2. Backwards[v][j] = B[j - 1]
          BY <3>7, <3>9, <5>1
        <5>3. B[j - 1] = arg[k + 1 - (j - 1)]
          BY <3>3, <5>1
        <5> QED
          BY <5>1, <5>2, <5>3
      <4> QED
        BY <4>1, <4>2
    <3> QED
      BY <3>7, <3>9, <3>10 DEF v
  <2>5. l \in Q
    <3> HIDE DEF Q
    <3> QED
      BY <1>2, <2>3, <2>4, SetInduction
  <2>6. Ok(l)
    BY <1>2, <2>5
  <2> DEFINE R == Backwards[d[l]]
  <2>7. Len(R) = l /\ \A j \in 1 .. l : R[j] = arg[l + 1 - j]
    BY <2>6
  <2> HIDE DEF R
  <2>8. ASSUME NEW i \in 1 .. l PROVE R[(Len(R) - i) + 1] = arg[i]
    <3>1. /\ (Len(R) - i) + 1 \in 1 .. l
          /\ l + 1 - ((Len(R) - i) + 1) = i
      BY <1>2, <2>7
    <3> QED
      BY <2>7, <3>1
  <2>9. Reverse(R) = arg
    <3>1. Reverse(R) = [i \in 1 .. l |-> R[(Len(R) - i) + 1]]
      BY <2>7 DEF Reverse
    <3> QED
      BY <1>5b, <2>8, <3>1
  <2>10. d[l] # 0
    BY <1>2, <2>1
  <2> QED
    BY <1>5c, <2>9, <2>10 DEF utoa, R
<1> QED
  BY <1>6, <1>7

-----------------------------------------------------------------------------
(* The pages of help *)

(* Division, without the division. *)
LEMMA Quotient ==
  ASSUME NEW a \in Nat, NEW h \in Nat \ {0}, NEW q \in Int
  PROVE  a \div h = q <=> q * h <= a /\ a < (q + 1) * h
<1> DEFINE r == a \div h
<1>1. r \in Nat /\ r * h <= a
  OBVIOUS
<1>2. a < (r + 1) * h
  OBVIOUS
<1> HIDE DEF r
<1>3. ASSUME NEW x \in Int, NEW y \in Int, x * h < y * h PROVE x < y
  BY <1>3
<1>4. ASSUME q * h <= a, a < (q + 1) * h PROVE r = q
  <2>1. r * h < (q + 1) * h
    <3> DEFINE s == r * h
               t == (q + 1) * h
    <3>1. s \in Int /\ t \in Int
      BY <1>1
    <3>2. s <= a /\ a < t
      BY <1>1, <1>4
    <3> HIDE DEF s, t
    <3>3. s < t
      BY <3>1, <3>2
    <3> QED
      BY <3>3 DEF s, t
  <2>2. q * h < (r + 1) * h
    <3> DEFINE s == q * h
               t == (r + 1) * h
    <3>1. s \in Int /\ t \in Int
      BY <1>1
    <3>2. s <= a /\ a < t
      BY <1>2, <1>4
    <3> HIDE DEF s, t
    <3>3. s < t
      BY <3>1, <3>2
    <3> QED
      BY <3>3 DEF s, t
  <2>3. r < q + 1 /\ q < r + 1
    BY <1>1, <1>3, <2>1, <2>2
  <2> QED
    BY <1>1, <2>3
<1> QED
  BY <1>1, <1>2, <1>4 DEF r

(* A page of help shows the rows of the table that belong to it. *)
LEMMA HelpShows ==
  ASSUME NEW arg, IsNumber(arg), NEW n \in Nat, Number(arg) = n
  PROVE  {k \in DOMAIN Commands : Commands[k] \in Range(cmd_help(arg))}
           = {k \in DOMAIN Commands : (k - 1) \div HELP_PER_PAGE = n - 1}
<1> DEFINE H == HELP_PER_PAGE
           L == Len(Commands)
           p == help_pages
           start == (n - 1) * H
           shown == cmd_help(arg)
<1>1. /\ H \in Nat \ {0} /\ L \in Nat /\ DOMAIN Commands = 1 .. L
      /\ \A k, j \in 1 .. L : Commands[k] = Commands[j] => k = j
      /\ \A k \in 1 .. L : Commands[k] \in Range(Commands)
  BY ShellAssumption
<1>2. arg # <<>>
  BY DEF IsNumber
<1>3. shown = IF n \in 1 .. p
              THEN SubSeq(Commands, start + 1, Min({start + H, L}))
              ELSE <<>>
  BY <1>2 DEF cmd_help
<1>4. p = (L + H - 1) \div H
  BY DEF help_pages
<1> HIDE DEF H, L, p, shown
<1>5. start \in Int /\ start + H = n * H /\ (n - 1) + 1 = n
  <2>1. (n - 1) * H = n * H - H /\ n * H \in Int
    BY <1>1
  <2> QED
    BY <1>1, <2>1
<1>6. ASSUME NEW k \in 1 .. L
      PROVE  (k - 1) \div H = n - 1 <=> start + 1 <= k /\ k <= start + H
  <2>1. k - 1 \in Nat /\ n - 1 \in Int
    OBVIOUS
  <2>2. (k - 1) \div H = n - 1
          <=> (n - 1) * H <= k - 1 /\ k - 1 < ((n - 1) + 1) * H
    BY <1>1, <2>1, Quotient
  <2>3. (k - 1) \div H = n - 1 <=> start <= k - 1 /\ k - 1 < start + H
    BY <1>5, <2>2
  <2> HIDE DEF start
  <2> QED
    BY <1>1, <1>5, <2>3
<1>7. p \in Int /\ p * H <= L + H - 1 /\ L + H - 1 < (p + 1) * H
  <2>1. L + H - 1 \in Nat
    BY <1>1
  <2>2. (L + H - 1) \div H \in Int
    BY <1>1, <2>1
  <2> QED
    BY <1>1, <1>4, <2>1, <2>2, Quotient
<1>8. CASE n \in 1 .. p
  <2> DEFINE e == Min({start + H, L})
  <2>1. start \in Nat /\ start < L
    <3>1. start >= 0
      <4>1. n - 1 \in Nat
        BY <1>8
      <4> QED
        BY <1>1, <4>1
    <3>2. n * H <= p * H
      <4>1. n \in Nat /\ p \in Nat /\ n <= p
        BY <1>7, <1>8
      <4> QED
        BY <1>1, <4>1
    <3>3. start + H <= L + H - 1
      <4> DEFINE a == n * H
                 b == p * H
      <4>1. a \in Int /\ b \in Int
        BY <1>1, <1>7
      <4>2. a <= b /\ b <= L + H - 1 /\ start + H = a
        BY <1>5, <1>7, <3>2
      <4> HIDE DEF a, b, start
      <4> QED
        BY <1>1, <1>5, <4>1, <4>2
    <3> HIDE DEF start
    <3> QED
      BY <1>1, <1>5, <3>1, <3>3
  <2> HIDE DEF start
  <2>2. e \in {start + H, L} /\ e <= start + H /\ e <= L
    <3>1. {start + H, L} \in SUBSET Nat /\ {start + H, L} # {}
      BY <1>1, <2>1
    <3> QED
      BY <3>1, MinOfNats
  <2> HIDE DEF e
  <2>3. e \in start + 1 .. L
    BY <1>1, <2>1, <2>2
  <2>4. shown = SubSeq(Commands, start + 1, e)
    BY <1>3, <1>8 DEF e
  <2>5. /\ shown \in Seq(Range(Commands)) /\ Len(shown) = e - start
        /\ \A i \in 1 .. e - start : shown[i] = Commands[start + i]
    <3> DEFINE m == start + 1
    <3>1. /\ m \in Int /\ e \in Int /\ m <= e /\ e - m + 1 = e - start
          /\ \A i \in 1 .. e - start : m + i - 1 = start + i
      BY <1>1, <2>1, <2>3
    <3>2. \A i \in m .. e : Commands[i] \in Range(Commands)
      <4>1. \A i \in m .. e : i \in 1 .. L
        BY <1>1, <2>1, <2>3
      <4> QED
        BY <1>1, <4>1
    <3> HIDE DEF m
    <3>3. /\ SubSeq(Commands, m, e) \in Seq(Range(Commands))
          /\ Len(SubSeq(Commands, m, e)) = IF m <= e THEN e - m + 1 ELSE 0
          /\ \A i \in 1 .. e - m + 1 :
               SubSeq(Commands, m, e)[i] = Commands[m + i - 1]
      BY <3>1, <3>2, SubSeqProperties
    <3> QED
      BY <2>4, <3>1, <3>3 DEF m
  <2>6. DOMAIN shown = 1 .. e - start
    BY <2>5
  <2>7. ASSUME NEW k \in 1 .. L
        PROVE  Commands[k] \in Range(shown) <=> k \in start + 1 .. e
    <3>1. ASSUME Commands[k] \in Range(shown) PROVE k \in start + 1 .. e
      <4>1. PICK i \in 1 .. e - start : Commands[k] = shown[i]
        BY <2>6, <3>1 DEF Range
      <4>2. Commands[k] = Commands[start + i]
        BY <2>5, <4>1
      <4>3. start + i \in start + 1 .. e /\ start + i \in 1 .. L
        BY <1>1, <2>1, <2>3
      <4> QED
        BY <1>1, <4>2, <4>3
    <3>2. ASSUME k \in start + 1 .. e PROVE Commands[k] \in Range(shown)
      <4>1. k - start \in 1 .. e - start /\ start + (k - start) = k
        BY <1>1, <2>1, <2>3, <3>2
      <4>2. shown[k - start] = Commands[k]
        BY <2>5, <4>1
      <4> QED
        BY <2>6, <4>1, <4>2 DEF Range
    <3> QED
      BY <3>1, <3>2
  <2>8. ASSUME NEW k \in 1 .. L
        PROVE  k \in start + 1 .. e <=> start + 1 <= k /\ k <= start + H
    BY <1>1, <2>1, <2>2, <2>3
  <2>9. \A k \in 1 .. L :
          Commands[k] \in Range(shown) <=> (k - 1) \div H = n - 1
    BY <1>6, <2>7, <2>8
  <2> QED
    BY <1>1, <2>9 DEF shown, H
<1>9. CASE n \notin 1 .. p
  <2>1. Range(shown) = {}
    BY <1>3, <1>9 DEF Range
  <2>2. ASSUME NEW k \in 1 .. L PROVE (k - 1) \div H # n - 1
    <3> SUFFICES ASSUME start + 1 <= k, k <= start + H PROVE FALSE
      BY <1>6
    <3>1. CASE n = 0
      <4>1. start + H = 0
        BY <1>1, <1>5, <3>1
      <4> HIDE DEF start
      <4> QED
        BY <1>5, <4>1
    <3>2. CASE n # 0
      <4>1. p + 1 <= n
        BY <1>7, <1>9, <3>2
      <4>2. (p + 1) * H <= n * H
        <5>1. p + 1 \in Int /\ n \in Int
          BY <1>7
        <5> DEFINE g == p + 1
        <5>2. g \in Int /\ g <= n
          BY <4>1, <5>1
        <5> HIDE DEF g
        <5>3. g * H <= n * H
          BY <1>1, <5>1, <5>2
        <5> QED
          BY <5>3 DEF g
      <4> DEFINE a == (p + 1) * H
                 b == n * H
      <4>3. a \in Int /\ b \in Int
        BY <1>1, <1>7
      <4>4. L + H - 1 < a /\ a <= b /\ start + H = b
        BY <1>5, <1>7, <4>2
      <4> HIDE DEF a, b, start
      <4>5. L < start + 1
        BY <1>1, <1>5, <4>3, <4>4
      <4> QED
        BY <1>1, <1>5, <4>5
    <3> QED
      BY <3>1, <3>2
  <2> QED
    BY <1>1, <2>1, <2>2 DEF shown, H
<1> QED
  BY <1>8, <1>9

-----------------------------------------------------------------------------
(* The theorems *)

(* read_line and vga.c: the cursor never leaves the screen, whatever is    *)
(* typed and printed, and the line and its terminator fit LINE_MAX bytes.  *)
THEOREM LineEditorTypeAlways == Spec => []TypeOK
<1>1. IInv => TypeOK
  BY Dimensions DEF IInv, TypeOK, Screen
<1> QED
  BY <1>1, IInvAlways, PTL

(* read_line and vga_putchar: while the user types, the cells before the   *)
(* cursor show the prompt and the line that will be executed, on a screen  *)
(* of any size, across row ends, scrolling and any number of backspaces.   *)
THEOREM ScreenShowsLineAlways == Spec => []ScreenShowsLine
<1>1. IInv => ScreenShowsLine
  <2> SUFFICES ASSUME IInv PROVE ScreenShowsLine
    OBVIOUS
  <2>1. line \in Seq(Printable)
    BY DEF IInv
  <2>2. Len(Prompt \o line) = Len(Prompt) + Len(line)
    BY <2>1, Texts
  <2> QED
    BY <2>2 DEF IInv, ScreenShowsLine, ShowsUpTo
<1> QED
  BY <1>1, IInvAlways, PTL

(* read_line: backspace blanks the cell of the last character typed and    *)
(* nothing else, also at the start of a row: never the prompt or anything  *)
(* printed before it.                                                      *)
THEOREM BackspaceAlways == Spec => BackspaceErasesOnlyTyped
<1> DEFINE A == pc = "read" /\ pc' = "read" /\ Len(line') < Len(line)
                  => /\ Pos(screen') = Pos(screen) - 1
                     /\ screen'.cell
                          = [screen.cell EXCEPT ![Pos(screen')] = Blank]
<1>1. IInv /\ [Next]_vars => [A]_vars
  BY NextIInv
<1> QED
  BY <1>1, IInvAlways, PTL DEF Spec, BackspaceErasesOnlyTyped

(* execute and split: every line is read as its first word and the rest,   *)
(* whatever earlier lines left behind the terminator, for every size of    *)
(* the buffer and every table of commands.                                 *)
THEOREM CommandAlways == Spec => []CommandAndArgument
<1>1. IInv => CommandAndArgument
  <2> SUFFICES ASSUME IInv, NEW old \in Printable \cup {NUL}
               PROVE  LET r == execute(Buffer(old)) IN
                      \/ AllSpaces(line) /\ r = NoCommand
                      \/ /\ WordAndRest(line, r.word, r.arg)
                         /\ RunsRow(r.run, r.word)
    BY DEF CommandAndArgument, WordAndRest, RunsRow
  <2>1. Holds(Buffer(old), line)
    BY BufferHolds
  <2> QED
    BY <2>1, ExecuteReads
<1> QED
  BY <1>1, IInvAlways, PTL

(* write_common: the name with its terminator fits its buffer, and nothing *)
(* of the argument is lost but the spaces between name and text, for every *)
(* size of a name and every argument.                                      *)
THEOREM WriteSplitAlways == Spec => []WriteSplitsNameAndText
<1>1. IInv => WriteSplitsNameAndText
  <2> SUFFICES ASSUME IInv PROVE WriteSplitsNameAndText
    OBVIOUS
  <2>1. Holds(Buffer(NUL), line)
    BY BufferHolds
  <2>2. Typed.arg \in Seq(Printable)
    BY <2>1, ExecuteReads DEF Typed
  <2> QED
    BY <2>2, WriteCommonReads DEF WriteSplitsNameAndText
<1> QED
  BY <1>1, IInvAlways, PTL

(* cmd_sleep, cmd_color, cmd_help and utoa: every number below 2^32 that   *)
(* is typed (2^31 for color) is read as that number and no other, and the  *)
(* pages of help divide the table among them without a gap or an overlap,  *)
(* for every width of an int, every limit and every size of a page.        *)
THEOREM NumberAlways == Spec => []NumberAsTyped
<1>1. IInv => NumberAsTyped
  <2> SUFFICES ASSUME IInv PROVE NumberAsTyped
    OBVIOUS
  <2> DEFINE arg   == Typed.arg
             n     == Decimal(arg)
             Shown == {k \in DOMAIN Commands :
                         Commands[k] \in Range(cmd_help(arg))}
  <2>1. Holds(Buffer(NUL), line)
    BY BufferHolds
  <2>2. arg \in Seq(Printable)
    BY <2>1, ExecuteReads DEF Typed
  <2> HIDE DEF arg
  <2>3. ASSUME ~ IsNumber(arg)
        PROVE  /\ cmd_sleep(arg) = Refused /\ cmd_color(arg) = Refused
               /\ arg # <<>> => Shown = {}
    <3>1. arg # <<>> => cmd_help(arg) = <<>>
      BY <2>3 DEF cmd_help
    <3> QED
      BY <2>3, <3>1 DEF cmd_sleep, cmd_color, Range
  <2>4. ASSUME IsNumber(arg), n < WORD
        PROVE  /\ cmd_sleep(arg) = IF n <= SLEEP_LIMIT THEN n ELSE Refused
               /\ n < WORD \div 2 =>
                    cmd_color(arg) = IF n <= COLOR_LIMIT THEN n ELSE Refused
               /\ Shown = {k \in DOMAIN Commands :
                             (k - 1) \div HELP_PER_PAGE = n - 1}
               /\ Head(arg) # 0 \/ Len(arg) = 1 => utoa(n) = arg
    <3>1. arg \in Seq(Digit) /\ arg # <<>>
      BY <2>2, <2>4 DEF IsNumber
    <3>2. Number(arg) = n
      BY <2>4, <3>1, NumberIsDecimal
    <3>3. n \in Nat
      <4>1. PICK d : IsValue(d, arg) /\ Decimal(arg) = d[Len(arg)]
        BY <3>1, DecimalByDigit
      <4>2. Len(arg) \in 0 .. Len(arg)
        BY <3>1
      <4> QED
        BY <4>1, <4>2 DEF IsValue
    <3> HIDE DEF n
    <3>4. cmd_sleep(arg) = IF n <= SLEEP_LIMIT THEN n ELSE Refused
      BY <2>4, <3>2 DEF cmd_sleep
    <3>5. ASSUME n < WORD \div 2
          PROVE  cmd_color(arg) = IF n <= COLOR_LIMIT THEN n ELSE Refused
      BY <2>4, <3>2, <3>5 DEF cmd_color, Signed
    <3>6. Shown = {k \in DOMAIN Commands :
                     (k - 1) \div HELP_PER_PAGE = n - 1}
      BY <2>4, <3>2, <3>3, HelpShows
    <3>7. Head(arg) # 0 \/ Len(arg) = 1 => utoa(n) = arg
      BY <2>4, <3>1, UtoaPrints DEF n
    <3> QED
      BY <3>4, <3>5, <3>6, <3>7
  <2> QED
    BY <2>3, <2>4 DEF NumberAsTyped, arg
<1> QED
  BY <1>1, IInvAlways, PTL

=============================================================================
