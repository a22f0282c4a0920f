------------------------------- MODULE Shell -------------------------------
(***************************************************************************)
(* What the shell makes of a line (kernel/shell.c): execute and split, the *)
(* second split of write and append, and the numbers that sleep, color and *)
(* help read, with utoa of lib/string.c that prints them.                  *)
(*                                                                         *)
(* The line is a static buffer: what follows the terminator is left over   *)
(* from earlier lines.  A pointer into it is an index.  The characters '0' *)
(* to '9' are the integers 0 to 9.  unsigned and int count modulo WORD;    *)
(* an int that overflows is undefined in C and wraps in this build.        *)
(***************************************************************************)
EXTENDS LineEditor

CONSTANTS
  NUL, Space,
  Commands,        \* the names in the table "commands"
  FISH_NAME_MAX,   \* size of a name, terminator included
  WORD,            \* 2^32
  SLEEP_LIMIT,     \* 60
  COLOR_LIMIT,     \* 15
  HELP_PER_PAGE

ASSUME ShellAssumption ==
  /\ Space \in Printable /\ NUL \notin Printable
  /\ {FISH_NAME_MAX, WORD, HELP_PER_PAGE} \subseteq Nat \ {0}
  /\ WORD % 2 = 0 /\ SLEEP_LIMIT < WORD /\ COLOR_LIMIT < WORD \div 2
  /\ Commands \in Seq(Range(Commands))
  /\ \A k, l \in DOMAIN Commands : Commands[k] = Commands[l] => k = l

Digit == 0 .. 9

-----------------------------------------------------------------------------
(* Strings in the buffer *)

(* The first index from i on whose character is not in "skipped". *)
SkipWhile(mem, i, skipped) == Min({j \in i .. Len(mem) : mem[j] \notin skipped})

(* The string that starts at i; strlen finds its end, and strcmp is 0 for  *)
(* equal strings.                                                          *)
String(mem, i) ==
  SubSeq(mem, i, Min({j \in i .. Len(mem) : mem[j] = NUL}) - 1)

(* Mutant: one space is skipped. *)
split_OneSpace(mem, text) ==
  LET i == SkipWhile(mem, text, Printable \ {Space}) IN
  IF mem[i] = NUL THEN [mem |-> mem, arg |-> i]
                  ELSE [mem |-> [mem EXCEPT ![i] = NUL], arg |-> i + 1]

(* Cuts the command at "text" short; the argument follows. *)
split(mem, text) ==
  LET i   == SkipWhile(mem, text, Printable \ {Space})
      cut == [mem EXCEPT ![i] = NUL]
  IN  IF mem[i] = NUL THEN [mem |-> mem, arg |-> i]
      ELSE [mem |-> cut, arg |-> SkipWhile(cut, i + 1, {Space})]

NoCommand == [word |-> <<>>, run |-> 0, arg |-> <<>>]

(* The word, the row of the table that is run (0 for none), its argument. *)
execute(mem) ==
  LET text == SkipWhile(mem, 1, {Space})
      s    == split(mem, text)
      word == String(s.mem, text)
      rows == {k \in DOMAIN Commands : Commands[k] = word}
  IN  IF mem[text] = NUL THEN NoCommand
      ELSE [word |-> word,
            run  |-> IF rows = {} THEN 0 ELSE Min(rows),
            arg  |-> String(s.mem, s.arg)]

-----------------------------------------------------------------------------
(* Arguments *)

(* Mutant: the terminator is forgotten. *)
write_common_NameMax(arg) ==
  LET i == Min({FISH_NAME_MAX, Len(arg)}
                 \cup {k - 1 : k \in {j \in DOMAIN arg : arg[j] = Space}})
      t == Min({k \in i + 1 .. Len(arg) : arg[k] # Space} \cup {Len(arg) + 1})
  IN  [name |-> SubSeq(arg, 1, i), text |-> SubSeq(arg, t, Len(arg))]

(* The name of at most FISH_NAME_MAX - 1 characters and the text that      *)
(* write and append hand to Fish; a longer name runs over into the text.   *)
write_common(arg) ==
  LET i == Min({FISH_NAME_MAX - 1, Len(arg)}
                 \cup {k - 1 : k \in {j \in DOMAIN arg : arg[j] = Space}})
      t == Min({k \in i + 1 .. Len(arg) : arg[k] # Space} \cup {Len(arg) + 1})
  IN  [name |-> SubSeq(arg, 1, i), text |-> SubSeq(arg, t, Len(arg))]

(* The loop over the digits. *)
Number(arg) == FoldLeft(LAMBDA value, c : (value * 10 + c) % WORD, 0, arg)

IsNumber(arg) == arg # <<>> /\ \A k \in DOMAIN arg : arg[k] \in Digit

(* The number as an int. *)
Signed(value) == IF value < WORD \div 2 THEN value ELSE value - WORD

Refused == -1

(* The seconds to sleep. *)
cmd_sleep(arg) ==
  IF IsNumber(arg) /\ Number(arg) <= SLEEP_LIMIT THEN Number(arg) ELSE Refused

(* The value given to vga_set_color, modulo WORD. *)
cmd_color(arg) ==
  IF IsNumber(arg) /\ Signed(Number(arg)) <= COLOR_LIMIT
  THEN Number(arg) ELSE Refused

(* Mutant: a last page that is not full is not counted. *)
help_pages_RoundedDown == Len(Commands) \div HELP_PER_PAGE

help_pages == (Len(Commands) + HELP_PER_PAGE - 1) \div HELP_PER_PAGE

(* The rows of the table that help shows. *)
cmd_help(arg) ==
  LET page  == IF arg = <<>> THEN 1 ELSE Number(arg)
      start == (page - 1) * HELP_PER_PAGE
  IN  IF arg = <<>> \/ (IsNumber(arg) /\ page \in 1 .. help_pages)
      THEN SubSeq(Commands, start + 1,
                  Min({start + HELP_PER_PAGE, Len(Commands)}))
      ELSE <<>>

(* The digits come out ones first and are reversed at the end. *)
Backwards[value \in 0 .. WORD - 1] ==
  IF value = 0 THEN <<>> ELSE <<value % 10>> \o Backwards[value \div 10]

utoa(value) == IF value = 0 THEN <<0>> ELSE Reverse(Backwards[value])

-----------------------------------------------------------------------------
(* Properties *)

(* The buffer when Enter was pressed, with "old" left over behind it. *)
Buffer(old) ==
  [k \in 1 .. LINE_MAX |-> IF k <= Len(line) THEN line[k]
                           ELSE IF k = Len(line) + 1 THEN NUL ELSE old]

Typed == execute(Buffer(NUL))

AllSpaces(s) == \A k \in DOMAIN s : s[k] = Space
NoSpace(s)   == \A k \in DOMAIN s : s[k] # Space

(* s is "first", some spaces, and "rest": how the user reads it. *)
ReadsAs(s, first, rest) ==
  LET gap == Len(s) - Len(first) - Len(rest) IN
  /\ gap >= 0
  /\ s = first \o [k \in 1 .. gap |-> Space] \o rest
  /\ NoSpace(first)
  /\ rest = <<>> \/ (gap > 0 /\ Head(rest) # Space)

(* execute and split: the command is the first word of the line and its    *)
(* argument all that follows, without the spaces before, between and (when *)
(* there is no argument) after them.  Nothing that an earlier line left in *)
(* the buffer shows, no scan runs off its end, and a name of the table     *)
(* runs that command and no other.                                         *)
CommandAndArgument ==
  pc = "execute" =>
    \A old \in Printable \cup {NUL} :
      LET r == execute(Buffer(old)) IN
      \/ AllSpaces(line) /\ r = NoCommand
      \/ /\ r.word # <<>>
         /\ \E lead \in 0 .. Len(line) :
              /\ AllSpaces(SubSeq(line, 1, lead))
              /\ ReadsAs(SubSeq(line, lead + 1, Len(line)), r.word, r.arg)
         /\ IF r.run = 0 THEN \A k \in DOMAIN Commands : Commands[k] # r.word
                         ELSE Commands[r.run] = r.word

(* write_common: name and text are the first word of the argument and all  *)
(* the rest, and the name with its terminator fits its buffer.  A word     *)
(* that is too long is cut there and the rest of it becomes text; nothing  *)
(* is lost even then.                                                      *)
WriteSplitsNameAndText ==
  pc = "execute" =>
    LET arg == Typed.arg
        w   == write_common(arg)
    IN  /\ Len(w.name) < FISH_NAME_MAX
        /\ \/ ReadsAs(arg, w.name, w.text)
           \/ /\ Len(w.name) = FISH_NAME_MAX - 1 /\ NoSpace(w.name)
              /\ arg = w.name \o w.text /\ Head(w.text) # Space

(* The number the user typed. *)
Decimal(arg) == FoldLeft(LAMBDA value, c : value * 10 + c, 0, arg)

(* sleep, color and help act on the number that was typed if it is one     *)
(* they allow, and refuse every other argument, for numbers below 2^32     *)
(* (2^31 for color): larger ones wrap and may be taken for a small one.    *)
(* The pages of help show every command once, in order, and utoa prints a  *)
(* number the way it is typed.                                             *)
NumberAsTyped ==
  pc = "execute" =>
    LET arg   == Typed.arg
        n     == Decimal(arg)
        shown == {k \in DOMAIN Commands : Commands[k] \in Range(cmd_help(arg))}
    IN  IF ~IsNumber(arg)
        THEN /\ cmd_sleep(arg) = Refused /\ cmd_color(arg) = Refused
             /\ arg # <<>> => shown = {}
        ELSE n < WORD =>
             /\ cmd_sleep(arg) = IF n <= SLEEP_LIMIT THEN n ELSE Refused
             /\ n < WORD \div 2 =>
                  cmd_color(arg) = IF n <= COLOR_LIMIT THEN n ELSE Refused
             /\ shown = {k \in DOMAIN Commands :
                           (k - 1) \div HELP_PER_PAGE = n - 1}
             /\ Head(arg) # 0 \/ Len(arg) = 1 => utoa(n) = arg
=============================================================================
