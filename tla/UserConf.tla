----------------------------- MODULE UserConf ------------------------------
(***************************************************************************)
(* The user name and the host name (kernel/user.c): kept in memory, copied *)
(* to the file ys.conf at the root of Fish by the commands user, hostname  *)
(* and save, and read back from it at boot.                                *)
(*                                                                         *)
(* The disk holds a whole image or none: the sectors of a save are module  *)
(* FishDisk's business.  A name is a sequence of bytes; Blank are the      *)
(* bytes set_field refuses (a space and the control characters).           *)
(***************************************************************************)
EXTENDS Fish

CONSTANTS
  CONFIG_FILE,     \* the name "ys.conf"
  USER_NAME_MAX,   \* size of the two buffers, terminator included
  NEWLINE,         \* the byte that ends a line
  Blank,           \* bytes up to ' '
  DefaultName,     \* "user"
  DefaultHost,     \* "yunix"
  Typed,           \* arguments the user gives to user and hostname
  MaxEdits         \* bound: commands that change files or names

ASSUME ConfAssumption ==
  /\ CONFIG_FILE \in ValidNames
  /\ USER_NAME_MAX \in Nat \ {0, 1}
  /\ FILE_MAX >= 2 * USER_NAME_MAX
  /\ {NEWLINE, NUL} \subseteq Blank /\ Blank \subseteq Byte

Printable == Byte \ Blank

(* What the prompt can show: one to USER_NAME_MAX - 1 printable bytes. *)
GoodName(s) ==
  /\ s \in Seq(Printable)
  /\ Len(s) \in 1 .. USER_NAME_MAX - 1

ASSUME DefaultsAssumption == GoodName(DefaultName) /\ GoodName(DefaultHost)
ASSUME TypedAssumption == Typed \subseteq Seq(Byte \ {NUL, NEWLINE})
ASSUME MaxEditsAssumption == MaxEdits \in Nat

VARIABLES
  uname, uhost,   \* the buffers "name" and "host"
  image,          \* the image on the disk: [saved, nodes, current]
  present,        \* ata_present()
  edits,          \* commands counted so far, up to MaxEdits
  atSave,         \* auxiliary: the names when the last save said it worked
  confOK          \* auxiliary: that save's user_save worked too

confvars == <<uname, uhost, image, present, atSave, confOK>>
vars == <<nodes, current, ret, uname, uhost, image, present, edits, atSave,
          confOK>>

-----------------------------------------------------------------------------
(* Helpers of user.c *)

Cut(s) == SubSeq(s, 1, Min({Len(s), USER_NAME_MAX - 1}))

Accepts(value) ==
  value # <<>> /\ \A k \in 1 .. Len(value) : value[k] \notin Blank

(* Mutant: the copy is not bounded by the buffer. *)
set_field_Uncut(field, value) == IF Accepts(value) THEN value ELSE field

(* The new value of a field: a value that is refused leaves it alone. *)
set_field(field, value) == IF Accepts(value) THEN Cut(value) ELSE field

(* Mutant: the user is left at the root. *)
user_save_StaysAtRoot(n, c, name, host) ==
  LET top     == fish_chdir(n, c, "/").current
      created == fish_create(n, top, CONFIG_FILE).nodes
      written == fish_write(created, top, CONFIG_FILE,
                            name \o <<NEWLINE>> \o host \o <<NEWLINE>>)
  IN  [nodes |-> written.nodes, current |-> top,
       ok |-> written.ret = FISH_OK]

(* The nodes after user_save, whether the file was written, and the        *)
(* directory the user is left in.                                          *)
user_save(n, c, name, host) ==
  LET top     == fish_chdir(n, c, "/").current
      created == fish_create(n, top, CONFIG_FILE).nodes
      written == fish_write(created, top, CONFIG_FILE,
                            name \o <<NEWLINE>> \o host \o <<NEWLINE>>)
  IN  [nodes   |-> written.nodes,
       current |-> fish_restore_cwd(written.nodes, fish_save_cwd(c)),
       ok      |-> written.ret = FISH_OK]

(* Where the first line of a text ends: its newline, or past its last byte. *)
LineEnd(text) ==
  Min({k \in 1 .. Len(text) : text[k] = NEWLINE} \cup {Len(text) + 1})

FirstLine(text) == SubSeq(text, 1, LineEnd(text) - 1)

AfterFirstLine(text) == SubSeq(text, LineEnd(text) + 1, Len(text))

(* Mutant: the file is looked up in the current directory. *)
user_load_NoChdir(n, c, name, host) ==
  LET file == fish_read(n, c, CONFIG_FILE)
      rest == AfterFirstLine(file.text)
  IN  [uname   |-> IF file.found
                     THEN set_field(name, Cut(FirstLine(file.text))) ELSE name,
       uhost   |-> IF file.found
                     THEN set_field(host, Cut(FirstLine(rest))) ELSE host,
       current |-> c]

(* The names user_load leaves, given those in place: line 0 and line 1 of  *)
(* the file, each cut to the buffer before it is judged.  (The third value *)
(* is the user's directory.)                                               *)
user_load(n, c, name, host) ==
  LET top  == fish_chdir(n, c, "/").current
      file == fish_read(n, top, CONFIG_FILE)
      rest == AfterFirstLine(file.text)
  IN  [uname   |-> IF file.found
                     THEN set_field(name, Cut(FirstLine(file.text))) ELSE name,
       uhost   |-> IF file.found
                     THEN set_field(host, Cut(FirstLine(rest))) ELSE host,
       current |-> fish_restore_cwd(n, fish_save_cwd(c))]

-----------------------------------------------------------------------------
(* Shell commands *)

SaveNames(n, c, name, host) ==
  LET s == user_save(n, c, name, host) IN
  /\ uname' = name /\ uhost' = host
  /\ nodes' = s.nodes /\ current' = s.current

Edit == edits < MaxEdits /\ edits' = edits + 1

cmd_user(arg) ==
  /\ Accepts(arg) /\ Edit
  /\ SaveNames(nodes, current, set_field(uname, arg), uhost)
  /\ UNCHANGED <<ret, image, present, atSave, confOK>>

cmd_hostname(arg) ==
  /\ Accepts(arg) /\ Edit
  /\ SaveNames(nodes, current, uname, set_field(uhost, arg))
  /\ UNCHANGED <<ret, image, present, atSave, confOK>>

(* fish_save as one step. *)
WriteImage(n, c) ==
  /\ ret' = IF present = 1 THEN FISH_OK ELSE FISH_ERR_NODISK
  /\ image' = IF present = 1
                THEN [saved |-> 1, nodes |-> n, current |-> c] ELSE image

(* user_save's result is not looked at. *)
cmd_save ==
  /\ SaveNames(nodes, current, uname, uhost)
  /\ WriteImage(nodes', current')
  /\ atSave' = IF present = 1 THEN <<uname, uhost>> ELSE atSave
  /\ confOK' = IF present = 1
                 THEN user_save(nodes, current, uname, uhost).ok ELSE confOK
  /\ UNCHANGED <<present, edits>>

cmd_format ==
  /\ nodes' = fish_init.nodes /\ current' = fish_init.current
  /\ WriteImage(nodes', current')
  /\ atSave' = IF present = 1 THEN <<DefaultName, DefaultHost>> ELSE atSave
  /\ confOK' = IF present = 1 THEN TRUE ELSE confOK
  /\ UNCHANGED <<uname, uhost, present, edits>>

(* fish_load as one step; the names in memory stay as they are. *)
cmd_load ==
  /\ \/ present = 0 /\ ret' = FISH_ERR_NODISK /\ UNCHANGED <<nodes, current>>
     \/ /\ present = 1 /\ image.saved = 0
        /\ ret' = FISH_ERR_FORMAT
        /\ UNCHANGED <<nodes, current>>
     \/ /\ present = 1 /\ image.saved = 1
        /\ ret' = FISH_OK
        /\ nodes' = image.nodes
        /\ current' = fish_restore_cwd(image.nodes, image.current)
  /\ UNCHANGED <<confvars, edits>>

Command ==
  /\ Next
  /\ \/ nodes' = nodes /\ UNCHANGED edits
     \/ nodes' # nodes /\ Edit
  /\ UNCHANGED confvars

(* Power off or reboot at the prompt, then kernel_main: user_init,         *)
(* fish_init and, if there is a disk with an image, fish_load and          *)
(* user_load.                                                              *)
Boot ==
  LET c == fish_restore_cwd(image.nodes, image.current)
      l == user_load(image.nodes, c, DefaultName, DefaultHost)
  IN
  /\ present' \in {0, 1}
  /\ \/ /\ present' = 1 /\ image.saved = 1
        /\ nodes' = image.nodes /\ current' = l.current
        /\ uname' = l.uname /\ uhost' = l.uhost
     \/ /\ present' = 0 \/ image.saved = 0
        /\ nodes' = fish_init.nodes /\ current' = fish_init.current
        /\ uname' = DefaultName /\ uhost' = DefaultHost
  /\ ret' = FISH_OK
  /\ UNCHANGED <<image, edits, atSave, confOK>>

ConfInit ==
  /\ Init
  /\ uname = DefaultName /\ uhost = DefaultHost
  /\ image = [saved |-> 0, nodes |-> fish_init.nodes, current |-> 0]
  /\ present \in {0, 1} /\ edits = 0
  /\ atSave = <<DefaultName, DefaultHost>> /\ confOK = TRUE

ConfNext ==
  \/ \E arg \in Typed : cmd_user(arg) \/ cmd_hostname(arg)
  \/ cmd_save
  \/ cmd_format
  \/ cmd_load
  \/ Command
  \/ Boot

ConfSpec == ConfInit /\ [][ConfNext]_vars

-----------------------------------------------------------------------------
(* Properties *)

(* Memory and image hold nodes, and the two buffers and their last saved   *)
(* values hold bytes.                                                      *)
ConfTypeOK ==
  /\ TypeOK
  /\ uname \in Seq(Byte) /\ uhost \in Seq(Byte)
  /\ image \in [saved : {0, 1}, nodes : [Node -> NodeRecord], current : Node]
  /\ present \in {0, 1}
  /\ edits \in 0 .. MaxEdits
  /\ atSave \in Seq(Byte) \X Seq(Byte)
  /\ confOK \in BOOLEAN

(* The prompt is always readable (user.c: "those would make the prompt     *)
(* unreadable"): whatever is typed, and whatever a user wrote into ys.conf *)
(* before a reboot, both names are good names.                             *)
NamesReadable == GoodName(uname) /\ GoodName(uhost)

(* user_save leaves through "/" and comes back: the commands that call it  *)
(* leave the user where he was, keep a tree a tree, and touch no file but  *)
(* ys.conf at the root.                                                    *)
UserSaveTouchesOnlyConf ==
  LET s == user_save(nodes, current, uname, uhost) IN
  /\ s.current = current
  /\ TreeOK(s.nodes, s.current)
  /\ \A i \in Node : nodes[i] # s.nodes[i] =>
       s.nodes[i].parent = 0 /\ s.nodes[i].name = CONFIG_FILE

(* Names that were saved come back at the next boot with a disk, when the  *)
(* save could write ys.conf: no rm, write, load or format of what is in    *)
(* memory changes that.                                                    *)
WrittenNamesComeBack ==
  [][Boot /\ present' = 1 /\ confOK => <<uname', uhost'>> = atSave]_vars

(* user.c: the names "survive a reboot once the filesystem itself has been *)
(* saved".                                                                 *)
SavedNamesSurvive ==
  [][Boot /\ present' = 1 => <<uname', uhost'>> = atSave]_vars
=============================================================================
