------------------------------- MODULE Fish --------------------------------
(***************************************************************************)
(* The Fish filesystem in memory (fs/fish.c): a tree held in one fixed     *)
(* array of nodes that refer to their parent by index, and the index of    *)
(* the current directory.                                                  *)
(*                                                                         *)
(* Every API function is an operator on (n, c) = (node array, current      *)
(* directory) that returns an Outcome: the state it leaves and its return  *)
(* code.  The calls of fish.c that other components make in one go         *)
(* (kernel/user.c) are compositions of these operators; the actions below  *)
(* are the shell commands (kernel/shell.c) that change the tree.           *)
(*                                                                         *)
(* Abstractions.  A name is a value that can only be compared; ValidNames  *)
(* are the names valid_name() accepts and BadNames the ones it refuses     *)
(* (too long, a slash, a space).  A byte is a value too.  Flags are the    *)
(* integers 0 and 1, as in the code.                                       *)
(***************************************************************************)
EXTENDS FishCodes, Sequences, FiniteSetsExt

CONSTANTS
  MAX_NODES,   \* FISH_MAX_NODES, slots in the node array
  FILE_MAX,    \* FISH_FILE_MAX, bytes in a node's data
  ValidNames,  \* names valid_name() accepts
  BadNames,    \* other names a user may type
  Byte,        \* what a byte of a file may hold
  NUL,         \* the zero byte left by memset
  Texts        \* the texts given to write and append

ASSUME SizesAssumption == MAX_NODES \in Nat \ {0} /\ FILE_MAX \in Nat
ASSUME NamesAssumption ==
  /\ {"", ".", "..", "/"} \cap ValidNames = {}
  /\ BadNames \cap ValidNames = {}
ASSUME ByteAssumption == NUL \in Byte
ASSUME TextsAssumption == Texts \subseteq Seq(Byte \ {NUL})

VARIABLES
  nodes,       \* nodes[i]: the struct node in slot i
  current,     \* index of the current directory
  ret          \* return code of the last API call

fishvars == <<nodes, current, ret>>

-----------------------------------------------------------------------------
(* struct node and the array of them *)

Node == 0 .. MAX_NODES - 1

NodeRecord ==
  [name   : ValidNames \cup {"", "/"},
   used   : {0, 1},
   is_dir : {0, 1},
   parent : -1 .. MAX_NODES - 1,
   size   : 0 .. FILE_MAX,
   data   : [1 .. FILE_MAX -> Byte]]

(* What memset(nodes, 0, ...) leaves in a slot. *)
ZeroNode ==
  [name |-> "", used |-> 0, is_dir |-> 0, parent |-> 0, size |-> 0,
   data |-> [k \in 1 .. FILE_MAX |-> NUL]]

RootNode ==
  [name |-> "/", used |-> 1, is_dir |-> 1, parent |-> -1, size |-> 0,
   data |-> ZeroNode.data]

InitNodes == [i \in Node |-> IF i = 0 THEN RootNode ELSE ZeroNode]

Used(n) == {i \in Node : n[i].used = 1}

Dirs(n) == {i \in Used(n) : n[i].is_dir = 1}

Children(n, d) == {i \in Used(n) : n[i].parent = d}

-----------------------------------------------------------------------------
(* Helpers of fish.c *)

Outcome(n, c, code) == [nodes |-> n, current |-> c, ret |-> code]

valid_name(name) == name \in ValidNames

(* The loops return the first slot that qualifies, or -1. *)
FirstOf(S) == IF S = {} THEN -1 ELSE Min(S)

find_child(n, parent, name) ==
  FirstOf({i \in Children(n, parent) : n[i].name = name})

allocate(n) == FirstOf({i \in Node \ {0} : n[i].used = 0})

(* Mutant: the size of the slot's last file is not reset. *)
make_node_KeepsSize(n, c, name, is_dir) ==
  LET index == allocate(n) IN
  IF ~valid_name(name) THEN Outcome(n, c, FISH_ERR_NAME)
  ELSE IF find_child(n, c, name) >= 0 THEN Outcome(n, c, FISH_ERR_EXISTS)
  ELSE IF index < 0 THEN Outcome(n, c, FISH_ERR_FULL)
  ELSE Outcome([n EXCEPT ![index] = [name |-> name, used |-> 1,
                                     is_dir |-> is_dir, parent |-> c,
                                     size |-> @.size, data |-> @.data]],
               c, FISH_OK)

(* The slot keeps the data of the file that was there before. *)
make_node(n, c, name, is_dir) ==
  LET index == allocate(n) IN
  IF ~valid_name(name) THEN Outcome(n, c, FISH_ERR_NAME)
  ELSE IF find_child(n, c, name) >= 0 THEN Outcome(n, c, FISH_ERR_EXISTS)
  ELSE IF index < 0 THEN Outcome(n, c, FISH_ERR_FULL)
  ELSE Outcome([n EXCEPT ![index] = [name |-> name, used |-> 1,
                                     is_dir |-> is_dir, parent |-> c,
                                     size |-> 0, data |-> @.data]],
               c, FISH_OK)

(* memcpy of text into data after the first "at" bytes. *)
Store(data, at, text) ==
  [k \in 1 .. FILE_MAX |->
     IF k > at /\ k <= at + Len(text) THEN text[k - at] ELSE data[k]]

-----------------------------------------------------------------------------
(* Public API *)

fish_init == Outcome(InitNodes, 0, FISH_OK)

fish_mkdir(n, c, name) == make_node(n, c, name, 1)

fish_create(n, c, name) == make_node(n, c, name, 0)

fish_chdir(n, c, name) ==
  LET index == find_child(n, c, name) IN
  IF name = ""       THEN Outcome(n, c, FISH_ERR_NOENT)
  ELSE IF name = "/" THEN Outcome(n, 0, FISH_OK)
  ELSE IF name = "." THEN Outcome(n, c, FISH_OK)
  ELSE IF name = ".."
         THEN Outcome(n, IF n[c].parent >= 0 THEN n[c].parent ELSE c, FISH_OK)
  ELSE IF index < 0             THEN Outcome(n, c, FISH_ERR_NOENT)
  ELSE IF n[index].is_dir = 0   THEN Outcome(n, c, FISH_ERR_NOTDIR)
  ELSE Outcome(n, index, FISH_OK)

(* Mutant: a directory is removed although it is not empty. *)
fish_remove_NonEmpty(n, c, name) ==
  LET index == find_child(n, c, name) IN
  IF index < 0 THEN Outcome(n, c, FISH_ERR_NOENT)
  ELSE Outcome([n EXCEPT ![index].used = 0], c, FISH_OK)

fish_remove(n, c, name) ==
  LET index == find_child(n, c, name) IN
  IF index < 0 THEN Outcome(n, c, FISH_ERR_NOENT)
  ELSE IF n[index].is_dir = 1 /\ Children(n, index) # {}
         THEN Outcome(n, c, FISH_ERR_NOTEMPTY)
  ELSE Outcome([n EXCEPT ![index].used = 0], c, FISH_OK)

(* Mutant: one byte too many is accepted. *)
PutText_OffByOne(n, c, name, text, appending) ==
  LET index == find_child(n, c, name)
      at    == IF appending THEN n[index].size ELSE 0
  IN
  IF index < 0                THEN Outcome(n, c, FISH_ERR_NOENT)
  ELSE IF n[index].is_dir = 1 THEN Outcome(n, c, FISH_ERR_ISDIR)
  ELSE IF at + Len(text) > FILE_MAX + 1 THEN Outcome(n, c, FISH_ERR_SPACE)
  ELSE Outcome([n EXCEPT ![index].data = Store(@, at, text),
                         ![index].size = at + Len(text)],
               c, FISH_OK)

(* Mutant: the last byte of a file cannot be used. *)
PutText_TooStrict(n, c, name, text, appending) ==
  LET index == find_child(n, c, name)
      at    == IF appending THEN n[index].size ELSE 0
  IN
  IF index < 0                THEN Outcome(n, c, FISH_ERR_NOENT)
  ELSE IF n[index].is_dir = 1 THEN Outcome(n, c, FISH_ERR_ISDIR)
  ELSE IF at + Len(text) >= FILE_MAX THEN Outcome(n, c, FISH_ERR_SPACE)
  ELSE Outcome([n EXCEPT ![index].data = Store(@, at, text),
                         ![index].size = at + Len(text)],
               c, FISH_OK)

(* fish_write stores at the start of the file, fish_append at its end. *)
PutText(n, c, name, text, appending) ==
  LET index == find_child(n, c, name)
      at    == IF appending THEN n[index].size ELSE 0
  IN
  IF index < 0                THEN Outcome(n, c, FISH_ERR_NOENT)
  ELSE IF n[index].is_dir = 1 THEN Outcome(n, c, FISH_ERR_ISDIR)
  ELSE IF at + Len(text) > FILE_MAX THEN Outcome(n, c, FISH_ERR_SPACE)
  ELSE Outcome([n EXCEPT ![index].data = Store(@, at, text),
                         ![index].size = at + Len(text)],
               c, FISH_OK)

fish_write(n, c, name, text) == PutText(n, c, name, text, FALSE)

fish_append(n, c, name, text) == PutText(n, c, name, text, TRUE)

(* The bytes a reader is given: the first size bytes of data. *)
Contents(node) == [k \in 1 .. node.size |-> node.data[k]]

(* A missing file and a directory both read as a null pointer. *)
fish_read(n, c, name) ==
  LET index == find_child(n, c, name) IN
  IF index < 0 THEN [found |-> FALSE, text |-> <<>>]
  ELSE IF n[index].is_dir = 1 THEN [found |-> FALSE, text |-> <<>>]
  ELSE [found |-> TRUE, text |-> Contents(n[index])]

fish_save_cwd(c) == c

fish_restore_cwd(n, handle) ==
  IF handle \in Dirs(n) THEN handle ELSE 0

-----------------------------------------------------------------------------
(* Shell commands.  "" stands for a missing argument: cd then goes to the  *)
(* root and the others print their usage.  (write_common cuts the name out *)
(* of its argument; here the cut is made.)                                 *)

AnyName == ValidNames \cup BadNames \cup {"", ".", "..", "/"}

Return(o) ==
  /\ nodes'   = o.nodes
  /\ current' = o.current
  /\ ret'     = o.ret

cmd_mkdir(arg) == arg # "" /\ Return(fish_mkdir(nodes, current, arg))

cmd_touch(arg) == arg # "" /\ Return(fish_create(nodes, current, arg))

cmd_rm(arg) == arg # "" /\ Return(fish_remove(nodes, current, arg))

cmd_cd(arg) ==
  Return(fish_chdir(nodes, current, IF arg = "" THEN "/" ELSE arg))

cmd_write(name, text) ==
  name # "" /\ Return(fish_write(nodes, current, name, text))

cmd_append(name, text) ==
  name # "" /\ Return(fish_append(nodes, current, name, text))

Init ==
  /\ nodes   = fish_init.nodes
  /\ current = fish_init.current
  /\ ret     = FISH_OK

Next ==
  \E name \in AnyName :
    \/ cmd_mkdir(name)
    \/ cmd_touch(name)
    \/ cmd_rm(name)
    \/ cmd_cd(name)
    \/ \E text \in Texts : cmd_write(name, text) \/ cmd_append(name, text)

Spec == Init /\ [][Next]_fishvars

-----------------------------------------------------------------------------
(* Properties *)

(* Every slot holds a struct node whose size fits its data, and the        *)
(* current directory is a slot.                                            *)
TypeOK ==
  /\ nodes \in [Node -> NodeRecord]
  /\ current \in Node
  /\ ret \in FISH_ERR_FORMAT .. FISH_OK

(* Slot 0 is the root directory (fish.c: "never freed"). *)
RootOK(n) == n[0].used = 1 /\ n[0].is_dir = 1 /\ n[0].parent = -1

(* What fish_remove's emptiness test is for: no node is left in a          *)
(* directory that is gone, or in a file.                                   *)
NoneStranded(n) == \A i \in Used(n) \ {0} : n[i].parent \in Dirs(n)

(* A name means one node: find_child may stop at the first match. *)
SiblingsDistinct(n) ==
  \A i, j \in Used(n) :
    n[i].parent = n[j].parent /\ n[i].name = n[j].name => i = j

(* No set of nodes below the root is closed under "parent": walking up     *)
(* always leaves it, so every node is reached from the root.               *)
Acyclic(n) ==
  \A S \in SUBSET (Used(n) \ {0}) :
    S # {} => \E i \in S : n[i].parent \notin S

TreeOK(n, c) ==
  /\ RootOK(n)
  /\ c \in Dirs(n)
  /\ NoneStranded(n)
  /\ SiblingsDistinct(n)
  /\ Acyclic(n)

(* The node array is one tree rooted at slot 0 and the user stands in one  *)
(* of its directories, whatever sequence of calls led here.                *)
TreeInv == TreeOK(nodes, current)
=============================================================================
