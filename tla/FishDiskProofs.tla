-------------------------- MODULE FishDiskProofs ---------------------------
(***************************************************************************)
(* Proofs about module FishDisk, for every number of nodes, file size and  *)
(* sector size: what saves, loads, failing sectors and reboots, in any     *)
(* order, do to the tree in memory and to the image.                       *)
(*                                                                         *)
(* The lemmas of FishProofs carry a sound tree through the commands.  A    *)
(* tree read from a torn image is not one, and may be worked on and saved  *)
(* again; all that is known of it is its type and the state of slot 0, so  *)
(* there is a second lemma per API function about these.                   *)
(***************************************************************************)
EXTENDS FishDisk, FishProofs

USE DEF FISH_OK, FISH_ERR_EXISTS, FISH_ERR_NOTDIR, FISH_ERR_NOENT,
        FISH_ERR_FULL, FISH_ERR_NAME, FISH_ERR_ISDIR, FISH_ERR_NOTEMPTY,
        FISH_ERR_SPACE, FISH_ERR_NODISK, FISH_ERR_IO, FISH_ERR_FORMAT

Nodes == [Node -> NodeRecord]

Codes == FISH_ERR_FORMAT .. FISH_OK

-----------------------------------------------------------------------------
(* The layout of the image *)

(* The sector that holds a cell of node i. *)
SectorOf(i, cell) == (i * NODE_CELLS + cell) \div SECTOR_CELLS

(* The arrays a and b agree in every cell before sector s. *)
AgreeBelow(s, a, b) ==
  \A i \in Node :
    /\ SectorOf(i, 0) < s => a[i].name = b[i].name
    /\ SectorOf(i, 1) < s => /\ a[i].used = b[i].used
                             /\ a[i].is_dir = b[i].is_dir
                             /\ a[i].parent = b[i].parent
                             /\ a[i].size = b[i].size
    /\ \A k \in 1 .. FILE_MAX :
         SectorOf(i, 1 + k) < s => a[i].data[k] = b[i].data[k]

(* The array fills the sectors: each cell is in one of them. *)
LEMMA SectorInRange ==
  ASSUME NEW i \in Node, NEW cell \in 0 .. NODE_CELLS - 1
  PROVE  SectorOf(i, cell) \in 0 .. NODE_SECTORS - 1
<1>1. /\ MAX_NODES \in Nat \ {0} /\ NODE_CELLS \in Nat /\ NODE_CELLS >= 2
      /\ i \in Nat /\ i <= MAX_NODES - 1 /\ SECTOR_CELLS \in Nat \ {0}
  BY SizesAssumption, SectorAssumption DEF Node, NODE_CELLS
<1> DEFINE x == i * NODE_CELLS + cell
           t == MAX_NODES * NODE_CELLS
<1>2. x \in Nat /\ t \in Nat
  BY <1>1
<1>3. i * NODE_CELLS <= (MAX_NODES - 1) * NODE_CELLS
  BY <1>1
<1>4. (MAX_NODES - 1) * NODE_CELLS = t - NODE_CELLS
  BY <1>1
<1>5. x < t
  <2> DEFINE p == i * NODE_CELLS
             q == (MAX_NODES - 1) * NODE_CELLS
  <2>1. p \in Nat /\ q \in Int
    BY <1>1
  <2> HIDE DEF p, q, t
  <2> QED
    BY <1>1, <1>2, <1>3, <1>4, <2>1 DEF p, q
<1>6. SectorOf(i, cell) = x \div SECTOR_CELLS
  BY DEF SectorOf
<1>7. NODE_SECTORS = (t + SECTOR_CELLS - 1) \div SECTOR_CELLS
  BY DEF NODE_SECTORS
<1> HIDE DEF x, t
<1>8. /\ x \div SECTOR_CELLS \in Nat
      /\ x \div SECTOR_CELLS < (t + SECTOR_CELLS - 1) \div SECTOR_CELLS
      /\ (t + SECTOR_CELLS - 1) \div SECTOR_CELLS \in Nat
  <2> DEFINE d == x \div SECTOR_CELLS
             e == (t + SECTOR_CELLS - 1) \div SECTOR_CELLS
  <2>1. d \in Nat /\ d * SECTOR_CELLS <= x
    BY <1>1, <1>2
  <2>2. e \in Nat /\ t <= e * SECTOR_CELLS
    BY <1>1, <1>2
  <2> HIDE DEF d, e
  <2>3. d * SECTOR_CELLS < e * SECTOR_CELLS
    BY <1>1, <1>2, <1>5, <2>1, <2>2
  <2>4. d < e
    BY <1>1, <2>1, <2>2, <2>3
  <2> QED
    BY <2>1, <2>2, <2>4 DEF d, e
<1> QED
  BY <1>6, <1>7, <1>8

(* There is at least one sector to copy. *)
LEMMA SectorsPositive == NODE_SECTORS \in Nat \ {0}
<1>1. 0 \in Node /\ 0 \in 0 .. NODE_CELLS - 1
  BY SizesAssumption DEF Node, NODE_CELLS
<1>2. SectorOf(0, 0) \in 0 .. NODE_SECTORS - 1
  BY <1>1, SectorInRange
<1>3. NODE_SECTORS \in Int
  <2>1. MAX_NODES * NODE_CELLS \in Int
    BY SizesAssumption DEF NODE_CELLS
  <2> QED
    BY <2>1, SectorAssumption DEF NODE_SECTORS
<1> QED
  BY <1>2, <1>3

LEMMA SectorOfInt ==
  ASSUME NEW i \in Node, NEW cell \in Nat
  PROVE  SectorOf(i, cell) \in Int
<1>1. i * NODE_CELLS \in Int
  BY SizesAssumption DEF NODE_CELLS, Node
<1> QED
  BY <1>1, SectorAssumption DEF SectorOf

(* Copying a sector yields an array of nodes. *)
LEMMA CopyType ==
  ASSUME NEW from \in Nodes, NEW to \in Nodes, NEW s
  PROVE  CopySector(s, from, to) \in Nodes
<1> SUFFICES ASSUME NEW i \in Node
             PROVE  CopySector(s, from, to)[i] \in NodeRecord
  BY DEF Nodes, CopySector
<1>1. from[i] \in NodeRecord /\ to[i] \in NodeRecord
  BY DEF Nodes
<1> QED
  BY <1>1 DEF CopySector, NodeRecord

(* Copying sector s carries the agreement one sector further. *)
LEMMA CopyAgrees ==
  ASSUME NEW from \in Nodes, NEW to \in Nodes, NEW s \in Nat,
         AgreeBelow(s, from, to)
  PROVE  AgreeBelow(s + 1, from, CopySector(s, from, to))
<1> DEFINE m == CopySector(s, from, to)
<1> SUFFICES ASSUME NEW i \in Node
             PROVE  /\ SectorOf(i, 0) < s + 1 => from[i].name = m[i].name
                    /\ SectorOf(i, 1) < s + 1 => /\ from[i].used = m[i].used
                                                 /\ from[i].is_dir = m[i].is_dir
                                                 /\ from[i].parent = m[i].parent
                                                 /\ from[i].size = m[i].size
                    /\ \A k \in 1 .. FILE_MAX :
                         SectorOf(i, 1 + k) < s + 1
                           => from[i].data[k] = m[i].data[k]
  BY DEF AgreeBelow
<1>1. \A cell \in Nat : /\ SectorOf(i, cell) \in Int
                        /\ InSector(i, cell, s) <=> SectorOf(i, cell) = s
  BY SectorOfInt DEF InSector, SectorOf
<1>2. SectorOf(i, 0) < s + 1 => from[i].name = m[i].name
  BY <1>1 DEF AgreeBelow, CopySector
<1>3. SectorOf(i, 1) < s + 1 => /\ from[i].used = m[i].used
                                /\ from[i].is_dir = m[i].is_dir
                                /\ from[i].parent = m[i].parent
                                /\ from[i].size = m[i].size
  BY <1>1 DEF AgreeBelow, CopySector
<1>4. ASSUME NEW k \in 1 .. FILE_MAX, SectorOf(i, 1 + k) < s + 1
      PROVE  from[i].data[k] = m[i].data[k]
  <2>1. m[i].data[k] = IF InSector(i, 1 + k, s) THEN from[i].data[k]
                                                ELSE to[i].data[k]
    BY DEF CopySector
  <2>2. 1 + k \in Nat
    BY SizesAssumption
  <2>3. SectorOf(i, 1 + k) = s \/ SectorOf(i, 1 + k) < s
    BY <1>1, <1>4, <2>2
  <2> QED
    BY <1>1, <2>1, <2>2, <2>3 DEF AgreeBelow
<1> QED
  BY <1>2, <1>3, <1>4

(* Nodes with equal fields are equal. *)
LEMMA SameFields ==
  ASSUME NEW r \in NodeRecord, NEW q \in NodeRecord,
         r.name = q.name, r.used = q.used, r.is_dir = q.is_dir,
         r.parent = q.parent, r.size = q.size,
         \A k \in 1 .. FILE_MAX : r.data[k] = q.data[k]
  PROVE  r = q
<1>1. r.data = q.data
  <2> DEFINE f == r.data
             g == q.data
             S == 1 .. FILE_MAX
  <2>1. f \in [S -> Byte] /\ g \in [S -> Byte] /\ \A x \in S : f[x] = g[x]
    BY DEF NodeRecord
  <2> HIDE DEF f, g, S
  <2>2. f = g
    BY <2>1
  <2> QED
    BY <2>2 DEF f, g
<1>2. r = [name |-> r.name, used |-> r.used, is_dir |-> r.is_dir,
           parent |-> r.parent, size |-> r.size, data |-> r.data]
  BY DEF NodeRecord
<1>3. q = [name |-> q.name, used |-> q.used, is_dir |-> q.is_dir,
           parent |-> q.parent, size |-> q.size, data |-> q.data]
  BY DEF NodeRecord
<1> QED
  BY <1>1, <1>2, <1>3, Zenon

(* Arrays that agree in every sector are equal. *)
LEMMA AgreeEverywhere ==
  ASSUME NEW a \in Nodes, NEW b \in Nodes, AgreeBelow(NODE_SECTORS, a, b)
  PROVE  a = b
<1> SUFFICES ASSUME NEW i \in Node PROVE a[i] = b[i]
  BY DEF Nodes
<1>1. a[i] \in NodeRecord /\ b[i] \in NodeRecord
  BY DEF Nodes
<1>2. \A cell \in 0 .. NODE_CELLS - 1 : SectorOf(i, cell) < NODE_SECTORS
  BY SectorInRange, SectorsPositive
<1>3. /\ 0 \in 0 .. NODE_CELLS - 1 /\ 1 \in 0 .. NODE_CELLS - 1
      /\ \A k \in 1 .. FILE_MAX : 1 + k \in 0 .. NODE_CELLS - 1
  BY SizesAssumption DEF NODE_CELLS
<1>4. /\ a[i].name = b[i].name /\ a[i].used = b[i].used
      /\ a[i].is_dir = b[i].is_dir /\ a[i].parent = b[i].parent
      /\ a[i].size = b[i].size
  BY <1>2, <1>3 DEF AgreeBelow
<1>5. \A k \in 1 .. FILE_MAX : a[i].data[k] = b[i].data[k]
  BY <1>2, <1>3 DEF AgreeBelow
<1> QED
  BY <1>1, <1>4, <1>5, SameFields

(* Before the first sector nothing needs to agree. *)
LEMMA AgreeBelowZero ==
  ASSUME NEW a, NEW b
  PROVE  AgreeBelow(0, a, b)
<1> SUFFICES ASSUME NEW i \in Node, NEW cell \in 0 .. NODE_CELLS - 1
             PROVE  ~(SectorOf(i, cell) < 0)
  BY SizesAssumption DEF AgreeBelow, NODE_CELLS
<1> QED
  BY SectorInRange, SectorsPositive

-----------------------------------------------------------------------------
(* The inductive invariant *)

(* If slot 0 is in use it is the root.  It is not in use on a blank disk,  *)
(* and in memory after a load that was cut short.                          *)
RootSlot(n) == n[0].used = 1 => n[0].is_dir = 1 /\ n[0].parent = -1

SlotsInv == RootSlot(nodes) /\ RootSlot(disk.nodes)

(* The sectors behind the loop are copied, the superblock is written, and  *)
(* an image that is being written is not called whole.                     *)
LoopInv ==
  /\ pc = "save" => /\ AgreeBelow(sector, nodes, disk.nodes)
                    /\ disk.sb = [valid |-> 1, current |-> current]
                    /\ ~whole
  /\ pc = "load" => /\ AgreeBelow(sector, disk.nodes, nodes)
                    /\ disk.sb.valid = 1
  /\ pc \notin {"save", "load"} => sector = 0

(* The tree in memory has not been touched by a load. *)
Untouched == pc # "load" \/ sector = 0

(* What is in memory and on the disk is what origin and whole say. *)
TreesInv ==
  /\ Untouched /\ origin # "partial" => 0 \in Dirs(nodes)
  /\ Untouched /\ origin = "sound" => TreeOK(nodes, current)
  /\ whole /\ disk.sb.valid = 1 => TreeOK(disk.nodes, disk.sb.current)

IInv == DiskTypeOK /\ SlotsInv /\ LoopInv /\ TreesInv

-----------------------------------------------------------------------------
(* The API on an array that need not be a tree *)

(* The call leaves an array of nodes, a slot to stand in, and slot 0 in    *)
(* use, or not, as it was.                                                 *)
Calm(n, o) ==
  /\ o.nodes \in Nodes /\ o.current \in Node /\ o.ret \in Codes
  /\ o.nodes[0].used = n[0].used
  /\ o.nodes[0].is_dir = n[0].is_dir
  /\ o.nodes[0].parent = n[0].parent

LEMMA SlotZero == 0 \in Node
BY SizesAssumption DEF Node

LEMMA CalmUnchanged ==
  ASSUME NEW n \in Nodes, NEW c \in Node, NEW code \in Codes
  PROVE  Calm(n, Outcome(n, c, code))
BY DEF Calm, Outcome

(* A child of a directory is never slot 0. *)
LEMMA ChildNotRoot ==
  ASSUME NEW n \in Nodes, RootSlot(n), NEW c \in Node, NEW name,
         ~(find_child(n, c, name) < 0)
  PROVE  find_child(n, c, name) \in Node \ {0}
<1>1. find_child(n, c, name) \in Children(n, c)
  BY FindChild
<1>2. 0 \notin Children(n, c)
  BY SizesAssumption DEF Children, Used, RootSlot, Node
<1> QED
  BY <1>1, <1>2 DEF Children, Used

LEMMA MakeNodeCalm ==
  ASSUME NEW n \in Nodes, NEW c \in Node, NEW name, NEW is_dir \in {0, 1}
  PROVE  Calm(n, make_node(n, c, name, is_dir))
<1> DEFINE index == allocate(n)
           new   == [name |-> name, used |-> 1, is_dir |-> is_dir,
                     parent |-> c, size |-> 0, data |-> n[index].data]
           m     == [n EXCEPT ![index] = new]
<1>1. CASE \/ ~valid_name(name)
           \/ find_child(n, c, name) >= 0
           \/ index < 0
  BY <1>1, CalmUnchanged DEF make_node, Codes
<1>2. CASE /\ valid_name(name)
           /\ ~(find_child(n, c, name) >= 0)
           /\ ~(index < 0)
  <2>1. index \in Node \ {0}
    BY <1>2, Allocate
  <2> HIDE DEF index
  <2>2. new \in NodeRecord
    <3>1. c \in -1 .. MAX_NODES - 1 /\ 0 \in 0 .. FILE_MAX
      BY SizesAssumption DEF Node
    <3>2. n[index].data \in [1 .. FILE_MAX -> Byte]
      BY <2>1 DEF NodeRecord, Nodes
    <3> QED
      BY <1>2, <3>1, <3>2 DEF NodeRecord, valid_name
  <2> HIDE DEF new
  <2>3. m \in Nodes /\ m[0] = n[0]
    BY <2>1, <2>2, SlotZero DEF Nodes
  <2>4. make_node(n, c, name, is_dir) = Outcome(m, c, FISH_OK)
    BY <1>2 DEF make_node, m, index, new
  <2> HIDE DEF m
  <2> QED
    BY <2>3, <2>4 DEF Calm, Outcome, Codes
<1> QED
  BY <1>1, <1>2

LEMMA ChdirCalm ==
  ASSUME NEW n \in Nodes, NEW c \in Node, RootSlot(n), NEW name
  PROVE  Calm(n, fish_chdir(n, c, name))
<1> DEFINE index == find_child(n, c, name)
           up    == IF n[c].parent >= 0 THEN n[c].parent ELSE c
<1>1. up \in Node
  <2>1. n[c].parent \in -1 .. MAX_NODES - 1
    BY DEF Nodes, NodeRecord
  <2> QED
    BY <2>1, SizesAssumption DEF Node
<1>2. ~(index < 0) => index \in Node
  BY ChildNotRoot
<1> HIDE DEF up, index
<1>3. \/ fish_chdir(n, c, name) \in
           {Outcome(n, c, FISH_ERR_NOENT), Outcome(n, 0, FISH_OK),
            Outcome(n, c, FISH_OK), Outcome(n, up, FISH_OK),
            Outcome(n, c, FISH_ERR_NOTDIR)}
      \/ fish_chdir(n, c, name) = Outcome(n, index, FISH_OK) /\ ~(index < 0)
  BY DEF fish_chdir, up, index
<1> QED
  BY <1>1, <1>2, <1>3, SlotZero, CalmUnchanged DEF Codes

LEMMA RemoveCalm ==
  ASSUME NEW n \in Nodes, NEW c \in Node, RootSlot(n), NEW name
  PROVE  Calm(n, fish_remove(n, c, name))
<1> DEFINE index == find_child(n, c, name)
           m     == [n EXCEPT ![index].used = 0]
<1>1. CASE index < 0 \/ (n[index].is_dir = 1 /\ Children(n, index) # {})
  BY <1>1, CalmUnchanged DEF fish_remove, Codes
<1>2. CASE ~(index < 0) /\ ~(n[index].is_dir = 1 /\ Children(n, index) # {})
  <2>1. index \in Node \ {0}
    BY <1>2, ChildNotRoot
  <2>2. m \in Nodes /\ m[0] = n[0]
    BY <2>1, SlotZero DEF Nodes, NodeRecord
  <2>3. fish_remove(n, c, name) = Outcome(m, c, FISH_OK)
    BY <1>2 DEF fish_remove
  <2> HIDE DEF m
  <2> QED
    BY <2>2, <2>3 DEF Calm, Outcome, Codes
<1> QED
  BY <1>1, <1>2

LEMMA PutTextCalm ==
  ASSUME NEW n \in Nodes, NEW c \in Node, RootSlot(n), NEW name,
         NEW text \in Seq(Byte), NEW appending \in BOOLEAN
  PROVE  Calm(n, PutText(n, c, name, text, appending))
<1> DEFINE index == find_child(n, c, name)
           at    == IF appending THEN n[index].size ELSE 0
           m     == [n EXCEPT ![index].data = Store(@, at, text),
                              ![index].size = at + Len(text)]
<1>1. CASE \/ index < 0
           \/ n[index].is_dir = 1
           \/ at + Len(text) > FILE_MAX
  BY <1>1, CalmUnchanged DEF PutText, Codes
<1>2. CASE /\ ~(index < 0)
           /\ n[index].is_dir # 1
           /\ ~(at + Len(text) > FILE_MAX)
  <2>1. index \in Node \ {0}
    BY <1>2, ChildNotRoot
  <2> HIDE DEF index
  <2>2. n[index] \in NodeRecord
    BY <2>1 DEF Nodes
  <2>3. at \in Nat
    <3>1. n[index].size \in 0 .. FILE_MAX
      BY <2>2 DEF NodeRecord
    <3>2. n[index].size \in Nat
      BY <3>1, SizesAssumption
    <3> QED
      BY <3>2
  <2>4. at + Len(text) \in 0 .. FILE_MAX
    <3>1. Len(text) \in Nat
      OBVIOUS
    <3> HIDE DEF at
    <3> QED
      BY <1>2, <2>3, <3>1, SizesAssumption
  <2>5. Store(n[index].data, at, text) \in [1 .. FILE_MAX -> Byte]
    BY <2>2, <2>3, StoreType DEF NodeRecord
  <2> HIDE DEF at
  <2>6. m \in Nodes /\ m[0] = n[0]
    BY <2>1, <2>2, <2>4, <2>5, SlotZero DEF Nodes, NodeRecord
  <2>7. PutText(n, c, name, text, appending) = Outcome(m, c, FISH_OK)
    BY <1>2 DEF PutText, m, at, index
  <2> HIDE DEF m
  <2> QED
    BY <2>6, <2>7 DEF Calm, Outcome, Codes
<1> QED
  BY <1>1, <1>2

(* A shell command on any array whose slot 0 is the root or free. *)
LEMMA NextCalm ==
  ASSUME nodes \in Nodes, current \in Node, RootSlot(nodes), Next
  PROVE  /\ nodes' \in Nodes /\ current' \in Node /\ ret' \in Codes
         /\ RootSlot(nodes')
         /\ 0 \in Dirs(nodes) => 0 \in Dirs(nodes')
<1>1. ASSUME NEW o, Return(o), Calm(nodes, o)
      PROVE  /\ nodes' \in Nodes /\ current' \in Node /\ ret' \in Codes
             /\ RootSlot(nodes')
             /\ 0 \in Dirs(nodes) => 0 \in Dirs(nodes')
  BY <1>1 DEF Return, Calm, RootSlot, Dirs, Used
<1>2. PICK name \in AnyName :
        \/ cmd_mkdir(name) \/ cmd_touch(name) \/ cmd_rm(name) \/ cmd_cd(name)
        \/ \E text \in Texts : cmd_write(name, text) \/ cmd_append(name, text)
  BY DEF Next
<1>3. CASE cmd_mkdir(name) \/ cmd_touch(name)
  BY <1>1, <1>3, MakeNodeCalm DEF cmd_mkdir, cmd_touch, fish_mkdir, fish_create
<1>4. CASE cmd_rm(name)
  BY <1>1, <1>4, RemoveCalm DEF cmd_rm
<1>5. CASE cmd_cd(name)
  BY <1>1, <1>5, ChdirCalm DEF cmd_cd
<1>6. ASSUME NEW text \in Texts, cmd_write(name, text) \/ cmd_append(name, text)
      PROVE  /\ nodes' \in Nodes /\ current' \in Node /\ ret' \in Codes
             /\ RootSlot(nodes')
             /\ 0 \in Dirs(nodes) => 0 \in Dirs(nodes')
  <2>1. text \in Seq(Byte)
    BY TextsAssumption
  <2> QED
    BY <1>1, <1>6, <2>1, PutTextCalm
       DEF cmd_write, cmd_append, fish_write, fish_append
<1> QED
  BY <1>2, <1>3, <1>4, <1>5, <1>6

-----------------------------------------------------------------------------
(* The invariant is inductive *)

(* A tree has its root in slot 0. *)
LEMMA TreeHasRoot ==
  ASSUME NEW n, NEW c, TreeOK(n, c)
  PROVE  RootSlot(n) /\ 0 \in Dirs(n) /\ c \in Dirs(n)
BY SlotZero DEF TreeOK, RootOK, RootSlot, Dirs, Used

LEMMA FreshTree ==
  /\ fish_init.nodes \in Nodes /\ fish_init.current \in Node
  /\ RootSlot(fish_init.nodes) /\ 0 \in Dirs(fish_init.nodes)
  /\ TreeOK(fish_init.nodes, fish_init.current)
  /\ fish_init.ret = FISH_OK
<1>1. /\ fish_init.nodes \in Nodes /\ fish_init.current \in Node
      /\ TreeOK(fish_init.nodes, fish_init.current)
  BY FishInitSound DEF SoundOutcome, Sound, Nodes
<1> QED
  BY <1>1, TreeHasRoot DEF fish_init, Outcome

(* Slot 0 is not torn: a sector boundary never divides what RootSlot and   *)
(* Dirs read of a node, so slot 0 comes from one array or from the other.  *)
LEMMA CopyKeepsRootSlot ==
  ASSUME NEW from \in Nodes, NEW to \in Nodes, NEW s,
         RootSlot(from), RootSlot(to)
  PROVE  /\ RootSlot(CopySector(s, from, to))
         /\ 0 \in Dirs(from) /\ 0 \in Dirs(to)
              => 0 \in Dirs(CopySector(s, from, to))
BY SlotZero DEF CopySector, RootSlot, Dirs, Used

LEMMA InitIInv == DiskInit => IInv
<1> SUFFICES ASSUME DiskInit PROVE IInv
  OBVIOUS
<1> USE DEF DiskInit, Init
<1>1. BlankDisk \in [sb : SuperBlock, nodes : Nodes] /\ RootSlot(BlankDisk.nodes)
  <2>1. ZeroNode \in NodeRecord
    BY SizesAssumption, ByteAssumption DEF ZeroNode, NodeRecord
  <2>2. [i \in Node |-> ZeroNode] \in Nodes
    BY <2>1 DEF Nodes
  <2>3. [i \in Node |-> ZeroNode][0].used = 0
    BY SlotZero DEF ZeroNode
  <2> QED
    BY <2>2, <2>3, SlotZero DEF BlankDisk, SuperBlock, RootSlot
<1>2. DiskTypeOK
  BY <1>1, FreshTree, SectorsPositive, MaxEditsAssumption
     DEF DiskTypeOK, TypeOK, Nodes
<1>3. SlotsInv
  BY <1>1, FreshTree DEF SlotsInv
<1>4. LoopInv
  BY DEF LoopInv
<1>5. TreesInv
  BY FreshTree DEF TreesInv, BlankDisk
<1> QED
  BY <1>2, <1>3, <1>4, <1>5 DEF IInv

(* A shell command: at the prompt, on whatever tree is there. *)
LEMMA CommandStep == IInv /\ Command => IInv'
<1> SUFFICES ASSUME IInv, Command PROVE IInv'
  OBVIOUS
<1>1. /\ nodes \in Nodes /\ current \in Node /\ RootSlot(nodes)
      /\ ret \in Codes
  BY DEF IInv, DiskTypeOK, TypeOK, SlotsInv, Nodes, Codes
<1>2. /\ nodes' \in Nodes /\ current' \in Node /\ ret' \in Codes
      /\ RootSlot(nodes')
      /\ 0 \in Dirs(nodes) => 0 \in Dirs(nodes')
  BY <1>1, NextCalm DEF Command
<1>3. TreeOK(nodes, current) => TreeOK(nodes', current')
  <2> SUFFICES ASSUME TreeOK(nodes, current) PROVE TreeOK(nodes', current')
    OBVIOUS
  <2>1. Sound(nodes, current)
    BY <1>1 DEF Sound, Nodes
  <2>2. Sound(nodes, current)'
    BY <1>1, <2>1, NextSound DEF Command, Codes
  <2> QED
    BY <2>2 DEF Sound
<1>4. DiskTypeOK'
  BY <1>2, MaxEditsAssumption DEF IInv, DiskTypeOK, TypeOK, Nodes, Codes, Command
<1>5. SlotsInv' /\ LoopInv'
  BY <1>2 DEF IInv, SlotsInv, LoopInv, Command
<1>6. TreesInv'
  BY <1>2, <1>3 DEF IInv, TreesInv, Untouched, Command
<1> QED
  BY <1>4, <1>5, <1>6 DEF IInv

(* fish_save and format, before the first sector. *)
LEMMA StartSaveStep ==
  ASSUME IInv, pc = "shell", fish_save \/ cmd_format
  PROVE  IInv'
<1>1. /\ nodes' \in Nodes /\ current' \in Node /\ RootSlot(nodes')
      /\ edits' \in 0 .. MaxEdits
      /\ origin' \in {"sound", "torn", "partial"}
      /\ origin' # "partial" => 0 \in Dirs(nodes')
      /\ origin' = "sound" => TreeOK(nodes', current')
  <2>1. CASE fish_save
    BY <2>1 DEF fish_save, StartSave, IInv, DiskTypeOK, TypeOK, SlotsInv,
                Nodes, TreesInv, Untouched
  <2>2. CASE cmd_format
    BY <2>2, FreshTree, MaxEditsAssumption
       DEF cmd_format, StartSave, IInv, DiskTypeOK
  <2> QED
    BY <2>1, <2>2
<1>2. /\ UNCHANGED <<disk, present, whole>>
      /\ \/ pc' = "shell" /\ sector' = 0 /\ ret' = FISH_ERR_NODISK
         \/ pc' = "save_sb" /\ sector' = 0 /\ ret' = ret
  BY DEF fish_save, cmd_format, StartSave, Finish
<1>3. DiskTypeOK'
  BY <1>1, <1>2, SectorsPositive DEF IInv, DiskTypeOK, TypeOK, Nodes
<1>4. SlotsInv' /\ LoopInv'
  BY <1>1, <1>2 DEF IInv, SlotsInv, LoopInv
<1>5. TreesInv'
  BY <1>1, <1>2 DEF IInv, TreesInv, Untouched
<1> QED
  BY <1>3, <1>4, <1>5 DEF IInv

LEMMA SaveSuperblockStep ==
  ASSUME IInv, NEW o \in WriteOutcomes, SaveSuperblock(o)
  PROVE  IInv'
<1>1. UNCHANGED <<nodes, current, present, edits, origin>>
  BY DEF SaveSuperblock
<1>2. CASE o = "error"
  <2>1. pc' = "shell" /\ sector' = 0 /\ ret' = FISH_ERR_IO
        /\ UNCHANGED <<disk, whole>>
    BY <1>2 DEF SaveSuperblock, Finish
  <2>2. DiskTypeOK'
    BY <1>1, <2>1, SectorsPositive DEF IInv, DiskTypeOK, TypeOK
  <2> QED
    BY <1>1, <2>1, <2>2 DEF IInv, SlotsInv, LoopInv, TreesInv, Untouched,
                            SaveSuperblock
<1>3. CASE o # "error"
  <2>1. /\ disk' = [disk EXCEPT !.sb = [valid |-> 1, current |-> current]]
        /\ pc = "save_sb" /\ pc' = "save" /\ whole' = FALSE
        /\ UNCHANGED <<sector, ret>>
    BY <1>3 DEF SaveSuperblock
  <2>2. disk'.sb = [valid |-> 1, current |-> current]
        /\ disk'.nodes = disk.nodes
    BY <2>1 DEF IInv, DiskTypeOK
  <2>3. DiskTypeOK'
    BY <1>1, <2>1 DEF IInv, DiskTypeOK, TypeOK, SuperBlock
  <2>4. SlotsInv'
    BY <1>1, <2>2 DEF IInv, SlotsInv
  <2>5. LoopInv'
    <3>1. sector = 0
      BY <2>1 DEF IInv, LoopInv
    <3> QED
      BY <1>1, <2>1, <2>2, <3>1, AgreeBelowZero DEF LoopInv
  <2>6. TreesInv'
    BY <1>1, <2>1 DEF IInv, TreesInv, Untouched
  <2> QED
    BY <2>3, <2>4, <2>5, <2>6 DEF IInv
<1> QED
  BY <1>2, <1>3

LEMMA SaveSectorStep ==
  ASSUME IInv, NEW o \in WriteOutcomes, SaveSector(o)
  PROVE  /\ IInv'
         /\ ret' = FISH_OK /\ pc' = "shell"
              => /\ disk'.nodes = nodes
                 /\ disk'.sb = [valid |-> 1, current |-> current]
<1>1. UNCHANGED <<nodes, current, present, edits, origin>> /\ pc = "save"
  BY DEF SaveSector
<1>2. CASE o = "error"
  <2>1. /\ pc' = "shell" /\ sector' = 0 /\ ret' = FISH_ERR_IO
        /\ UNCHANGED <<disk, whole>>
    BY <1>2 DEF SaveSector, Finish
  <2>2. DiskTypeOK'
    BY <1>1, <2>1, SectorsPositive DEF IInv, DiskTypeOK, TypeOK
  <2> QED
    BY <1>1, <2>1, <2>2 DEF IInv, SlotsInv, LoopInv, TreesInv, Untouched
<1>3. CASE o # "error"
  <2> DEFINE m == CopySector(sector, nodes, disk.nodes)
  <2>0. o = "ok"
    BY <1>3, OutcomesAssumption
  <2>1. disk' = [disk EXCEPT !.nodes = m]
    BY <2>0 DEF SaveSector
  <2>2. /\ nodes \in Nodes /\ disk \in [sb : SuperBlock, nodes : Nodes]
        /\ sector \in 0 .. NODE_SECTORS - 1
    BY DEF IInv, DiskTypeOK, TypeOK, Nodes
  <2>3. m \in Nodes
    BY <2>2, CopyType
  <2>4. /\ AgreeBelow(sector, nodes, disk.nodes) /\ ~whole
        /\ disk.sb = [valid |-> 1, current |-> current]
    BY <1>1 DEF IInv, LoopInv
  <2>5. AgreeBelow(sector + 1, nodes, m)
    BY <2>2, <2>4, CopyAgrees, SectorsPositive
  <2>6. RootSlot(m)
    BY <2>2, CopyKeepsRootSlot DEF IInv, SlotsInv
  <2> HIDE DEF m
  <2>7. disk'.nodes = m /\ disk'.sb = disk.sb
        /\ disk' \in [sb : SuperBlock, nodes : Nodes]
    BY <2>1, <2>2, <2>3
  <2>8. SlotsInv'
    BY <1>1, <2>6, <2>7 DEF IInv, SlotsInv
  <2>9. CASE sector + 1 < NODE_SECTORS
    <3>1. sector' = sector + 1 /\ UNCHANGED <<pc, ret, whole>>
      BY <2>0, <2>2, <2>9, SectorsPositive DEF SaveSector
    <3>2. DiskTypeOK'
      BY <1>1, <2>2, <2>7, <2>9, <3>1, SectorsPositive
         DEF IInv, DiskTypeOK, TypeOK, Nodes
    <3>3. LoopInv'
      BY <1>1, <2>4, <2>5, <2>7, <3>1 DEF LoopInv
    <3>4. TreesInv'
      BY <1>1, <2>4, <3>1 DEF IInv, TreesInv, Untouched
    <3> QED
      BY <1>1, <2>8, <3>1, <3>2, <3>3, <3>4 DEF IInv
  <2>10. CASE ~(sector + 1 < NODE_SECTORS)
    <3>1. sector + 1 = NODE_SECTORS
      BY <2>2, <2>10, SectorsPositive
    <3>2. pc' = "shell" /\ sector' = 0 /\ ret' = FISH_OK
          /\ whole' = (origin = "sound")
      BY <2>0, <2>10 DEF SaveSector, Finish
    <3>3. m = nodes
      BY <2>2, <2>3, <2>5, <3>1, AgreeEverywhere
    <3>4. DiskTypeOK'
      BY <1>1, <2>7, <3>2, SectorsPositive DEF IInv, DiskTypeOK, TypeOK, Nodes
    <3>5. LoopInv'
      BY <3>2 DEF LoopInv
    <3>6. TreesInv'
      <4>1. whole' <=> origin = "sound"
        BY <3>2
      <4>2. disk'.nodes = nodes' /\ disk'.sb.current = current'
        BY <1>1, <2>4, <2>7, <3>3
      <4>3. Untouched /\ Untouched'
        BY <1>1, <3>2 DEF Untouched
      <4> QED
        BY <1>1, <4>1, <4>2, <4>3 DEF IInv, TreesInv
    <3> QED
      BY <2>4, <2>7, <2>8, <3>3, <3>4, <3>5, <3>6 DEF IInv
  <2> QED
    BY <2>9, <2>10
<1> QED
  BY <1>2, <1>3

(* fish_load up to the superblock touches nothing in memory. *)
LEMMA StartLoadStep ==
  ASSUME IInv, fish_load \/ \E o \in ReadOutcomes : LoadSuperblock(o)
  PROVE  IInv'
<1>1. /\ UNCHANGED <<nodes, current, disk, present, edits, whole, origin>>
      /\ sector = 0 /\ sector' = 0 /\ pc # "load"
      /\ ret' \in Codes
      /\ pc' \in {"shell", "load_sb", "load"}
      /\ pc' = "load" => disk.sb.valid = 1
  BY DEF fish_load, LoadSuperblock, Finish, IInv, LoopInv, DiskTypeOK, TypeOK,
         Codes
<1>2. DiskTypeOK'
  BY <1>1, SectorsPositive DEF IInv, DiskTypeOK, TypeOK, Codes
<1>3. SlotsInv'
  BY <1>1 DEF IInv, SlotsInv
<1>4. LoopInv'
  BY <1>1, AgreeBelowZero DEF LoopInv
<1>5. TreesInv'
  BY <1>1 DEF IInv, TreesInv, Untouched
<1> QED
  BY <1>2, <1>3, <1>4, <1>5 DEF IInv

(* The checks at the end of fish_load. *)
LEMMA AfterLoadSound ==
  ASSUME disk \in [sb : SuperBlock, nodes : Nodes], RootSlot(disk.nodes),
         whole /\ disk.sb.valid = 1 => TreeOK(disk.nodes, disk.sb.current),
         disk.sb.valid = 1
  PROVE  LET o == AfterLoad(disk.nodes) IN
         /\ o.nodes \in Nodes /\ o.current \in Node
         /\ o.ret \in {FISH_OK, FISH_ERR_FORMAT}
         /\ RootSlot(o.nodes) /\ 0 \in Dirs(o.nodes)
         /\ whole \/ o.ret = FISH_ERR_FORMAT => TreeOK(o.nodes, o.current)
         /\ o.ret = FISH_OK => /\ o.nodes = disk.nodes
                               /\ o.current \in Dirs(o.nodes)
                               /\ whole => o.current = disk.sb.current
<1> DEFINE o == AfterLoad(disk.nodes)
<1>1. CASE 0 \notin Dirs(disk.nodes)
  <2>1. /\ o.nodes = fish_init.nodes /\ o.current = fish_init.current
        /\ o.ret = FISH_ERR_FORMAT
    BY <1>1 DEF AfterLoad, fish_init, Outcome
  <2> HIDE DEF o
  <2> QED
    BY <2>1, FreshTree DEF o
<1>2. CASE 0 \in Dirs(disk.nodes)
  <2>1. /\ o.nodes = disk.nodes /\ o.ret = FISH_OK
        /\ o.current = fish_restore_cwd(disk.nodes, disk.sb.current)
    BY <1>2 DEF AfterLoad, Outcome
  <2>2. o.current \in Dirs(disk.nodes)
    BY <1>2, <2>1 DEF fish_restore_cwd
  <2>3. whole => /\ o.current = disk.sb.current
                 /\ TreeOK(disk.nodes, disk.sb.current)
    BY <2>1, TreeHasRoot DEF fish_restore_cwd
  <2>4. Dirs(disk.nodes) \subseteq Node
    BY DEF Dirs, Used
  <2> HIDE DEF o
  <2> QED
    BY <1>2, <2>1, <2>2, <2>3, <2>4 DEF o
<1> QED
  BY <1>1, <1>2

LEMMA LoadSectorStep ==
  ASSUME IInv, NEW x \in ReadOutcomes, LoadSector(x)
  PROVE  /\ IInv'
         /\ ret' = FISH_OK /\ pc' = "shell"
              => /\ nodes' = disk.nodes
                 /\ current' \in Dirs(nodes')
                 /\ whole => current' = disk.sb.current
<1> DEFINE n == CopySector(sector, disk.nodes, nodes)
<1>1. UNCHANGED <<disk, present, edits, whole>> /\ pc = "load"
  BY DEF LoadSector
<1>2. /\ nodes \in Nodes /\ disk \in [sb : SuperBlock, nodes : Nodes]
      /\ sector \in 0 .. NODE_SECTORS - 1
      /\ RootSlot(nodes) /\ RootSlot(disk.nodes)
      /\ AgreeBelow(sector, disk.nodes, nodes) /\ disk.sb.valid = 1
  BY <1>1 DEF IInv, DiskTypeOK, TypeOK, Nodes, SlotsInv, LoopInv
<1>3. CASE x = "error"
  <2>1. /\ pc' = "shell" /\ sector' = 0 /\ ret' = FISH_ERR_IO
        /\ origin' = IF sector = 0 THEN origin ELSE "partial"
        /\ UNCHANGED <<nodes, current>>
    BY <1>3 DEF LoadSector, Finish
  <2>2. DiskTypeOK'
    BY <1>1, <2>1, SectorsPositive DEF IInv, DiskTypeOK, TypeOK
  <2>3. SlotsInv' /\ LoopInv'
    BY <1>1, <2>1 DEF IInv, SlotsInv, LoopInv
  <2>4. TreesInv'
    BY <1>1, <2>1 DEF IInv, TreesInv, Untouched
  <2> QED
    BY <2>1, <2>2, <2>3, <2>4 DEF IInv
<1>4. CASE x # "error"
  <2>0. x = "ok"
    BY <1>4, OutcomesAssumption
  <2>1. n \in Nodes /\ RootSlot(n)
    BY <1>2, CopyType, CopyKeepsRootSlot
  <2>2. AgreeBelow(sector + 1, disk.nodes, n)
    BY <1>2, CopyAgrees, SectorsPositive
  <2>3. CASE sector + 1 < NODE_SECTORS
    <3>1. /\ nodes' = n /\ sector' = sector + 1
          /\ UNCHANGED <<current, pc, ret, origin>>
      BY <1>2, <2>0, <2>3, SectorsPositive DEF LoadSector
    <3> HIDE DEF n
    <3>2. DiskTypeOK'
      BY <1>1, <1>2, <2>1, <2>3, <3>1, SectorsPositive
         DEF IInv, DiskTypeOK, TypeOK, Nodes
    <3>3. SlotsInv' /\ LoopInv'
      BY <1>1, <1>2, <2>1, <2>2, <3>1 DEF SlotsInv, LoopInv
    <3>4. ~Untouched'
      BY <1>1, <1>2, <3>1, SectorsPositive DEF Untouched
    <3>5. TreesInv'
      BY <1>1, <3>4 DEF IInv, TreesInv
    <3> QED
      BY <1>1, <3>1, <3>2, <3>3, <3>5 DEF IInv
  <2>4. CASE ~(sector + 1 < NODE_SECTORS)
    <3> DEFINE o == AfterLoad(disk.nodes)
    <3>1. sector + 1 = NODE_SECTORS
      BY <1>2, <2>4, SectorsPositive
    <3>2. n = disk.nodes
      BY <1>2, <2>1, <2>2, <3>1, AgreeEverywhere
    <3>3. /\ nodes' = o.nodes /\ current' = o.current
          /\ pc' = "shell" /\ sector' = 0 /\ ret' = o.ret
          /\ origin' = IF whole \/ o.ret = FISH_ERR_FORMAT
                       THEN "sound" ELSE "torn"
      BY <2>0, <2>4, <3>2 DEF LoadSector, Finish
    <3>4. whole /\ disk.sb.valid = 1 => TreeOK(disk.nodes, disk.sb.current)
      BY DEF IInv, TreesInv
    <3>5. /\ o.nodes \in Nodes /\ o.current \in Node
          /\ o.ret \in {FISH_OK, FISH_ERR_FORMAT}
          /\ RootSlot(o.nodes) /\ 0 \in Dirs(o.nodes)
          /\ whole \/ o.ret = FISH_ERR_FORMAT => TreeOK(o.nodes, o.current)
          /\ o.ret = FISH_OK => /\ o.nodes = disk.nodes
                                /\ o.current \in Dirs(o.nodes)
                                /\ whole => o.current = disk.sb.current
      BY <1>2, <3>4, AfterLoadSound
    <3> HIDE DEF o, n
    <3>6. DiskTypeOK'
      BY <1>1, <3>3, <3>5, SectorsPositive DEF IInv, DiskTypeOK, TypeOK, Nodes
    <3>7. SlotsInv' /\ LoopInv'
      BY <1>1, <1>2, <3>3, <3>5 DEF SlotsInv, LoopInv
    <3>8. TreesInv'
      BY <1>1, <3>3, <3>4, <3>5 DEF TreesInv, Untouched
    <3> QED
      BY <3>3, <3>5, <3>6, <3>7, <3>8 DEF IInv
  <2> QED
    BY <2>3, <2>4
<1> QED
  BY <1>3, <1>4

(* Power goes at any point, and fish_init starts again. *)
LEMMA RebootStep == IInv /\ Reboot => IInv'
<1> SUFFICES ASSUME IInv, Reboot PROVE IInv'
  OBVIOUS
<1> USE DEF Reboot
<1>1. DiskTypeOK'
  BY FreshTree, SectorsPositive DEF IInv, DiskTypeOK, TypeOK, Nodes
<1>2. SlotsInv' /\ LoopInv'
  BY FreshTree DEF IInv, SlotsInv, LoopInv
<1>3. TreesInv'
  BY FreshTree DEF IInv, TreesInv, Untouched
<1> QED
  BY <1>1, <1>2, <1>3 DEF IInv

LEMMA StutterStep == IInv /\ UNCHANGED vars => IInv'
<1> SUFFICES ASSUME IInv, UNCHANGED vars PROVE IInv'
  OBVIOUS
<1>1. DiskTypeOK'
  BY DEF vars, IInv, DiskTypeOK, TypeOK
<1> QED
  BY <1>1 DEF vars, IInv, SlotsInv, LoopInv, TreesInv, Untouched

LEMMA IInvAlways == DiskSpec => []IInv
<1>1. IInv /\ [DiskNext]_vars => IInv'
  <2> SUFFICES ASSUME IInv, [DiskNext]_vars PROVE IInv'
    OBVIOUS
  <2>1. CASE fish_save \/ cmd_format
    BY <2>1, StartSaveStep DEF fish_save, cmd_format
  <2>2. ASSUME NEW o \in WriteOutcomes, SaveSuperblock(o) \/ SaveSector(o)
        PROVE  IInv'
    BY <2>2, SaveSuperblockStep, SaveSectorStep
  <2>3. ASSUME NEW o \in ReadOutcomes, LoadSuperblock(o) \/ LoadSector(o)
        PROVE  IInv'
    BY <2>3, StartLoadStep, LoadSectorStep
  <2>4. CASE fish_load
    BY <2>4, StartLoadStep
  <2> QED
    BY <2>1, <2>2, <2>3, <2>4, CommandStep, RebootStep, StutterStep
       DEF DiskNext
<1> QED
  BY <1>1, InitIInv, PTL DEF DiskSpec

-----------------------------------------------------------------------------
(* The theorems *)

(* For every number of nodes, file size and sector size: whatever order    *)
(* saves, loads, failing sectors and reboots come in, memory and disk hold *)
(* arrays of struct nodes, even where an image is torn, and the loops of   *)
(* fish_save and fish_load stay inside the node area.                      *)
THEOREM DiskTypeAlways == DiskSpec => []DiskTypeOK
BY IInvAlways, PTL DEF IInv

(* The root check at the end of fish_load is enough: no torn image, saved  *)
(* again or not, takes the root away, as long as no load was cut short.    *)
THEOREM RootAlways == DiskSpec => []RootExists
<1>1. IInv => RootExists
  BY DEF IInv, TreesInv, Untouched, RootExists
<1> QED
  BY <1>1, IInvAlways, PTL

(* A tree that did not come from a torn image or an interrupted load is a  *)
(* tree, after every history of saves, failures and reboots.               *)
THEOREM SoundAlwaysOnDisk == DiskSpec => []SoundTree
<1>1. IInv => SoundTree
  BY DEF IInv, TreesInv, Untouched, SoundTree
<1> QED
  BY <1>1, IInvAlways, PTL

(* The sectors fish_save writes cover every cell of every node, wherever   *)
(* sector boundaries cut the nodes: after FISH_OK the image is the tree.   *)
THEOREM SaveStoresTheTree == DiskSpec => SaveStoresTree
<1>1. IInv /\ [DiskNext]_vars
        => [(pc = "save" /\ pc' = "shell" /\ ret' = FISH_OK /\ present' = 1)
              => /\ disk'.nodes = nodes
                 /\ disk'.sb = [valid |-> 1, current |-> current]]_vars
  <2> SUFFICES ASSUME IInv, DiskNext, pc = "save", pc' = "shell",
                      ret' = FISH_OK, present' = 1
               PROVE  /\ disk'.nodes = nodes
                      /\ disk'.sb = [valid |-> 1, current |-> current]
    OBVIOUS
  <2>1. PICK o \in WriteOutcomes : SaveSector(o)
    BY DEF DiskNext, Command, fish_save, cmd_format, fish_load,
           SaveSuperblock, LoadSuperblock, LoadSector, Reboot
  <2> QED
    BY <2>1, SaveSectorStep
<1> QED
  BY <1>1, IInvAlways, PTL DEF DiskSpec, SaveStoresTree

(* The sectors fish_load reads replace every cell in memory: after FISH_OK *)
(* memory is the image, in a directory of it, which is the saved one       *)
(* unless the image is torn.                                               *)
THEOREM LoadRestoresTheTree == DiskSpec => LoadRestoresTree
<1>1. IInv /\ [DiskNext]_vars
        => [(pc = "load" /\ pc' = "shell" /\ ret' = FISH_OK /\ present' = 1)
              => /\ nodes' = disk.nodes
                 /\ current' \in Dirs(nodes')
                 /\ whole => current' = disk.sb.current]_vars
  <2> SUFFICES ASSUME IInv, DiskNext, pc = "load", pc' = "shell",
                      ret' = FISH_OK, present' = 1
               PROVE  /\ nodes' = disk.nodes
                      /\ current' \in Dirs(nodes')
                      /\ whole => current' = disk.sb.current
    OBVIOUS
  <2>1. PICK o \in ReadOutcomes : LoadSector(o)
    BY DEF DiskNext, Command, fish_save, cmd_format, fish_load,
           SaveSuperblock, SaveSector, LoadSuperblock, Reboot
  <2> QED
    BY <2>1, LoadSectorStep
<1> QED
  BY <1>1, IInvAlways, PTL DEF DiskSpec, LoadRestoresTree
=============================================================================
