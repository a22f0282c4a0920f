----------------------------- MODULE FishDisk ------------------------------
(***************************************************************************)
(* Saving Fish to disk and loading it back (fs/fish.c, second half), with  *)
(* the callers that add to it: format and reboot in the shell, and the     *)
(* load at boot in kernel/kernel.c.                                        *)
(*                                                                         *)
(* fish_save writes the superblock and then the node array, one sector at  *)
(* a time, over the previous image; fish_load reads in the same order,     *)
(* straight into the live array.  Each sector is a step: power may fail    *)
(* between any two of them, and any of them may fail.                      *)
(*                                                                         *)
(* Layout.  A struct node is NODE_CELLS cells (its name; used, is_dir,     *)
(* parent and size, which no sector boundary separates; one per data byte) *)
(* and a sector is SECTOR_CELLS cells.  As on the disk, 560 bytes against  *)
(* 512, nodes straddle sectors at every possible cell boundary.  The       *)
(* superblock is reduced to whether its four format fields match, and the  *)
(* saved current directory.  A write of one sector is atomic.              *)
(*                                                                         *)
(* The save command also writes ys.conf before it calls fish_save (module  *)
(* UserConf); here that is one more file written by Command.               *)
(***************************************************************************)
EXTENDS Fish

CONSTANTS
  SECTOR_CELLS,   \* ATA_SECTOR_SIZE, in cells
  ReadOutcomes,   \* what ata_read of a sector may do: "ok", "error"
  WriteOutcomes,  \* what ata_write of a sector may do: "ok", "error"
  MaxEdits        \* bound: changes to the tree that are explored

ASSUME SectorAssumption == SECTOR_CELLS \in Nat \ {0}
ASSUME OutcomesAssumption ==
  ReadOutcomes \cup WriteOutcomes \subseteq {"ok", "error"}
ASSUME MaxEditsAssumption == MaxEdits \in Nat

VARIABLES
  disk,      \* [sb, nodes]: the superblock and the node sectors
  present,   \* ata_present(): 1 if ata_init found a drive at boot
  pc,        \* "shell", or the loop the kernel is in
  sector,    \* the loop variable s of fish_save and fish_load
  edits,     \* changes made so far, up to MaxEdits
  whole,     \* auxiliary: the disk holds all of one sound tree, or nothing
  origin     \* auxiliary: where the tree in memory comes from:
             \*   "sound"    fish_init, or a whole image
             \*   "torn"     an image that a save left unfinished
             \*   "partial"  a load that a read error cut short

vars == <<nodes, current, ret, disk, present, pc, sector, edits, whole,
          origin>>

NODE_CELLS == 2 + FILE_MAX

(* Mutant: a last sector that is only partly filled is not counted. *)
NODE_SECTORS_RoundedDown == (MAX_NODES * NODE_CELLS) \div SECTOR_CELLS

NODE_SECTORS == (MAX_NODES * NODE_CELLS + SECTOR_CELLS - 1) \div SECTOR_CELLS

(* Is cell "cell" of node i in sector s of the node area? *)
InSector(i, cell, s) == (i * NODE_CELLS + cell) \div SECTOR_CELLS = s

(* The node array "to" after sector s of it was overwritten from "from". *)
CopySector(s, from, to) ==
  [i \in Node |->
     LET meta == IF InSector(i, 1, s) THEN from[i] ELSE to[i] IN
     [name   |-> IF InSector(i, 0, s) THEN from[i].name ELSE to[i].name,
      used   |-> meta.used,
      is_dir |-> meta.is_dir,
      parent |-> meta.parent,
      size   |-> meta.size,
      data   |-> [k \in 1 .. FILE_MAX |->
                    IF InSector(i, 1 + k, s) THEN from[i].data[k]
                                             ELSE to[i].data[k]]]]

SuperBlock == [valid : {0, 1}, current : Node]

(* A new disk is all zeros (Makefile, target disk.img). *)
BlankDisk == [sb    |-> [valid |-> 0, current |-> 0],
              nodes |-> [i \in Node |-> ZeroNode]]

-----------------------------------------------------------------------------
(* fish_save *)

(* Back to the prompt with a return code. *)
Finish(code) == pc' = "shell" /\ sector' = 0 /\ ret' = code

(* The part of fish_save before the first sector, on the tree (n, c). *)
StartSave(n, c) ==
  /\ nodes' = n /\ current' = c
  /\ IF present = 0
       THEN Finish(FISH_ERR_NODISK)
       ELSE pc' = "save_sb" /\ sector' = 0 /\ UNCHANGED ret
  /\ UNCHANGED <<disk, present, whole>>

fish_save ==
  /\ pc = "shell"
  /\ StartSave(nodes, current)
  /\ UNCHANGED <<edits, origin>>

(* Mutant: the user stays in a directory that is gone. *)
cmd_format_KeepsCwd ==
  /\ pc = "shell" /\ edits < MaxEdits
  /\ StartSave(fish_init.nodes, current)
  /\ edits' = edits + 1
  /\ origin' = "sound"

(* The tree in memory is erased before it is known whether it can be saved. *)
cmd_format ==
  /\ pc = "shell" /\ edits < MaxEdits
  /\ StartSave(fish_init.nodes, fish_init.current)
  /\ edits' = edits + 1
  /\ origin' = "sound"

SaveSuperblock(outcome) ==
  /\ pc = "save_sb"
  /\ \/ /\ outcome = "error"
        /\ Finish(FISH_ERR_IO)
        /\ UNCHANGED <<disk, whole>>
     \/ /\ outcome = "ok"
        /\ disk' = [disk EXCEPT !.sb = [valid |-> 1, current |-> current]]
        /\ whole' = FALSE
        /\ pc' = "save"
        /\ UNCHANGED <<sector, ret>>
  /\ UNCHANGED <<nodes, current, present, edits, origin>>

SaveSector(outcome) ==
  /\ pc = "save"
  /\ \/ /\ outcome = "error"
        /\ Finish(FISH_ERR_IO)
        /\ UNCHANGED whole
     \/ /\ outcome = "ok" /\ sector + 1 < NODE_SECTORS
        /\ sector' = sector + 1
        /\ UNCHANGED <<pc, ret, whole>>
     \/ /\ outcome = "ok" /\ sector + 1 = NODE_SECTORS
        /\ Finish(FISH_OK)
        /\ whole' = (origin = "sound")
  /\ disk' = IF outcome = "ok"
               THEN [disk EXCEPT !.nodes = CopySector(sector, nodes, @)]
               ELSE disk
  /\ UNCHANGED <<nodes, current, present, edits, origin>>

-----------------------------------------------------------------------------
(* fish_load *)

fish_load ==
  /\ pc = "shell"
  /\ IF present = 0
       THEN Finish(FISH_ERR_NODISK)
       ELSE pc' = "load_sb" /\ sector' = 0 /\ UNCHANGED ret
  /\ UNCHANGED <<nodes, current, disk, present, edits, whole, origin>>

LoadSuperblock(outcome) ==
  /\ pc = "load_sb"
  /\ \/ outcome = "error" /\ Finish(FISH_ERR_IO)
     \/ outcome = "ok" /\ disk.sb.valid = 0 /\ Finish(FISH_ERR_FORMAT)
     \/ /\ outcome = "ok" /\ disk.sb.valid = 1
        /\ pc' = "load"
        /\ UNCHANGED <<sector, ret>>
  /\ UNCHANGED <<nodes, current, disk, present, edits, whole, origin>>

(* Mutants: the root is not checked; the saved directory is not restored. *)
AfterLoad_NoRootCheck(n) ==
  Outcome(n, fish_restore_cwd(n, disk.sb.current), FISH_OK)

AfterLoad_ForgetsCwd(n) ==
  IF 0 \notin Dirs(n)
    THEN [fish_init EXCEPT !.ret = FISH_ERR_FORMAT]
    ELSE Outcome(n, 0, FISH_OK)

(* The checks after the last sector: a saved directory that makes no sense *)
(* becomes the root, and a tree without a root is replaced.                *)
AfterLoad(n) ==
  IF 0 \notin Dirs(n)
    THEN [fish_init EXCEPT !.ret = FISH_ERR_FORMAT]
    ELSE Outcome(n, fish_restore_cwd(n, disk.sb.current), FISH_OK)

LoadSector(outcome) ==
  LET n == CopySector(sector, disk.nodes, nodes) IN
  /\ pc = "load"
  /\ \/ /\ outcome = "error"
        /\ Finish(FISH_ERR_IO)
        /\ origin' = IF sector = 0 THEN origin ELSE "partial"
        /\ UNCHANGED <<nodes, current>>
     \/ /\ outcome = "ok" /\ sector + 1 < NODE_SECTORS
        /\ nodes' = n
        /\ sector' = sector + 1
        /\ UNCHANGED <<current, pc, ret, origin>>
     \/ /\ outcome = "ok" /\ sector + 1 = NODE_SECTORS
        /\ LET o == AfterLoad(n) IN
             /\ nodes' = o.nodes /\ current' = o.current
             /\ Finish(o.ret)
             /\ origin' = IF whole \/ o.ret = FISH_ERR_FORMAT
                          THEN "sound" ELSE "torn"
  /\ UNCHANGED <<disk, present, edits, whole>>

-----------------------------------------------------------------------------
(* Everything else *)

(* A shell command that works on the tree in memory.  A call that fails    *)
(* changes nothing (module Fish) and is left out here.                     *)
Command ==
  /\ pc = "shell" /\ Next /\ ret' = FISH_OK
  /\ edits' = IF nodes' = nodes THEN edits ELSE edits + 1
  /\ edits' <= MaxEdits
  /\ UNCHANGED <<disk, present, pc, sector, whole, origin>>

(* The reboot command, or the power going, at any point; then kernel_main: *)
(* fish_init, ata_init and, if a drive answers, fish_load.                 *)
Reboot ==
  /\ nodes' = fish_init.nodes /\ current' = fish_init.current
  /\ ret' = FISH_OK
  /\ present' \in {0, 1}
  /\ pc' = IF present' = 1 THEN "load_sb" ELSE "shell"
  /\ sector' = 0
  /\ origin' = "sound"
  /\ UNCHANGED <<disk, edits, whole>>

DiskInit ==
  /\ Init
  /\ disk = BlankDisk
  /\ present \in {0, 1}
  /\ pc = IF present = 1 THEN "load_sb" ELSE "shell"
  /\ sector = 0 /\ edits = 0
  /\ whole = TRUE /\ origin = "sound"

DiskNext ==
  \/ Command
  \/ fish_save
  \/ cmd_format
  \/ fish_load
  \/ \E o \in WriteOutcomes : SaveSuperblock(o) \/ SaveSector(o)
  \/ \E o \in ReadOutcomes  : LoadSuperblock(o) \/ LoadSector(o)
  \/ Reboot

DiskSpec == DiskInit /\ [][DiskNext]_vars

-----------------------------------------------------------------------------
(* Properties *)

(* Memory and disk hold nodes, and the loop variable stays below the       *)
(* number of sectors.                                                      *)
DiskTypeOK ==
  /\ TypeOK
  /\ disk \in [sb : SuperBlock, nodes : [Node -> NodeRecord]]
  /\ present \in {0, 1}
  /\ pc \in {"shell", "save_sb", "save", "load_sb", "load"}
  /\ sector \in 0 .. NODE_SECTORS - 1
  /\ edits \in 0 .. MaxEdits
  /\ whole \in BOOLEAN
  /\ origin \in {"sound", "torn", "partial"}

(* The root exists at the prompt and while saving, whatever mixture of     *)
(* images power failures and failed writes left on the disk, as long as    *)
(* every load ran to its end, where fish_load checks it.                   *)
RootExists == pc # "load" /\ origin # "partial" => 0 \in Dirs(nodes)

(* A tree that never met a torn image is a tree: what interrupted saves    *)
(* and failed writes leave on the disk does not reach it.                  *)
SoundTree == origin = "sound" /\ pc # "load" => TreeOK(nodes, current)

(* When fish_save returns FISH_OK, the disk holds this tree, cell by cell, *)
(* and this directory: nothing of the image below it shows through.        *)
(* (present' = 1 leaves out a reboot that finds no drive.)                 *)
SaveStoresTree ==
  [][(pc = "save" /\ pc' = "shell" /\ ret' = FISH_OK /\ present' = 1)
       => /\ disk'.nodes = nodes
          /\ disk'.sb = [valid |-> 1, current |-> current]]_vars

(* When fish_load returns FISH_OK, memory holds the tree on the disk; the  *)
(* saved directory, which fish.c calls "untrusted", is used only if it is  *)
(* a directory, and it is one unless the image is torn.                    *)
LoadRestoresTree ==
  [][(pc = "load" /\ pc' = "shell" /\ ret' = FISH_OK /\ present' = 1)
       => /\ nodes' = disk.nodes
          /\ current' \in Dirs(nodes')
          /\ whole => current' = disk.sb.current]_vars

(* fish.h: "The tree lives in RAM and is written to disk in one piece by   *)
(* fish_save(), then read back by fish_load()": so what is read back is a  *)
(* tree.                                                                   *)
ReadBackInOnePiece ==
  pc # "load" /\ origin # "partial" => TreeOK(nodes, current)

(* fish.c: "The root must always exist, whatever the image claimed": at    *)
(* the prompt slot 0 is a directory in use.                                *)
RootMustAlwaysExist == pc = "shell" => 0 \in Dirs(nodes)
=============================================================================
