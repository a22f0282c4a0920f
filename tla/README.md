# Verification of Yunix (the Seaweed kernel)

TLA+ models of the kernel's own logic, checked with TLC on small instances, and
theorems about them, checked with TLAPS. Paths are relative to the repository's
root; `PROJECT.json` maps every definition to the lines it models.

## 1. The system

Yunix is a single-address-space, single-threaded x86 kernel: after boot one
loop (`shell_run`) reads a line, runs a command and starts over. The only
concurrency is with interrupt handlers; the only persistent state is a disk
image; the only failures the code handles are those of the disk.

| Part | Source | State | Operations | Talks to |
| --- | --- | --- | --- | --- |
| Fish, tree in memory | `fs/fish.c` 1-273 | `nodes[64]` (name, used, is_dir, parent index, size, data), `current` | mkdir, create, chdir, remove, write, append, read, first/next, path, save/restore of the directory | called by the shell and by `user.c` |
| Fish on disk | `fs/fish.c` 275-383 | superblock and 70 sectors from LBA 2048 | `fish_save`, `fish_load` | calls the ATA driver; called by save, load, format and at boot |
| User and host name | `kernel/user.c` | two 32-byte buffers; the file `/ys.conf` | set, save to the file, load from it | calls Fish; called by user, hostname, save and at boot |
| Keyboard | `drivers/keyboard.c` | shift, caps lock, prefix flag; ring of 128 keys | IRQ 1 handler, `keyboard_getchar` | the ring is shared by the handler and the main loop |
| Line editor | `kernel/shell.c` 500-592 | line buffer of 256 | prompt, `read_line` | polls the keyboard, halts the CPU, echoes to the screen |
| Text screen | `drivers/vga.c` | 25 x 80 cells, cursor | putchar, write, clear, scroll, backspace, tab | called by everything that prints |
| Heap | `kernel/heap.c` | list of blocks in a 256 KiB arena | kmalloc, kcalloc, kfree | nobody calls it yet |
| Shell commands | `kernel/shell.c` 60-500 | the line | about 30 commands, dispatch by name | Fish, names, timer, screen |
| Boot sequence | `kernel/kernel.c` | - | screen, GDT, IDT, timer, keyboard, sti, names, Fish, ATA, load, shell | everything |
| Timer | `drivers/timer.c` | 32-bit tick counter at 100 Hz | IRQ 0 handler, `timer_sleep` | wakes the CPU from hlt |
| ATA driver | `drivers/ata.c` | drive found or not | identify, read and write sectors by PIO with bounded polling | called by Fish, one sector per call; polls the drive |
| Interrupt dispatch | `kernel/idt.c`, `kernel/isr.c`, `boot/isr.s` | gates, vectors of the controllers, handler table | set-up, dispatch of an IRQ, end of interrupt, panic | calls the handlers; the controllers decide what comes next |
| GDT, entry, strings, port I/O | `kernel/gdt.c`, `boot/`, `lib/string.c`, `include/io.h` | - | - | - |

What is hard about it:

* **Persistence.** A save overwrites the only image in place, sector by sector,
  with 560-byte nodes that straddle 512-byte sectors; a load reads straight
  into the live array. Power loss, a failed read or a failed write may come
  between any two sectors.
* **Slots.** Nodes refer to each other by index and slots are reused; a stale
  parent, size or directory index silently means something else.
* **Interrupts.** The keyboard handler shares a ring with the main loop without
  a lock, and two loops halt the CPU after a test that an interrupt may
  overtake. A controller that is not told of the end of an interrupt stays
  silent.
* **The drive.** It works at its own pace, and the driver stops waiting after a
  while: an answer may come when nobody expects it any more, and a command may
  come when the drive does not listen.
* **Decoding.** Prefix bytes and two shift keys with one flag: the order of key
  events decides the state.
* **Edges.** A full ring, line, file, node pool; the bottom row of the screen;
  `size_t` and tick arithmetic that wraps.

The list of hazards in `PROJECT.json` gives the lines and the properties that
watch them.

## 2. Modules

Models (each definition keeps the name of the function it models):

* `FishCodes` return codes. `Fish` the node array. Every API function is an
  operator on (nodes, current) that returns the state it leaves and its return
  code; the actions are the shell commands that change the tree. Names and
  bytes are values that can only be compared; whether `valid_name` accepts a
  name is a constant set.
* `FishAbs` what `fish.h` promises, in terms of paths: no slots, no search
  order. `FishView` the user's view of the array: the climb of `fish_path` and the
  listing loop, both as recursive functions of the number of steps, the text that
  pwd prints into its buffer (`Spelling` gives the characters of a name), and the
  refinement mapping from `Fish` to `FishAbs`.
* `FishDisk` extends `Fish` with the disk: `fish_save`/`fish_load` sector by
  sector, `format`, and a reboot possible in every state. A node is a row of
  cells (name; flags, parent and size together; one cell per data byte) and a
  sector holds `SECTOR_CELLS` of them, so nodes straddle sectors as on disk. A name
  is not divided, though its 32 bytes may straddle two sectors: in a torn image a
  name is the old or the new one, never half of each.
* `UserConf` extends `Fish` with the two names; `user_save` and `user_load` are
  compositions of Fish's operators, as in the code. A save or load of the whole
  image is one step here that succeeds if there is a disk; torn images and
  failing sectors are `FishDisk`'s subject.
* `KeyQueue` a bounded FIFO; a bit that every key turns makes a key that is dropped
  a step of its own, which only a full queue may take. `Keyboard` the decoder, the ring and the polling
  loop at the granularity of single accesses to the shared indices, which is
  where an interrupt can come in. `held` and `prefixed` are the keyboard's own
  state: they restrict the scancodes to ones a PS/2 keyboard sends.
* `Vga` the screen as operators on a screen record. `LineEditor` the prompt and
  `read_line` on top of it; a command is reduced to what it prints. `Shell`
  extends it with what the shell reads in the line: `execute` and `split` as
  operators on the line buffer, and `write_common`, `cmd_sleep`, `cmd_color`,
  `cmd_help` and `utoa` as operators on an argument.
* `Heap` the list of blocks as a sequence, sizes modulo the width of `size_t`,
  and a client that obeys `heap.h`. `kcalloc`'s memset stays inside its block, or,
  when `align_up` has wrapped, runs over all of memory: the list is then `Wiped` and
  nothing comes after.

* `Ata` the driver as a program that polls (`pc`, `polls`, `sector`; one step per
  poll, command and sector) next to a drive with its own steps: it asks for a
  transfer, stores what it was given in its cache or on the platter, flushes,
  fails, writes back, loses power. A command written while it is busy or waits
  for data is ignored, as in QEMU, on which the Makefile runs the kernel. `late`,
  `before` and `dropped` are auxiliary.
* `Interrupts` the boot steps from `idt_init` to `sti`, the gates, both 8259A
  controllers (latched requests, lines in service, priorities, the cascade,
  spurious interrupts), the handling of an interrupt in four steps (stub and
  gate, handler, end of interrupt, `iret`), and the timer: the counter modulo
  `TICK_WORD` and a program that calls `timer_sleep`, with test and `hlt` as
  separate steps. `asked`, `slept` and `faulted` are auxiliary.

`MC*` modules only give constants their values. `XProofs` holds the theorems about
module `X` and their proofs (`LineEditorProofs` those about `Vga` and `Shell` too,
`FishProofs` those about `FishView`).
Operators whose comment begins with "Mutant" are deliberately wrong variants of
the definition that follows them; each property is known to fail for at least
one (listed under "mutants" in `PROJECT.json`), so that no property holds
regardless of the code.

## 3. Runs

`tlc -workers 2 -config X.cfg M`, deadlock checking on in all
of them but those where the system may stop: `interrupts`, after a panic and
after halt, and `heap`, after a `kcalloc` that wiped the memory.

| Run | Shows |
| --- | --- |
| `fish_tree` (`MCFish`) | `TreeInv`: root, no stranded nodes, distinct siblings, no cycles, and the current directory is in the tree; `LsListsEachChildOnce`; `ImplementsFishAbs`: seen through paths, every step is one that `FishAbs` allows, return code included, and a reused slot shows nothing of its last file. `EveryCallAsPromised`: each command does what `FishAbs` says of the call with that very name and text, so that a file can be filled to its last byte and the pool to its last slot, and no further. `PathLeadsBack`: what pwd prints is a beginning of the path and stays, with its terminator, inside the buffer; a path that fits is printed whole, can be read in one way only, and following it leads back. |
| `fish_disk` (`MCFishDisk`) | With power loss anywhere and failing reads and writes: `SaveStoresTree` and `LoadRestoresTree` (a completed save or load is exact, the partly filled last sector included), `RootExists` (whatever is on the disk, a load that runs to its end leaves a root), `SoundTree` (a tree not read from a torn image is a tree). |
| `fish_disk_torn` | Violation, see finding 1. |
| `fish_disk_read_error` | Violation, see finding 2. |
| `user_conf` (`MCUserConf`) | `NamesReadable` whatever is typed or written into `ys.conf`; `UserSaveTouchesOnlyConf`; `WrittenNamesComeBack` after a reboot, if `ys.conf` could be written. |
| `user_conf_lost` | Violation, see finding 3. |
| `keyboard` (`MCKeyboard`) | `ImplementsKeyQueue`: the ring is a FIFO at every interleaving; `ShiftNeverSticks`; `WaitingKeyIsRead`: no lost wakeup between the test and hlt. |
| `line_editor` (`MCLineEditor`) | `ScreenShowsLine`: across wrapping, scrolling and backspaces the screen shows the line that will be executed; `BackspaceErasesOnlyTyped`; `CommandAndArgument`: every line is read as its first word and the rest, whatever earlier lines left behind the terminator; `WriteSplitsNameAndText`; `NumberAsTyped`: sleep, color and help act on the number typed or refuse it, help's pages show every command once, and `utoa` prints what was typed. |
| `heap` (`MCHeap`) | `BlocksTileTheArena`: the list survives every series of calls, unless `kcalloc` was asked for a size that `align_up` wraps; `ClientsOwnTheirBlocks`: every client has a block of its own, as large as it asked for, or asked for such a size; `FullyMerged`. |
| `ata` (`MCAta`) | `EveryCallReturns`, even if the drive never answers; `ReadReturnsSector`: a read that returns 0 has the current contents of the sectors asked for; `WriteStoresItsSectors`: a write that returns 0 has moved all its sectors, one that fails after its command was written only a prefix, and no other sector changed. The last two up to the first call whose `wait_ready` gave up. |
| `ata_lost_write` | Violation, see finding 4. |
| `interrupts` (`MCInterrupts`) | `NoFalsePanic`: no request of a device reaches an exception's gate or an absent one; `ControllersFree`: nothing stays in service; `RequestIsHandled`: every request reaches `irq_handler` under its number; `SleepLength` and `SleepEnds`: a sleep takes the ticks asked for, rounded up, and at most one more, across the wrap of the counter; `SleepLength` as long as the product of duration and frequency fits 32 bits. |

**Bounds.**
`fish_tree` is complete for 3 slots and 2-byte files: a directory inside a
directory, a full pool, a file at, below and above its limit, slot reuse. Two names
suffice for siblings; they have one and two characters, one the beginning of the
other, and the buffer of pwd has 6: the longest paths have 4 to 6 characters, of
which 5 fit, and the one that is cut looks like another that is not. A name that is
not valid appears as `.`, `..`, `/` and the empty name. One text of one byte fills a
file step by step; a byte of an earlier file differs from a zero.
`fish_disk`: 3 nodes of 3 cells in sectors of 2 cells give 5 sectors, the last
one half filled and node boundaries both inside and between sectors; `MaxEdits`
(4) bounds changes to the tree over the whole behaviour, saves, loads and
reboots are unbounded.
`user_conf`: two names, `ys.conf` and another; buffers of 3 bytes, so names are
refused, cut, and fit; `MaxEdits` (3) is enough to make a directory, be it called
`ys.conf`, stand in it, fill the pool, and then change the names.
`keyboard`: a ring of 4 cells, complete; one letter, both shifts, caps lock and
a key without a character (the digit is declared but left out of the instance:
it differs from the letter only in ignoring caps lock).
`line_editor`: a screen of 3 rows of 4, prompt of 2 and lines of up to 6
characters, so that a line spans three rows and starts on any of them; the real
sizes (67 + 255 characters against 24 rows of 80) satisfy the same assumption.
A space, a letter and three digits are typed in every order: leading, double
and trailing spaces, no argument, names at and over `FISH_NAME_MAX` (3), a command
whose name begins another, numbers on both sides of the limits (20 for sleep's
60, 10 for color's 15), of half the word and of the word (128 for 2^32), and
both pages of help. What earlier lines left in the buffer is any one character,
repeated.
`heap`: 24 bytes, headers of 3, alignment 2 (the real 12 and 8 are in the same
relation), words modulo 32; at most a handful of blocks; products of `kcalloc` on both sides
of the word, and a size that `align_up` wraps.
`ata`: 2 sectors of 2 values, calls for 0, 1 and 2 sectors (Fish asks for one),
loops that give up after 2 polls, so that the drive answers before, between and
after them; complete but for `MaxBoots` (2): one loss of power at any moment.
`interrupts`: the timer, the keyboard and the disk's line 14, which has no
handler and comes through the slave; 2 ticks in a second of 4 ms (`SECOND`) and
words modulo 16; sleeps of 0 to 3 and 6 ms, from none to 3 ticks, and of 7 ms, for
which the product wraps (the code's 42949663); `MaxSpurious` (1).

**Fairness** is used in three modules. `Keyboard`: weak fairness of the main loop,
because the CPU executes it whenever it is not halted and handlers return; weak
fairness of the timer interrupt, because `timer_init` programs the PIT to fire
100 times a second and nothing turns it off. There is none on the keyboard:
nobody has to press a key. `Interrupts`: the same two, of the CPU (boot, loop,
interrupts) and of the timer's request; none on other devices, on the user's
commands or on exceptions. `Ata`: weak fairness of the driver only; the drive
may fall silent at any moment. All other properties are safety properties.

**Assumptions about hardware.** In `FishDisk` a sector write is atomic, and a
drive that accepted a sector has written it. `Ata` shows what that rests on: with
one sector per call an error return leaves the sector untouched and a return of
0 leaves it stored (`WriteStoresItsSectors`, whose hypothesis is only that the
command was written: before that nothing has happened), unless the drive loses what it had
taken, or an earlier call timed out; and stored may mean in the drive's cache
(finding 4), so that after a loss of power `FishDisk`'s image may lack sectors of
a save that was reported complete. In `Ata` the status is right as soon as a
command is written. In `Keyboard` and `Interrupts` a handler runs to its end, and
in `Interrupts` a device asks at most once between two instructions of the
program: 10 ms are a long time. The firmware left lines 0, 1 and 2 unmasked;
`pic_remap` puts its masks back and nothing else touches them.

## 4. Findings

1. *An interrupted save is not noticed.* `fish.h` speaks of a tree written "in
   one piece"; the image is overwritten in place and carries no mark of an
   unfinished save, and the load checks only the root and the current directory
   (`fish_disk_torn`: a node whose parent is free).
2. *A read error in mid-load leaves the live tree half overwritten*, possibly
   without the root that "must always exist", because the check at the end of
   `fish_load` is skipped (`fish_disk_read_error`).
3. *save reports success when the names could not be stored*: `cmd_save` ignores
   `user_save`'s result (`user_conf_lost`).
4. *The flush after a write is not heard.* `ata_write` sends it at once, while the
   drive is busy with the last sector, and then ignores timeout and error; it
   returns 0 with the data in the drive's cache only (`ata_lost_write`). Waiting
   with `wait_not_busy` before the command, and looking at the status after it,
   would close the gap.

Smaller things met on the way, which no run is about:

* Releasing one of two held shift keys ends shift for both.
* After a call in which `wait_ready` gave up, the drive may finish that call's
  command during the next one, which then reads the old sector, or writes to it.
* `color 4294967295` is a negative colour and accepted, and `sleep 4294967296`
  sleeps not at all: the numbers wrap before the limit is applied.
* `write` with a name of more than 31 characters writes to a file whose name is
  the first 31, and the rest of the name becomes text.
* `timer_sleep` counts ticks, and the first may come at once: a sleep may be up
  to one tick (10 ms) shorter than asked for. From 42949663 ms on its product wraps
  and it sleeps much too short; `cmd_sleep` stops at 60 s.
* `kmalloc` returns a block of 0 bytes for sizes within 7 of 2^32, where `heap.h`
  promises at least the size asked for or NULL: `align_up` wraps. `kcalloc` passes such
  a size on, as its product does not wrap, and then zeroes that many bytes. No caller
  exists.
* pwd cuts a path that is longer than 255 characters, from eight nested names of 31
  on, without a sign.

## 5. Proofs

`FishProofs` proves, for every `MAX_NODES >= 1`, every `FILE_MAX`, and all sets of
names, bytes and texts that satisfy the named assumptions of `Fish`
(`SizesAssumption`, `NamesAssumption`, `ByteAssumption`, `TextsAssumption`), and
every buffer and spelling that satisfy `PathMaxAssumption` and `SpellingAssumption`
of `FishView`:

* `TypeAlways`: `Spec => []TypeOK`. The deep part is `size \in 0 .. FILE_MAX`
  after any series of writes and appends.
* `TreeAlways`: `Spec => []TreeInv`.
* `ImplementsAlways`: `Spec => ImplementsFishAbs`, the refinement, and `CallsAlways`:
  `Spec => EveryCallAsPromised`, call by call.
* `PathAlways` and `LsAlways`: `PathLeadsBack` and `LsListsEachChildOnce` hold always.

Neither `TypeOK` nor `TreeInv` is inductive alone: the tree argument needs the
types (a parent is an index), and typing of `cd ..` needs that the parent of a
directory other than the root is a slot. `Sound(n, c)` is their conjunction for
a pair, and there is one lemma per API function: from a sound pair it leads to a
sound pair (`FishInitSound`, `MakeNodeSound`, `ChdirSound`, `RemoveSound`,
`PutTextSound`). They are stated about the operators, not the actions, so that
the other modules that call Fish can use them. Acyclicity is stated without
induction or paths: every non-empty set of nodes other than the root has a member
whose parent is outside it. For a new node the argument is that nothing is below
it yet; for a removed one that it was a leaf. The searches (`find_child`,
`allocate`) rest on the existence of a least slot, from the library's
well-foundedness of the naturals.

The refinement rests on three facts about a sound tree. The climb of `fish_path`
ends: as long as some node's climb is unfinished, the set of these nodes has a
member whose parent is finished, so every step finishes one more and `MAX_NODES`
steps are enough for all (`ClimbEnds`). A path is therefore the parent's path and
the node's name. And two nodes with the same path are the same node: otherwise
the nodes that share their path with another one would, by the same property of
sets, include one whose parent does not, and siblings have different names. With
these, one lemma per call (`MakeImplements`, `ChdirImplements`, `RemoveImplements`,
`PutImplements`) shows that it is a step of `FishAbs`; that a pool is full exactly
when as many paths exist as there are slots is a statement about cardinalities
of sets in one-to-one correspondence, and that a new file is empty although its
slot keeps old data follows from its size.

For `PathLeadsBack` the walk down is a fold over the names. It needs one more
invariant, `NamesValid`: the names below the root are ones `valid_name` accepted, so
that none of them is `.`, `..` or `/`, which `cd` reads differently. That a text
spells one path only (`SpellInjective`) is shown from its end: names are not empty
and have no slash, so the last slash says where the last name begins (`LastPiece`),
and the rest is the text of a path with one name less. `FlattenOn` is the step of
the recursive function behind `FlattenSeq`.
`LsListsEachChildOnce` needs no invariant: for any array, the handle grows with every
call of `fish_next` and passes over no child, so after at most `MAX_NODES + 1` calls it
is 0.

`UserConfProofs` proves, for every buffer size with `FILE_MAX >= 2 *
USER_NAME_MAX` (512 against 64 in the code), every alphabet and all default and
typed names that satisfy `ConfAssumption`, `DefaultsAssumption` and
`TypedAssumption`:

* `NamesAlways`: `ConfSpec => []NamesReadable`.
* `UserSaveAlways`: `ConfSpec => []UserSaveTouchesOnlyConf`.
* `ConfTypeAlways`: `ConfSpec => []ConfTypeOK`.
* `WrittenNamesAlways`: the action property `WrittenNamesComeBack`.

The inductive invariant says that memory holds a sound tree and good names
(`MemoryInv`) and that the image holds a sound tree with its directory in it
(`ImageInv`): a name read at boot comes from a node of the image, so without the
second part the first is not preserved by `Boot`. `user_save` is carried by a
frame lemma for each of its calls (`CreateFrame`, `WriteFrame`): directories stay,
and only a node with that name in that directory changes.

For `WrittenNamesComeBack` the invariant is about the disk (`DiskInv`): the names that
a boot would read from the image are those of the last save that wrote `ys.conf`, or
the defaults if nothing was saved. That a save establishes it is a round trip
through the file (`SavedComesBack`): a good name has no line break and fits its
buffer, so the first line of what `user_save` wrote is the name and the second the
host (`LineBreak`, `ConfLines`), and `set_field` leaves both as they are
(`GoodNameKept`).

`FishDiskProofs` proves, for every number of nodes and every size of a file and of
a sector (`SectorAssumption`, `OutcomesAssumption` and those of `Fish`):

* `DiskTypeAlways`, `RootAlways` and `SoundAlwaysOnDisk`: `DiskTypeOK`, `RootExists`
  and `SoundTree` hold always.
* `SaveStoresTheTree` and `LoadRestoresTheTree`: the action properties
  `SaveStoresTree` and `LoadRestoresTree`.

`LoopInv` says that the nodes' cells before the loop's sector are already equal in
memory and on the disk, which at the last sector is all of them; `TreesInv` says
when the array in memory and the one on the disk are trees, and `SlotsInv` what
is left when they are not: slot 0 has a root's flags at the prompt. A tree read
from a torn image may be edited and saved again, so besides the lemmas about
sound trees there is one per API function about any array (`Calm`).

`KeyboardProofs` proves, for every ring of at least two cells and all sets of keys
(`BufferAssumption`, `KeysAssumption`, `EmptyAssumption`):

* `KeyboardTypeAlways` and `ShiftAlways`: `TypeOK` and `ShiftNeverSticks`.
* `RingImplementsQueue`: the ring implements `KeyQueue`. Every step is a push, a
  pop, a failed pop or a stutter of the queue `Waiting`, the cells from `tail` up to
  `head` around the end of the ring. The pop happens when `tail` moves, two accesses
  after the test that found a key; the invariant says that interrupts in between
  left the key where it is, and that the flag `extended` follows the prefix byte.

`HeapProofs` proves, for all sizes that satisfy `HeapAssumption`:

* `HeapTypeAlways`, `TilesAlways`, `OwnershipAlways` and `MergedAlways`: `TypeOK`,
  `BlocksTileTheArena`, `ClientsOwnTheirBlocks` and `FullyMerged`.

A call that wipes the memory needs a size that `align_up` wraps, and leaves that size
behind in `live`. Up to such a call the invariant is the last three properties in a
form that each operation can be shown to keep: each block starts where the one before ends, no two neighbours are
free, and live pointers and used blocks correspond one to one. `coalesce` is a
fold over the list. That the recursive function behind the fold exists, and what
the list is after each block, is shown by induction on the number of blocks, with
the set of good numbers in the place of a predicate (`SetInduction`), which the
provers can instantiate.

`LineEditorProofs` proves, for every size of the screen, the tab stop and the line
buffer (`ScreenAssumption`, `LineAssumption`, `TextAssumption`):

* `LineEditorTypeAlways`, `ScreenShowsLineAlways` and `BackspaceAlways`: `TypeOK`,
  `ScreenShowsLine` and the action property `BackspaceErasesOnlyTyped`.

Every code leaves the cursor on the screen, and so does every text (`vga_write` is
a fold, treated like `coalesce`). A printed character extends the text before the
cursor by itself, also when it fills the last cell and everything moves up
(`PutShows`): here `LineAssumption`, that prompt and line fit above the bottom row
(67 + 255 against 24 rows of 80), is needed. `TextAssumption` says that the prompt
has no control characters, which `set_field` sees to and `NamesAlways` proves of
the names.

The same module proves of `Shell`, for every buffer, every size of a name and every
table of commands with distinct names (`ShellAssumption`):

* `CommandAlways`: `CommandAndArgument`.
* `WriteSplitAlways`: `WriteSplitsNameAndText`.
* `NumberAlways`: `NumberAsTyped`.

The line stands in the buffer with its terminator (`BufferHolds`); behind it there
may be anything. Every scan of `execute`, `split` and `write_common` then stops at the
terminator at the latest (`ScanStops`), at the first character that is no space, or
at the first that is one, and the pieces between these positions are the word, the
argument, the name and the text, compared with the line character by character
(`ReadsInParts`). A name that is cut at `FISH_NAME_MAX - 1` is the case in which the
rest of the word becomes the start of the text.

For numbers the value after each digit is the object of the induction
(`DecimalByDigit`, `NumberByDigit`: `FoldExists` gives the recursive function behind a
fold, for any step). Values never decrease, so if the last one is below the width
none of the steps wrapped (`NumberIsDecimal`); `utoa` undoes the steps one by one, the
last digit first, and a number with no leading zero is 0 only before its first
digit (`UtoaPrints`). A row is on the page its number divided by `HELP_PER_PAGE` says,
and the last page ends at the end of the table (`HelpShows`).

`AtaProofs` proves, for every size of the disk, number of sectors per call and
number of polls (`AtaAssumption`):

* `AtaTypeAlways`, `ReadAlways` and `WriteAlways`: `TypeOK`, `ReadReturnsSector` and
  `WriteStoresItsSectors`.

Driver and drive are independent, so the invariant has to relate them
(`SyncInv`): until a `wait_ready` gave up, the drive is at the driver's sector, or one
behind with that sector in hand, or has failed; and a drive that is not busy
when a call begins is idle. `ReadInv` and `WriteInv` add what has been moved so far.

`InterruptsProofs` proves, for all sets of lines, faults and durations, every timer
frequency and every even width of the counter (`InterruptsAssumption`):

* `InterruptsTypeAlways`, `NoFalsePanicAlways`, `ControllersAlwaysFree` and
  `SleepLengthAlways`: `TypeOK`, `NoFalsePanic`, `ControllersFree` and `SleepLength`.

`ServiceInv` says which lines are in service at each step of the handling, spurious
interrupts of either controller included; `BootInv` what has been set up at each
step of the boot; `SleepInv` that `target`, `ticks` and the ticks since the call
stay in step modulo the width, so that the signed comparison of `timer_sleep` is
right because `wanted` is always below half of it, being a quotient by at least 2.
That it is the number of ticks asked for is shown for the durations whose product
does not wrap (`Wanted`).

Each inductive invariant was checked with TLC, as an invariant of the component's
run, before it was proved.

Induction over data is done throughout with the set of good numbers in the place
of a predicate, and recursive functions are shown to exist before they are
unfolded; no module uses a `RECURSIVE` operator.

Only model-checked: the four liveness properties, `WaitingKeyIsRead`,
`EveryCallReturns`, `RequestIsHandled` and `SleepEnds`, which rest on fairness and so
on `ENABLED`, out of the prover's reach. Every invariant, every safety action
property and both refinements that a passing run checks are proved.

## 6. Not modelled

The GDT, the multiboot entry and the saving of registers by the interrupt stubs:
straight-line code without state of its own. Commands that only print (about,
neofetch, echo, whoami, cat, uptime, ticks, disk), the layout of help, colours,
the hardware cursor, and the arrow-key cursor functions of the screen (no
caller). The 128-entry key maps.
`memmove`, `memcmp`, `strncmp` and `itoa` have no caller. The 400 ns the ATA standard
gives a drive to set BSY after a command: `ata_read` and `ata_write` poll without
that wait. The reset through the keyboard controller (`cmd_reboot`) is a reboot in
`FishDisk` and `UserConf`. `load` replaces `ys.conf` but not the names in memory, so the
next `save` overwrites the loaded file: modelled, but no promise in the code is
about it.

## 7. State and plan

Modelled: Fish and its persistence, the names, the keyboard, the line editor and
what the shell reads in a line, the heap, the disk driver, interrupts and the
timer. Proved: every safety property of a passing run. What could come next:

1. If `fish_save` is changed to write a second image before it gives up the first
   (finding 1), the model of the new protocol, with `SoundTree` for every reboot.
2. If `ata_write` waits for the drive before the flush (finding 4), a property of
   the platter in the place of `dropped`.
3. `Heap` together with its first caller, once there is one.
