------------------------------- MODULE Ata ---------------------------------
(***************************************************************************)
(* The disk driver (drivers/ata.c): IDENTIFY at boot, and reads and writes *)
(* in PIO mode, against a drive that works at its own pace.                *)
(*                                                                         *)
(* Every turn of a polling loop, every command and every sector moved      *)
(* through the data port is a step of the driver; the drive moves between  *)
(* them, or never.  The drive is external.  It has a write cache, may      *)
(* report an error instead of doing any part of a command, and ignores a   *)
(* command that is written while it is busy or waits for data, as QEMU's   *)
(* does (the ATA standard leaves it undefined).  Data moved in the wrong   *)
(* direction has no effect on it and reads as NoData.                      *)
(*                                                                         *)
(* A sector's contents are one value.  Its status bits are BSY ("busy"),   *)
(* DRQ ("drq") and ERR or DF (err); they are right as soon as a command    *)
(* has been written.                                                       *)
(***************************************************************************)
EXTENDS Integers, Sequences

CONSTANTS
  SECTORS,    \* sectors of the drive
  Value,      \* contents of a sector
  Blank,      \* the value in every sector of a new disk
  NoData,     \* not a value: nothing there
  Counts,     \* sector counts given to ata_read and ata_write
  POLLS,      \* turns of a polling loop before it gives up: 1000000
  MaxBoots    \* bound: boots that are explored

ASSUME AtaAssumption ==
  /\ SECTORS \in Nat \ {0} /\ POLLS \in Nat \ {0} /\ MaxBoots \in Nat \ {0}
  /\ Blank \in Value /\ NoData \notin Value
  /\ Counts \subseteq 0 .. SECTORS

VARIABLES
  present,   \* ata_init found a drive
  pc,        \* where the driver is; "idle" between calls
  polls,     \* turns of the polling loop so far
  call,      \* the arguments of the call: [op, lba, count, data]
  sector,    \* sectors moved so far
  result,    \* what the call returned
  buffer,    \* what ata_read has stored through "out"
  drive,     \* the drive's registers and state: [state, err, cmd, lba, left,
             \*   hold]; hold is a sector it took and has not stored
  cache,     \* sectors the drive holds but has not written, or NoData
  platter,   \* sectors that survive a loss of power
  boots,     \* boots so far, up to MaxBoots
  late,      \* auxiliary: wait_ready gave up "never" since the boot, in
             \*   "this" call or in an "earlier" one
  before,    \* auxiliary: the contents when the call's command was written
  dropped    \* auxiliary: since then the drive lost a sector it had taken

driver == <<present, pc, polls, call, sector, result, buffer>>
store  == <<cache, platter>>
aux    == <<boots, late, before, dropped>>
vars   == <<driver, drive, store, aux>>

Sector == 0 .. SECTORS - 1

-----------------------------------------------------------------------------
(* The drive (external) *)

(* What the drive returns for sector l. *)
Contents(l) == IF cache[l] # NoData THEN cache[l] ELSE platter[l]

(* No call has been made since the boot. *)
NoCall == [op |-> "none", lba |-> 0, count |-> 0, data |-> <<>>]

(* The call has not written its command (a value of "before"). *)
NoCommand == <<>>

IdleDrive == [state |-> "idle", err |-> 0, cmd |-> "none", lba |-> 0,
              left |-> 0, hold |-> NoData]
NoDrive   == [IdleDrive EXCEPT !.state = "absent"]

(* The drive after a command was written to ATA_COMMAND. *)
Commanded(cmd, lba, count) ==
  IF drive.state # "idle" THEN drive
  ELSE [state |-> "busy", err |-> 0, cmd |-> cmd, lba |-> lba,
        left |-> count, hold |-> NoData]

(* A sector of a read is ready, or the drive waits for one of a write. *)
DriveAsks ==
  /\ drive.state = "busy" /\ drive.hold = NoData /\ drive.cmd # "flush"
  /\ drive' = [drive EXCEPT !.state = "drq"]
  /\ UNCHANGED <<driver, store, aux>>

(* A sector the drive took goes to its cache, or straight to the disk. *)
DriveStores ==
  /\ drive.state = "busy" /\ drive.hold # NoData
  /\ \/ cache' = [cache EXCEPT ![drive.lba] = drive.hold] /\ UNCHANGED platter
     \/ /\ cache' = [cache EXCEPT ![drive.lba] = NoData]
        /\ platter' = [platter EXCEPT ![drive.lba] = drive.hold]
  /\ drive' = IF drive.left = 1
              THEN IdleDrive
              ELSE [drive EXCEPT !.state = "drq", !.lba = @ + 1,
                                 !.left = @ - 1, !.hold = NoData]
  /\ UNCHANGED <<driver, aux>>

DriveFlushes ==
  /\ drive.state = "busy" /\ drive.cmd = "flush"
  /\ platter' = [l \in Sector |-> Contents(l)]
  /\ cache' = [l \in Sector |-> NoData]
  /\ drive' = IdleDrive
  /\ UNCHANGED <<driver, aux>>

(* Any part of a command may fail; a sector taken but not stored is lost. *)
DriveFails ==
  /\ drive.state = "busy"
  /\ drive' = [IdleDrive EXCEPT !.err = 1]
  /\ dropped' = (dropped \/ drive.hold # NoData)
  /\ UNCHANGED <<driver, store, boots, late, before>>

(* The drive writes a cached sector out when it sees fit. *)
DriveWritesBack(l) ==
  /\ cache[l] # NoData
  /\ platter' = [platter EXCEPT ![l] = cache[l]]
  /\ cache' = [cache EXCEPT ![l] = NoData]
  /\ UNCHANGED <<driver, drive, aux>>

(* Power fails and comes back: the cache is gone, the kernel boots. *)
PowerLoss ==
  /\ boots < MaxBoots /\ boots' = boots + 1
  /\ drive' = IF drive = NoDrive THEN NoDrive ELSE IdleDrive
  /\ cache' = [l \in Sector |-> NoData]
  /\ pc' = "boot" /\ polls' = 0 /\ call' = NoCall /\ sector' = 0
  /\ result' = 0 /\ buffer' = <<>> /\ present' = 0
  /\ late' = "never" /\ dropped' = FALSE /\ before' = NoCommand
  /\ UNCHANGED platter

-----------------------------------------------------------------------------
(* The polling loops *)

Return(code) == pc' = "idle" /\ result' = code /\ polls' = 0

(* A turn of a loop that found nothing: is it the last? *)
PollAgain == IF polls + 1 < POLLS THEN "again" ELSE "timeout"

(* Mutant: "while (1)". *)
wait_ready_Unbounded ==
  CASE drive.state = "drq" -> "ok"
    [] drive.state # "busy" /\ drive.err = 1 -> "error"
    [] OTHER -> "again"

(* Mutant: BSY is not tested. *)
wait_ready_BusyIgnored ==
  IF drive.err = 1 THEN "error" ELSE "ok"

(* What a turn of wait_ready comes to. *)
wait_ready ==
  CASE drive.state = "busy" -> PollAgain
    [] drive.state # "busy" /\ drive.err = 1 -> "error"
    [] drive.state = "drq" /\ drive.err = 0 -> "ok"
    [] OTHER -> PollAgain

(* The same for wait_not_busy, which looks at BSY only. *)
wait_not_busy == IF drive.state = "busy" THEN PollAgain ELSE "ok"

(* The loop goes round. *)
Again == polls' = (polls + 1) % POLLS /\ UNCHANGED <<pc, result>>

-----------------------------------------------------------------------------
(* ata_init *)

(* An empty bus reads as 0xFF or 0, before the command or after it. *)
StartIdentify ==
  /\ pc = "boot" /\ present' = 0
  /\ \/ drive = NoDrive /\ Return(0) /\ UNCHANGED drive
     \/ /\ drive # NoDrive
        /\ drive' = Commanded("identify", 0, 1)
        /\ pc' = "identify"
        /\ UNCHANGED <<polls, result>>
  /\ UNCHANGED <<call, sector, buffer, store, aux>>

(* The sector of information is read and thrown away. *)
ata_init ==
  /\ pc = "identify"
  /\ \/ wait_ready = "ok" /\ Return(1) /\ present' = 1 /\ drive' = IdleDrive
     \/ wait_ready \in {"error", "timeout"} /\ Return(0)
        /\ UNCHANGED <<drive, present>>
     \/ wait_ready = "again" /\ Again /\ UNCHANGED <<drive, present>>
  /\ UNCHANGED <<call, sector, buffer, store, aux>>

-----------------------------------------------------------------------------
(* ata_read and ata_write *)

(* The caller's arguments, and the early returns. *)
Call(op, lba, data) ==
  /\ pc = "idle"
  /\ call' = [op |-> op, lba |-> lba, count |-> Len(data), data |-> data]
  /\ sector' = 0 /\ buffer' = <<>>
  /\ IF present = 0 \/ Len(data) = 0
       THEN Return(IF present = 0 THEN -1 ELSE 0)
       ELSE pc' = "start" /\ polls' = 0 /\ UNCHANGED result
  /\ late' = IF late = "this" THEN "earlier" ELSE late
  /\ before' = NoCommand
  /\ UNCHANGED <<present, drive, store, boots, dropped>>

ata_read(lba, count) == Call("read", lba, [k \in 1 .. count |-> NoData])

ata_write(lba, data) == Call("write", lba, data)

(* The wait before the command. *)
WaitToStart ==
  /\ pc = "start"
  /\ \/ wait_not_busy = "ok" /\ pc' = "command" /\ polls' = 0
        /\ UNCHANGED result
     \/ wait_not_busy = "timeout" /\ Return(-2)
     \/ wait_not_busy = "again" /\ Again
  /\ UNCHANGED <<present, call, sector, buffer, drive, store, aux>>

(* Mutant: one sector too many is asked for. *)
select_sector_OneMore ==
  /\ pc = "command"
  /\ drive' = Commanded(call.op, call.lba, call.count + 1)
  /\ pc' = "ready"
  /\ before' = [l \in Sector |-> Contents(l)] /\ dropped' = FALSE
  /\ UNCHANGED <<present, polls, call, sector, result, buffer, store,
                 boots, late>>

(* The address, then the command. *)
select_sector ==
  /\ pc = "command"
  /\ drive' = Commanded(call.op, call.lba, call.count)
  /\ pc' = "ready"
  /\ before' = [l \in Sector |-> Contents(l)] /\ dropped' = FALSE
  /\ UNCHANGED <<present, polls, call, sector, result, buffer, store,
                 boots, late>>

(* The wait for each sector of the call. *)
WaitForSector ==
  /\ pc = "ready"
  /\ \/ wait_ready = "ok" /\ pc' = "transfer" /\ polls' = 0
        /\ UNCHANGED <<result, late>>
     \/ wait_ready = "error" /\ Return(-1) /\ UNCHANGED late
     \/ wait_ready = "timeout" /\ Return(-2)
        /\ late' = IF late = "never" THEN "this" ELSE late
     \/ wait_ready = "again" /\ Again /\ UNCHANGED late
  /\ UNCHANGED <<present, call, sector, buffer, drive, store, boots, before,
                 dropped>>

(* After a sector: the next one, or the end of the loop. *)
NextSector(end) ==
  /\ sector' = sector + 1
  /\ IF sector + 1 < call.count THEN pc' = "ready" /\ UNCHANGED <<result, polls>>
                                ELSE end

(* 256 words are read from the data port. *)
ReadSector ==
  /\ pc = "transfer" /\ call.op = "read"
  /\ IF drive.state = "drq" /\ drive.cmd = "read"
       THEN /\ buffer' = Append(buffer, Contents(drive.lba))
            /\ drive' = IF drive.left = 1 THEN IdleDrive
                        ELSE [drive EXCEPT !.state = "busy", !.lba = @ + 1,
                                           !.left = @ - 1]
       ELSE buffer' = Append(buffer, NoData) /\ UNCHANGED drive
  /\ NextSector(Return(0))
  /\ UNCHANGED <<present, call, store, aux>>

(* Mutant: the pointer into the buffer is not advanced. *)
WriteSector_SamePointer ==
  /\ pc = "transfer" /\ call.op = "write"
  /\ drive' = IF drive.state = "drq" /\ drive.cmd = "write"
              THEN [drive EXCEPT !.state = "busy", !.hold = call.data[1]]
              ELSE drive
  /\ NextSector(pc' = "flush" /\ UNCHANGED <<result, polls>>)
  /\ UNCHANGED <<present, call, buffer, store, aux>>

(* 256 words are written to it. *)
WriteSector ==
  /\ pc = "transfer" /\ call.op = "write"
  /\ drive' = IF drive.state = "drq" /\ drive.cmd = "write"
              THEN [drive EXCEPT !.state = "busy",
                                 !.hold = call.data[sector + 1]]
              ELSE drive
  /\ NextSector(pc' = "flush" /\ UNCHANGED <<result, polls>>)
  /\ UNCHANGED <<present, call, buffer, store, aux>>

(* CMD_FLUSH is written at once: the drive is still busy with the last     *)
(* sector unless it was quick.                                             *)
Flush ==
  /\ pc = "flush"
  /\ drive' = Commanded("flush", 0, 0)
  /\ pc' = "flushing"
  /\ UNCHANGED <<present, polls, call, sector, result, buffer, store, aux>>

(* The wait after it; neither a timeout nor an error is looked at. *)
WaitForFlush ==
  /\ pc = "flushing"
  /\ \/ wait_not_busy \in {"ok", "timeout"} /\ Return(0)
     \/ wait_not_busy = "again" /\ Again
  /\ UNCHANGED <<present, call, sector, buffer, drive, store, aux>>

-----------------------------------------------------------------------------
Init ==
  /\ present = 0 /\ pc = "boot" /\ polls = 0 /\ call = NoCall
  /\ sector = 0 /\ result = 0 /\ buffer = <<>>
  /\ drive \in {IdleDrive, NoDrive}
  /\ platter = [l \in Sector |-> Blank] /\ before = NoCommand
  /\ cache = [l \in Sector |-> NoData]
  /\ boots = 1 /\ late = "never" /\ dropped = FALSE

Driver ==
  \/ StartIdentify \/ ata_init
  \/ WaitToStart \/ select_sector \/ WaitForSector
  \/ ReadSector \/ WriteSector \/ Flush \/ WaitForFlush

Caller ==
  \E count \in Counts : \E lba \in 0 .. SECTORS - count :
    \/ ata_read(lba, count)
    \/ \E data \in [1 .. count -> Value] : ata_write(lba, data)

Drive ==
  \/ DriveAsks \/ DriveStores \/ DriveFlushes \/ DriveFails
  \/ \E l \in Sector : DriveWritesBack(l)

Next == Driver \/ Caller \/ Drive \/ PowerLoss

(* The CPU does not stop; nothing is expected of the drive. *)
Spec == Init /\ [][Next]_vars /\ WF_vars(Driver)

-----------------------------------------------------------------------------
(* Properties *)

(* Values of the right kind, and calls that stay on the disk. *)
TypeOK ==
  /\ present \in {0, 1} /\ result \in {-2, -1, 0, 1}
  /\ pc \in {"boot", "identify", "idle", "start", "command", "ready",
             "transfer", "flush", "flushing"}
  /\ polls \in 0 .. POLLS - 1
  /\ sector \in 0 .. call.count /\ call.lba + call.count <= SECTORS
  /\ drive.state \in {"absent", "idle", "busy", "drq"}
  /\ drive.left + drive.lba <= SECTORS
  /\ platter \in [Sector -> Value]
  /\ before \in [Sector -> Value] \cup {NoCommand}
  /\ cache \in [Sector -> Value \cup {NoData}]

(* ata_read: when it returns 0, the buffer holds what the drive has under  *)
(* the sectors asked for, in order: not another sector, not an older       *)
(* version, whatever the drive was still doing when the call was made.     *)
(* Only after a call in which wait_ready gave up may it be otherwise: the  *)
(* drive may then still answer that call.                                  *)
ReadReturnsSector ==
  pc = "idle" /\ call.op = "read" /\ result = 0 /\ late # "earlier" =>
    buffer = [k \in 1 .. call.count |-> Contents(call.lba + k - 1)]

(* ata_write, whatever it returns once its command is written: the sectors *)
(* it has moved hold the caller's data, in order, except where the drive   *)
(* lost one it had taken or has yet to store the last; every other sector  *)
(* is as it was.  So when it fails at the first sector, the only one of    *)
(* each call Fish makes, nothing was written.  The same exception for an   *)
(* earlier timeout.                                                        *)
WriteStoresItsSectors ==
  /\ pc = "idle" /\ call.op = "write" /\ before # NoCommand
  /\ late # "earlier"
  => /\ result = 0 => sector = call.count
     /\ \A l \in Sector :
          LET k == l - call.lba + 1 IN
          \/ Contents(l) = before[l] /\ (k \in 1 .. sector
                                           => dropped \/ drive.hold # NoData)
          \/ k \in 1 .. sector /\ Contents(l) = call.data[k]

(* The comment at the loops of ata.c: with a drive that is missing, broken *)
(* or forever busy, ata_init and every call still return.                  *)
EveryCallReturns == pc # "idle" ~> pc = "idle"

(* "Tell it to commit, or a reset could lose everything we just wrote":    *)
(* when ata_write has returned 0, to a drive that has lost nothing and is  *)
(* done, what it wrote survives a loss of power.                           *)
WriteIsDurable ==
  /\ pc = "idle" /\ call.op = "write" /\ result = 0 /\ late # "earlier"
  /\ drive.state # "busy" /\ ~dropped
  => \A k \in 1 .. call.count : platter[call.lba + k - 1] = call.data[k]
=============================================================================
