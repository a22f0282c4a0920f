----------------------------- MODULE AtaProofs -----------------------------
(***************************************************************************)
(* Proofs about module Ata, for every size of the disk, every number of    *)
(* sectors per call and every number of polls: a read returns what is on   *)
(* the disk, and a write changes the sectors it was given and no others.   *)
(*                                                                         *)
(* Driver and drive move on their own.  What ties them together is         *)
(* SyncInv: until wait_ready gives up, the drive is at the sector the      *)
(* driver is at, or one behind with that sector in hand, or it has failed; *)
(* and a drive that is not busy when a call begins is idle.                *)
(***************************************************************************)
EXTENDS Ata, TLAPS

-----------------------------------------------------------------------------
(* The inductive invariant *)

DriveRecord ==
  [state : {"absent", "idle", "busy", "drq"}, err : {0, 1},
   cmd   : {"none", "identify", "read", "write", "flush"},
   lba   : 0 .. SECTORS, left : 0 .. SECTORS, hold : Value \cup {NoData}]

CallRecord ==
  [op : {"none", "read", "write"}, lba : 0 .. SECTORS, count : 0 .. SECTORS,
   data : Seq(Value \cup {NoData})]

DriverTypes ==
  /\ present \in {0, 1} /\ result \in {-2, -1, 0, 1}
  /\ pc \in {"boot", "identify", "idle", "start", "command", "ready",
             "transfer", "flush", "flushing"}
  /\ polls \in 0 .. POLLS - 1
  /\ sector \in 0 .. SECTORS
  /\ call \in CallRecord
  /\ buffer \in Seq(Value \cup {NoData})

StoreTypes ==
  /\ platter \in [Sector -> Value]
  /\ before \in [Sector -> Value] \cup {NoCommand}
  /\ cache \in [Sector -> Value \cup {NoData}]
  /\ late \in {"never", "this", "earlier"}
  /\ dropped \in BOOLEAN

Types == DriverTypes /\ drive \in DriveRecord /\ StoreTypes

(* The drive holds a sector it has not stored. *)
Held == drive.hold # NoData

(* What the drive's registers say of each other, with any history. *)
DriveInv ==
  /\ drive.lba + drive.left <= SECTORS
  /\ drive.state \in {"idle", "absent"} => drive.cmd = "none" /\ ~Held
  /\ drive.state \in {"busy", "drq"} => drive.err = 0 /\ drive.cmd # "none"
  /\ drive.cmd \in {"identify", "read", "write"} => drive.left >= 1
  /\ drive.cmd = "flush" => drive.state = "busy"
  /\ Held => drive.state = "busy" /\ drive.cmd = "write"

(* Where the driver is in a call. *)
CallInv ==
  /\ call.lba + call.count <= SECTORS /\ sector <= call.count
  /\ call.count = Len(call.data)
  /\ call.op = "write" => call.data \in Seq(Value)
  /\ pc \in {"boot", "identify"} => call.op = "none" /\ present = 0
  /\ pc \in {"boot", "identify", "start", "command"}
       => sector = 0 /\ buffer = <<>>
  /\ pc \in {"start", "command", "ready", "transfer"}
       => present = 1 /\ call.op # "none" /\ sector < call.count
  /\ pc \in {"flush", "flushing"}
       => present = 1 /\ call.op = "write" /\ sector = call.count /\ sector > 0
  /\ present = 0 => /\ drive.cmd \in {"none", "identify"}
                    /\ sector = 0
                    /\ call.op # "none" => result = -1
  /\ present = 1 => drive.cmd # "identify" /\ drive.state # "absent"
  /\ late = "this" => pc = "idle" /\ result = -2 /\ sector < call.count
                      /\ present = 1
  /\ pc \in {"start", "command"} => before = NoCommand
  /\ present = 0 => before = NoCommand
  /\ before = NoCommand => sector = 0 /\ late # "this"
  /\ pc \in {"ready", "transfer", "flush", "flushing"} => before # NoCommand

(* The sector in hand is the last one of this call that was moved. *)
HoldsLast == /\ call.op = "write" /\ sector > 0
             /\ drive.lba = call.lba + sector - 1
             /\ drive.hold = call.data[sector]

(* The drive carries out this call, or has failed. *)
InCommand ==
  \/ drive.state = "idle" /\ drive.err = 1
  \/ /\ drive.cmd = call.op
     /\ \/ ~Held /\ drive.lba = call.lba + sector
                 /\ drive.left = call.count - sector
        \/ Held /\ HoldsLast /\ drive.left = call.count - sector + 1

(* The drive is done, or will be without the driver's help. *)
Quiet == \/ drive.state = "idle"
         \/ drive.cmd = "flush"
         \/ Held /\ drive.left = 1

SyncInv ==
  late # "earlier" /\ present = 1 =>
    /\ pc \in {"idle", "start"} /\ late = "never" => Quiet
    /\ pc = "idle" /\ late = "this" => InCommand
    /\ pc = "command" => drive.state = "idle"
    /\ pc = "ready" => InCommand
    /\ pc = "transfer" => InCommand /\ drive.state = "drq"
    /\ pc \in {"flush", "flushing"} => Quiet
    /\ /\ pc \in {"idle", "flush", "flushing"} /\ call.op = "write"
       /\ before # NoCommand /\ Held
       => HoldsLast

(* What ata_read has stored so far is still what the drive returns. *)
ReadInv ==
  /\ late # "earlier" /\ call.op = "read"
  /\ pc \in {"ready", "transfer"} \/ (pc = "idle" /\ result = 0)
  => /\ Len(buffer) = sector
     /\ \A k \in 1 .. sector : buffer[k] = Contents(call.lba + k - 1)
     /\ sector > 0 => ~Held
     /\ pc = "idle" => sector = call.count

(* What has become of sector l in a write. *)
Written(l) ==
  LET k == l - call.lba + 1 IN
  \/ /\ Contents(l) = before[l]
     /\ k \in 1 .. sector => dropped \/ (Held /\ k = sector)
  \/ k \in 1 .. sector /\ Contents(l) = call.data[k]

WriteInv ==
  /\ late # "earlier" /\ call.op = "write"
  /\ \/ pc \in {"ready", "transfer", "flush", "flushing"}
     \/ pc = "idle" /\ before # NoCommand
  => /\ \A l \in Sector : Written(l)
     /\ pc = "idle" /\ result = 0 => sector = call.count

IInv == Types /\ DriveInv /\ CallInv /\ SyncInv /\ ReadInv /\ WriteInv

USE AtaAssumption

-----------------------------------------------------------------------------
(* The drive's steps *)

LEMMA IdleDriveType ==
  /\ IdleDrive \in DriveRecord /\ NoDrive \in DriveRecord
  /\ [IdleDrive EXCEPT !.err = 1] \in DriveRecord
BY DEF IdleDrive, NoDrive, DriveRecord

LEMMA CommandWritten == \A f \in [Sector -> Value] : f # NoCommand
<1> SUFFICES ASSUME NEW f \in [Sector -> Value], f = NoCommand PROVE FALSE
  OBVIOUS
<1>1. DOMAIN f = Sector /\ 0 \in Sector
  BY DEF Sector
<1>2. DOMAIN NoCommand = {}
  BY DEF NoCommand
<1> QED
  BY <1>1, <1>2

(* The drive after a command is a drive. *)
LEMMA CommandedType ==
  ASSUME drive \in DriveRecord, DriveInv,
         NEW cmd \in {"identify", "read", "write", "flush"},
         NEW lba \in 0 .. SECTORS, NEW count \in 0 .. SECTORS
  PROVE  Commanded(cmd, lba, count) \in DriveRecord
BY DEF Commanded, DriveRecord

(* Every sector of the disk has contents. *)
LEMMA ContentsType ==
  ASSUME StoreTypes
  PROVE  \A l \in Sector : Contents(l) \in Value
BY DEF StoreTypes, Contents

LEMMA PollsType ==
  ASSUME NEW p \in 0 .. POLLS - 1
  PROVE  (p + 1) % POLLS \in 0 .. POLLS - 1
OBVIOUS

LEMMA DriveAsksStep ==
  ASSUME IInv, DriveAsks
  PROVE  IInv'
<1> USE DEF IInv, DriveAsks, driver, store, aux
<1>1. Types'
  <2>1. DriverTypes' /\ StoreTypes'
    BY DEF Types, DriverTypes, StoreTypes
  <2>2. drive' \in DriveRecord
    BY DEF Types, DriveRecord
  <2> QED
    BY <2>1, <2>2 DEF Types
<1>2. DriveInv'
  BY DEF Types, DriveRecord, DriveInv, Held
<1>3. CallInv'
  BY DEF Types, DriveRecord, CallInv
<1>4. SyncInv'
  BY DEF Types, DriveRecord, DriveInv, CallInv, SyncInv, Quiet, InCommand,
         HoldsLast, Held
<1>5. ReadInv' /\ WriteInv'
  BY DEF Types, DriveRecord, ReadInv, WriteInv, Written, Contents, Held
<1> QED
  BY <1>1, <1>2, <1>3, <1>4, <1>5 DEF IInv

(* Writing a sector back does not change what the drive returns. *)
LEMMA DriveWritesBackStep ==
  ASSUME IInv, NEW x \in Sector, DriveWritesBack(x)
  PROVE  IInv'
<1> USE DEF IInv, DriveWritesBack, driver, aux
<1>1. StoreTypes'
  <2>1. cache[x] \in Value
    BY DEF Types, StoreTypes
  <2> QED
    BY <2>1 DEF Types, StoreTypes
<1>2. \A l \in Sector : Contents(l)' = Contents(l)
  BY DEF Types, StoreTypes, Contents
<1>3. Types' /\ DriveInv' /\ CallInv'
  BY <1>1 DEF Types, DriverTypes, DriveInv, CallInv, Held
<1>4. SyncInv'
  BY DEF SyncInv, Quiet, InCommand, HoldsLast, Held
<1>5. ReadInv'
  <2>1. \A k \in 1 .. sector : call.lba + k - 1 \in Sector
    BY DEF Types, DriverTypes, CallRecord, CallInv, Sector
  <2> QED
    BY <1>2, <2>1 DEF ReadInv, Held
<1>6. WriteInv'
  BY <1>2 DEF WriteInv, Written, Held
<1> QED
  BY <1>3, <1>4, <1>5, <1>6 DEF IInv

LEMMA DriveFlushesStep ==
  ASSUME IInv, DriveFlushes
  PROVE  IInv'
<1> USE DEF IInv, DriveFlushes, driver, aux
<1>0. \A l \in Sector : Contents(l) \in Value
  BY ContentsType DEF Types
<1>1. StoreTypes'
  BY <1>0 DEF Types, StoreTypes
<1>2. \A l \in Sector : Contents(l)' = Contents(l)
  BY DEF Types, StoreTypes, Contents
<1>3. Types' /\ DriveInv'
  BY <1>1, IdleDriveType DEF Types, DriverTypes, DriveInv, IdleDrive, Held
<1>4. CallInv'
  BY DEF CallInv, IdleDrive
<1>5. SyncInv'
  <2>1. ~InCommand
    BY DEF InCommand, Types, DriverTypes, CallRecord
  <2>2. Quiet' /\ ~Held' /\ drive.state = "busy"
    BY DEF Quiet, Held, IdleDrive
  <2> QED
    BY <2>1, <2>2 DEF SyncInv
<1>6. ReadInv'
  <2>1. \A k \in 1 .. sector : call.lba + k - 1 \in Sector
    BY DEF Types, DriverTypes, CallRecord, CallInv, Sector
  <2> QED
    BY <1>2, <2>1 DEF ReadInv, Held, IdleDrive
<1>7. WriteInv'
  <2>1. ~Held /\ ~Held'
    BY DEF DriveInv, Held, IdleDrive
  <2> QED
    BY <1>2, <2>1 DEF WriteInv, Written
<1> QED
  BY <1>3, <1>4, <1>5, <1>6, <1>7 DEF IInv

(* A drive that fails is idle; what it held is lost, and counted so. *)
LEMMA DriveFailsStep ==
  ASSUME IInv, DriveFails
  PROVE  IInv'
<1> USE DEF IInv, DriveFails, driver, store
<1>1. Types' /\ DriveInv'
  BY IdleDriveType
     DEF Types, DriverTypes, StoreTypes, DriveInv, IdleDrive, Held
<1>2. CallInv'
  BY DEF CallInv, IdleDrive
<1>3. SyncInv'
  BY DEF Types, DriveInv, CallInv, SyncInv, Quiet, InCommand, Held,
         IdleDrive
<1>4. ReadInv'
  BY DEF ReadInv, Held, IdleDrive, Contents
<1>5. WriteInv'
  BY DEF Types, StoreTypes, WriteInv, Written, Held, Contents
<1> QED
  BY <1>1, <1>2, <1>3, <1>4, <1>5 DEF IInv

(* Power fails: the driver is back at its start, and nothing is claimed of *)
(* the sectors any more.                                                   *)
LEMMA PowerLossStep ==
  ASSUME IInv, PowerLoss
  PROVE  IInv'
<1> USE DEF IInv, PowerLoss
<1>1. DriverTypes'
  <2>1. NoCall \in CallRecord
    BY DEF NoCall, CallRecord
  <2> QED
    BY <2>1 DEF DriverTypes
<1>2. StoreTypes'
  BY DEF Types, StoreTypes
<1>3. Types' /\ DriveInv'
  BY <1>1, <1>2, IdleDriveType
     DEF Types, DriveInv, IdleDrive, NoDrive, Held
<1>4. CallInv'
  BY DEF CallInv, NoCall, IdleDrive, NoDrive
<1>5. SyncInv' /\ ReadInv' /\ WriteInv'
  BY DEF SyncInv, ReadInv, WriteInv, NoCall
<1> QED
  BY <1>3, <1>4, <1>5 DEF IInv

(* The sector the drive stores is the last one this call moved, unless an  *)
(* earlier call timed out.                                                 *)
LEMMA DriveStoresStep ==
  ASSUME IInv, DriveStores
  PROVE  IInv'
<1> USE DEF IInv, DriveStores, driver, aux
<1>1. /\ drive \in DriveRecord /\ drive.cmd = "write" /\ Held
      /\ drive.lba \in Sector /\ drive.left >= 1 /\ drive.hold \in Value
      /\ drive.state = "busy"
  BY DEF Types, DriveRecord, DriveInv, Held, Sector
<1>2. StoreTypes'
  BY <1>1 DEF Types, StoreTypes
<1>3. \A l \in Sector :
        Contents(l)' = IF l = drive.lba THEN drive.hold ELSE Contents(l)
  BY <1>1 DEF Types, StoreTypes, Contents
<1>4. \/ drive' = IdleDrive /\ drive.left = 1
      \/ /\ drive.left > 1
         /\ drive' = [drive EXCEPT !.state = "drq", !.lba = drive.lba + 1,
                                   !.left = drive.left - 1, !.hold = NoData]
  BY <1>1 DEF DriveRecord
<1>5. drive' \in DriveRecord
  <2>1. drive.left > 1 => drive.lba + 1 \in 0 .. SECTORS
                          /\ drive.left - 1 \in 0 .. SECTORS
    BY <1>1 DEF DriveRecord, DriveInv
  <2> QED
    BY <1>1, <1>4, <2>1, IdleDriveType DEF DriveRecord
<1>6. Types'
  BY <1>2, <1>5 DEF Types, DriverTypes
<1>7. DriveInv'
  BY <1>1, <1>4 DEF DriveRecord, DriveInv, Held, IdleDrive
<1>8. CallInv'
  BY <1>1, <1>4 DEF DriveRecord, CallInv, IdleDrive
<1>9. SyncInv'
  <2> SUFFICES ASSUME late # "earlier", present = 1 PROVE SyncInv'
    BY DEF SyncInv
  <2>1. CASE drive.left = 1
    <3>1. Quiet' /\ ~Held'
      BY <1>1, <1>4, <2>1 DEF DriveRecord, Quiet, Held, IdleDrive
    <3>2. sector < call.count => ~InCommand
      BY <1>1, <2>1 DEF Types, DriverTypes, CallRecord, InCommand, HoldsLast
    <3>3. pc \in {"ready", "transfer"} \/ late = "this" => sector < call.count
      BY DEF CallInv
    <3> QED
      BY <1>1, <3>1, <3>2, <3>3 DEF SyncInv
  <2>2. CASE drive.left > 1
    <3>1. /\ drive'.cmd = "write" /\ drive'.lba = drive.lba + 1
          /\ drive'.left = drive.left - 1 /\ ~Held' /\ drive'.state = "drq"
      BY <1>1, <1>4, <2>2 DEF DriveRecord, Held
    <3>2. ~Quiet
      BY <1>1, <2>2 DEF Quiet
    <3>3. ASSUME InCommand PROVE InCommand'
      <4>1. /\ call.op = "write" /\ drive.lba = call.lba + sector - 1
            /\ drive.left = call.count - sector + 1
        BY <1>1, <3>3 DEF InCommand, HoldsLast
      <4>2. /\ sector \in Int /\ call.lba \in Int /\ call.count \in Int
        BY DEF Types, DriverTypes, CallRecord
      <4>3. /\ drive'.lba = call.lba + sector
            /\ drive'.left = call.count - sector
        BY <3>1, <4>1, <4>2
      <4> QED
        BY <3>1, <4>1, <4>3 DEF InCommand
    <3> QED
      BY <1>1, <3>1, <3>2, <3>3 DEF SyncInv
  <2> QED
    BY <1>1, <2>1, <2>2 DEF DriveRecord
<1>10. ReadInv'
  <2> SUFFICES ASSUME late # "earlier", call.op = "read",
                      pc \in {"ready", "transfer"} \/ (pc = "idle" /\ result = 0)
               PROVE  ReadInv'
    BY DEF ReadInv
  <2>1. sector = 0
    BY <1>1 DEF ReadInv, Types, DriverTypes
  <2> QED
    BY <2>1 DEF ReadInv
<1>11. WriteInv'
  <2> SUFFICES ASSUME late # "earlier", call.op = "write",
                      \/ pc \in {"ready", "transfer", "flush", "flushing"}
                      \/ pc = "idle" /\ before # NoCommand,
                      NEW l \in Sector
               PROVE  Written(l)' /\ (pc = "idle" /\ result = 0
                                        => sector = call.count)
    BY DEF WriteInv
  <2>1. HoldsLast
    <3>1. present = 1 /\ before # NoCommand
      BY DEF CallInv, Types, DriverTypes
    <3>2. CASE pc \in {"ready", "transfer"}
      BY <1>1, <3>1, <3>2 DEF SyncInv, InCommand
    <3>3. CASE pc \in {"flush", "flushing"}
      <4>1. sector > 0
        BY <3>3 DEF CallInv, Types, DriverTypes
      <4> QED
        BY <1>1, <3>1, <3>3, <4>1 DEF SyncInv
    <3>4. CASE pc = "idle"
      BY <1>1, <3>1, <3>4 DEF SyncInv
    <3> QED
      BY <3>2, <3>3, <3>4
  <2>2. Written(l) /\ (pc = "idle" /\ result = 0 => sector = call.count)
    BY DEF WriteInv
  <2> DEFINE k == l - call.lba + 1
  <2>3. /\ k \in Int /\ sector \in Nat /\ (k = sector <=> l = drive.lba)
    <3>1. call.lba \in Int /\ sector \in Nat /\ l \in Int
      BY DEF Types, DriverTypes, CallRecord, Sector
    <3>2. drive.lba = call.lba + sector - 1
      BY <2>1 DEF HoldsLast
    <3> QED
      BY <3>1, <3>2
  <2>4. CASE l = drive.lba
    <3>1. k \in 1 .. sector /\ Contents(l)' = call.data[k]
      BY <1>3, <2>1, <2>3, <2>4 DEF HoldsLast
    <3> QED
      BY <2>2, <3>1 DEF Written
  <2>5. CASE l # drive.lba
    <3>1. Contents(l)' = Contents(l)
      BY <1>3, <2>5
    <3> QED
      BY <2>2, <2>3, <2>5, <3>1 DEF Written
  <2> QED
    BY <2>4, <2>5
<1> QED
  BY <1>6, <1>7, <1>8, <1>9, <1>10, <1>11 DEF IInv

-----------------------------------------------------------------------------
(* The driver's steps.  None of them changes what is on the disk. *)

LEMMA SameContents ==
  ASSUME UNCHANGED store
  PROVE  \A l : Contents(l)' = Contents(l)
BY DEF store, Contents

LEMMA StartIdentifyStep ==
  ASSUME IInv, StartIdentify
  PROVE  IInv'
<1> USE DEF IInv, StartIdentify, store, aux
<1>1. drive' \in DriveRecord
  BY CommandedType DEF Types
<1>2. Types'
  BY <1>1 DEF Types, DriverTypes, StoreTypes, Return
<1>3. DriveInv'
  BY DEF Types, DriveRecord, DriveInv, Held, Commanded
<1>4. CallInv' /\ present' = 0
  BY DEF CallInv, Return, Commanded
<1>5. SyncInv' /\ ReadInv' /\ WriteInv'
  BY <1>4 DEF SyncInv, ReadInv, WriteInv, CallInv
<1> QED
  BY <1>2, <1>3, <1>4, <1>5 DEF IInv

LEMMA ata_initStep ==
  ASSUME IInv, ata_init
  PROVE  IInv'
<1> USE DEF IInv, ata_init, store, aux
<1>1. /\ drive' \in {drive, IdleDrive} /\ present' \in {0, 1}
      /\ polls' \in {polls, 0, (polls + 1) % POLLS}
      /\ pc' \in {"identify", "idle"} /\ result' \in {result, 0, 1}
  BY DEF Types, DriverTypes, Return, Again
<1>2. Types'
  BY <1>1, PollsType, IdleDriveType DEF Types, DriverTypes, StoreTypes
<1>3. DriveInv'
  BY <1>1 DEF DriveInv, Held, IdleDrive
<1>4. call.op = "none" /\ sector = 0 /\ buffer = <<>>
  BY DEF CallInv
<1>5. CallInv'
  BY <1>1, <1>4 DEF CallInv, Return, Again, IdleDrive, Types, DriverTypes
<1>6. SyncInv'
  <2>1. \/ pc' = "identify"
        \/ pc' = "idle" /\ present' = 0
        \/ pc' = "idle" /\ drive' = IdleDrive
    BY DEF Return, Again, CallInv, Types, DriverTypes
  <2> QED
    BY <1>4, <2>1 DEF SyncInv, Quiet, IdleDrive, CallInv
<1>7. ReadInv' /\ WriteInv'
  BY <1>4 DEF ReadInv, WriteInv
<1> QED
  BY <1>2, <1>3, <1>5, <1>6, <1>7 DEF IInv

(* ata_read and ata_write up to the first wait. *)
LEMMA CallStep ==
  ASSUME IInv, NEW op \in {"read", "write"}, NEW lba \in 0 .. SECTORS,
         NEW data \in Seq(Value \cup {NoData}),
         op = "write" => data \in Seq(Value),
         lba + Len(data) <= SECTORS, Call(op, lba, data)
  PROVE  IInv'
<1> USE DEF IInv, Call, store
<1> DEFINE c == [op |-> op, lba |-> lba, count |-> Len(data), data |-> data]
<1>1. call' = c /\ sector' = 0 /\ buffer' = <<>>
  OBVIOUS
<1>2. Len(data) \in Nat /\ c \in CallRecord
  BY DEF CallRecord
<1>3. Types'
  BY <1>1, <1>2 DEF Types, DriverTypes, StoreTypes, Return
<1>4. DriveInv'
  BY DEF DriveInv, Held
<1>5. late' # "this" /\ (late' = "never" => late = "never")
  BY DEF Types, StoreTypes
<1>6. CallInv'
  BY <1>1, <1>2, <1>5 DEF CallInv, Return, Types, DriverTypes
<1>7. SyncInv'
  BY <1>1, <1>5 DEF SyncInv, Quiet, Held, Return, Types, DriverTypes
<1>8. ReadInv'
  <2>1. pc' = "idle" /\ result' = 0 => Len(data) = 0
    BY DEF Return, Types, DriverTypes
  <2> QED
    BY <1>1, <2>1 DEF ReadInv, Return
<1>9. WriteInv'
  BY <1>1 DEF WriteInv, Return
<1> QED
  BY <1>3, <1>4, <1>6, <1>7, <1>8, <1>9 DEF IInv

LEMMA CallerStep ==
  ASSUME IInv, Caller
  PROVE  IInv'
<1>1. PICK count \in Counts : \E lba \in 0 .. SECTORS - count :
        \/ ata_read(lba, count)
        \/ \E data \in [1 .. count -> Value] : ata_write(lba, data)
  BY DEF Caller
<1>2. PICK lba \in 0 .. SECTORS - count :
        \/ ata_read(lba, count)
        \/ \E data \in [1 .. count -> Value] : ata_write(lba, data)
  BY <1>1
<1>3. count \in Nat /\ lba \in 0 .. SECTORS /\ lba + count <= SECTORS
  OBVIOUS
<1>4. CASE ata_read(lba, count)
  <2> DEFINE data == [k \in 1 .. count |-> NoData]
  <2>1. data \in Seq(Value \cup {NoData}) /\ Len(data) = count
    BY <1>3
  <2> HIDE DEF data
  <2> QED
    BY <1>3, <1>4, <2>1, CallStep DEF ata_read, data
<1>5. ASSUME NEW data \in [1 .. count -> Value], ata_write(lba, data)
      PROVE  IInv'
  <2>1. data \in Seq(Value) /\ Len(data) = count
    BY <1>3
  <2>2. data \in Seq(Value \cup {NoData})
    BY <1>3
  <2> QED
    BY <1>3, <1>5, <2>1, <2>2, CallStep DEF ata_write
<1> QED
  BY <1>2, <1>4, <1>5

(* A drive that is not busy before the command is idle: it was quiet. *)
LEMMA WaitToStartStep ==
  ASSUME IInv, WaitToStart
  PROVE  IInv'
<1> USE DEF IInv, WaitToStart, store, aux
<1>1. /\ polls' \in {polls, 0, (polls + 1) % POLLS}
      /\ \/ pc' = "command" /\ result' = result /\ drive.state # "busy"
         \/ pc' = "idle" /\ result' = -2
         \/ pc' = "start" /\ result' = result
  BY DEF Return, Again, wait_not_busy, PollAgain
<1>2. Types'
  BY <1>1, PollsType DEF Types, DriverTypes, StoreTypes
<1>3. DriveInv' /\ CallInv'
  BY <1>1 DEF DriveInv, CallInv, Held
<1>4. SyncInv'
  <2>1. late = "never" => Quiet
    BY DEF SyncInv, CallInv
  <2>2. Quiet /\ drive.state # "busy" => drive.state = "idle"
    BY DEF Quiet, DriveInv
  <2>3. before = NoCommand /\ late # "this"
    BY DEF CallInv
  <2> QED
    BY <1>1, <2>1, <2>2, <2>3 DEF SyncInv, Quiet, Held, Types, StoreTypes
<1>5. ReadInv' /\ WriteInv'
  BY <1>1 DEF ReadInv, WriteInv, CallInv
<1> QED
  BY <1>2, <1>3, <1>4, <1>5 DEF IInv

LEMMA select_sectorStep ==
  ASSUME IInv, select_sector
  PROVE  IInv'
<1> USE DEF IInv, select_sector
<1>0. /\ call.op \in {"read", "write"} /\ call.lba \in 0 .. SECTORS
      /\ call.count \in 1 .. SECTORS /\ call.lba + call.count <= SECTORS
      /\ sector = 0 /\ present = 1 /\ buffer = <<>>
  BY DEF Types, DriverTypes, CallRecord, CallInv
<1>1. drive' \in DriveRecord
  BY <1>0, CommandedType DEF Types
<1>2. Types'
  BY <1>1, ContentsType DEF Types, DriverTypes, StoreTypes, store
<1>3. DriveInv'
  BY <1>0 DEF DriveInv, Held, Commanded
<1>4. CallInv'
  <2>1. before' # NoCommand
    BY ContentsType, CommandWritten DEF Types
  <2> QED
    BY <1>0, <2>1 DEF CallInv, Commanded
<1>5. SyncInv'
  <2>1. late # "earlier" => drive.state = "idle"
    BY <1>0 DEF SyncInv
  <2>2. drive.state = "idle" => InCommand'
    BY <1>0 DEF Commanded, InCommand, Held
  <2> QED
    BY <2>1, <2>2 DEF SyncInv
<1>6. ReadInv'
  BY <1>0 DEF ReadInv
<1>7. WriteInv'
  BY <1>0, SameContents DEF WriteInv, Written
<1> QED
  BY <1>2, <1>3, <1>4, <1>5, <1>6, <1>7 DEF IInv

(* wait_ready lets the driver through only when the drive asks for data or *)
(* has some, and after an error only to return.                            *)
LEMMA WaitForSectorStep ==
  ASSUME IInv, WaitForSector
  PROVE  IInv'
<1> USE DEF IInv, WaitForSector, store
<1>1. /\ polls' \in {polls, 0, (polls + 1) % POLLS}
      /\ \/ pc' = "transfer" /\ result' = result /\ late' = late
            /\ drive.state = "drq"
         \/ pc' = "idle" /\ result' = -1 /\ late' = late /\ drive.err = 1
            /\ drive.state # "busy"
         \/ /\ pc' = "idle" /\ result' = -2
            /\ late' = IF late = "never" THEN "this" ELSE late
         \/ pc' = "ready" /\ result' = result /\ late' = late
  BY DEF Return, Again, wait_ready, PollAgain
<1>2. Types'
  BY <1>1, PollsType DEF Types, DriverTypes, StoreTypes
<1>3. DriveInv' /\ CallInv'
  BY <1>1 DEF DriveInv, CallInv, Held
<1>4. SyncInv'
  <2>1. late # "earlier" => InCommand
    BY DEF SyncInv, CallInv
  <2>2. late # "this" /\ present = 1
    BY DEF CallInv
  <2>3. InCommand' <=> InCommand
    BY DEF InCommand, HoldsLast, Held
  <2>4. drive.err = 1 => drive.state \in {"idle", "absent"}
    BY DEF DriveInv, Types, DriveRecord
  <2>5. drive.state = "idle" => ~Held /\ Quiet'
    BY DEF DriveInv, Quiet
  <2>6. InCommand /\ Held => HoldsLast
    BY DEF InCommand, DriveInv
  <2>7. drive.state # "absent"
    BY <2>2 DEF CallInv
  <2> QED
    BY <1>1, <2>1, <2>2, <2>3, <2>4, <2>5, <2>6, <2>7
       DEF SyncInv, HoldsLast, Held, Types, StoreTypes
<1>5. ReadInv'
  BY <1>1, SameContents DEF ReadInv, Held, Types, StoreTypes
<1>6. WriteInv'
  BY <1>1, SameContents DEF WriteInv, Written, Held, Types, StoreTypes
<1> QED
  BY <1>2, <1>3, <1>4, <1>5, <1>6 DEF IInv

(* The sector goes to its place in the buffer: the drive is at it. *)
LEMMA ReadSectorStep ==
  ASSUME IInv, ReadSector
  PROVE  IInv'
<1> USE DEF IInv
<1>a. /\ UNCHANGED <<present, call, cache, platter, boots, late, before, dropped>>
      /\ pc = "transfer" /\ call.op = "read"
  BY DEF ReadSector, store, aux
<1>0. /\ sector \in Nat /\ sector < call.count /\ present = 1
      /\ call.lba \in Nat /\ call.count \in Nat
      /\ call.lba + call.count <= SECTORS /\ late # "this"
      /\ drive \in DriveRecord
  BY <1>a DEF Types, DriverTypes, CallRecord, CallInv
<1>1. /\ sector' = sector + 1
      /\ \/ sector + 1 < call.count /\ pc' = "ready"
            /\ UNCHANGED <<result, polls>>
         \/ ~(sector + 1 < call.count) /\ pc' = "idle" /\ result' = 0
            /\ polls' = 0
  BY DEF ReadSector, NextSector, Return
<1>2. \/ drive' = drive
      \/ /\ drive.cmd = "read" /\ drive.state = "drq" /\ drive.left >= 1
         /\ drive' = IdleDrive
      \/ /\ drive.cmd = "read" /\ drive.state = "drq" /\ drive.left > 1
         /\ drive' = [drive EXCEPT !.state = "busy", !.lba = drive.lba + 1,
                                   !.left = drive.left - 1]
  BY <1>0 DEF ReadSector, DriveInv, DriveRecord
<1>b. \/ drive' = drive
      \/ /\ drive'.state = "idle" /\ drive'.cmd = "none" /\ drive'.lba = 0
         /\ drive'.left = 0 /\ drive'.hold = NoData
      \/ /\ drive'.state = "busy" /\ drive'.cmd = "read"
         /\ drive'.err = drive.err /\ drive'.lba = drive.lba + 1
         /\ drive'.left = drive.left - 1 /\ drive'.hold = drive.hold
         /\ drive.state = "drq" /\ drive.left > 1
  <2>1. CASE drive' = IdleDrive
    BY <2>1 DEF IdleDrive
  <2>2. CASE drive' = [drive EXCEPT !.state = "busy", !.lba = drive.lba + 1,
                                    !.left = drive.left - 1]
    BY <1>0, <1>2, <2>2 DEF DriveRecord, IdleDrive
  <2> QED
    BY <1>2, <2>1, <2>2
<1>3. drive' \in DriveRecord
  <2>1. drive.left > 1 => drive.lba + 1 \in 0 .. SECTORS
                          /\ drive.left - 1 \in 0 .. SECTORS
    BY <1>0 DEF DriveRecord, DriveInv
  <2>2. CASE drive' = drive \/ drive' = IdleDrive
    BY <1>0, <2>2, IdleDriveType
  <2>3. CASE /\ drive.left > 1
             /\ drive' = [drive EXCEPT !.state = "busy",
                                       !.lba = drive.lba + 1,
                                       !.left = drive.left - 1]
    BY <1>0, <2>1, <2>3 DEF DriveRecord
  <2> QED
    BY <1>2, <2>2, <2>3
<1>4. buffer' \in Seq(Value \cup {NoData})
  <2>1. drive.cmd = "read" => drive.lba \in Sector
    BY <1>0 DEF DriveInv, DriveRecord, Sector
  <2>2. drive.cmd = "read" => Contents(drive.lba) \in Value
    BY <2>1, ContentsType DEF Types
  <2>3. \E v \in Value \cup {NoData} : buffer' = Append(buffer, v)
    BY <2>2 DEF ReadSector
  <2> QED
    BY <2>3 DEF Types, DriverTypes
<1>5. Types'
  <2>1. DriverTypes'
    <3>1. sector + 1 \in 0 .. SECTORS /\ 0 \in 0 .. POLLS - 1
      BY <1>0
    <3>2. DriverTypes
      BY DEF Types
    <3>3. /\ sector' \in 0 .. SECTORS /\ polls' \in 0 .. POLLS - 1
          /\ result' \in {-2, -1, 0, 1} /\ pc' \in {"ready", "idle"}
      BY <1>1, <3>1, <3>2 DEF DriverTypes
    <3> QED
      BY <1>a, <1>4, <3>2, <3>3 DEF DriverTypes
  <2>2. StoreTypes'
    BY <1>a DEF Types, StoreTypes
  <2> QED
    BY <1>3, <2>1, <2>2 DEF Types
<1>6. DriveInv'
  BY <1>0, <1>b DEF DriveRecord, DriveInv, Held
<1>7. CallInv'
  <2>1. drive'.cmd # "identify" /\ drive'.state # "absent"
    BY <1>0, <1>b DEF CallInv
  <2> QED
    BY <1>a, <1>0, <1>1, <2>1 DEF CallInv
<1>8. ASSUME late # "earlier"
      PROVE  /\ drive.state = "drq" /\ drive.cmd = "read" /\ ~Held
             /\ drive.lba = call.lba + sector
             /\ drive.left = call.count - sector
  BY <1>a, <1>0, <1>8 DEF SyncInv, InCommand, DriveInv
<1>9. SyncInv'
  <2> SUFFICES ASSUME late # "earlier" PROVE SyncInv'
    BY <1>a DEF SyncInv
  <2>1. ~Held'
    BY <1>b, <1>8 DEF Held
  <2>2. CASE sector + 1 < call.count
    <3>1. drive' = [drive EXCEPT !.state = "busy", !.lba = drive.lba + 1,
                                 !.left = drive.left - 1]
      BY <1>0, <1>8, <2>2 DEF ReadSector
    <3>2. /\ drive'.cmd = "read"
          /\ drive'.lba = call.lba + (sector + 1)
          /\ drive'.left = call.count - (sector + 1)
      BY <1>0, <1>8, <3>1 DEF DriveRecord
    <3> QED
      BY <1>a, <1>1, <2>1, <2>2, <3>2 DEF SyncInv, InCommand
  <2>3. CASE ~(sector + 1 < call.count)
    <3>1. drive' = IdleDrive
      BY <1>0, <1>8, <2>3 DEF ReadSector
    <3> QED
      BY <1>a, <1>0, <1>1, <2>1, <2>3, <3>1 DEF SyncInv, Quiet, IdleDrive
  <2> QED
    BY <2>2, <2>3
<1>10. ReadInv'
  <2> SUFFICES ASSUME late # "earlier" PROVE ReadInv'
    BY <1>a DEF ReadInv
  <2>1. buffer' = Append(buffer, Contents(call.lba + sector))
    BY <1>8 DEF ReadSector
  <2>2. /\ Len(buffer) = sector /\ buffer \in Seq(Value \cup {NoData})
        /\ \A k \in 1 .. sector : buffer[k] = Contents(call.lba + k - 1)
    BY <1>a DEF ReadInv, Types, DriverTypes
  <2>3. Len(buffer') = sector + 1
    BY <2>1, <2>2
  <2>4. ASSUME NEW k \in 1 .. sector + 1
        PROVE  buffer'[k] = Contents(call.lba + k - 1)
    <3>1. CASE k = sector + 1
      <4>1. call.lba + k - 1 = call.lba + sector
        BY <1>0, <3>1
      <4>2. buffer'[k] = Contents(call.lba + sector)
        BY <2>1, <2>2, <3>1
      <4> QED
        BY <4>1, <4>2
    <3>2. CASE k # sector + 1
      <4>1. k \in 1 .. sector
        BY <1>0, <3>2
      <4> QED
        BY <2>1, <2>2, <4>1
    <3> QED
      BY <3>1, <3>2
  <2>5. ~Held'
    BY <1>b, <1>8 DEF Held
  <2>6. pc' = "idle" => sector' = call.count
    BY <1>0, <1>1
  <2> QED
    BY <1>a, <1>1, <2>3, <2>4, <2>5, <2>6, SameContents DEF ReadInv, store
<1>11. WriteInv'
  BY <1>a DEF WriteInv
<1> QED
  BY <1>5, <1>6, <1>7, <1>9, <1>10, <1>11 DEF IInv

(* The drive takes the sector it asked for; it stores it later. *)
LEMMA WriteSectorStep ==
  ASSUME IInv, WriteSector
  PROVE  IInv'
<1> USE DEF IInv, WriteSector, store, aux
<1>0. /\ sector \in Nat /\ sector < call.count /\ present = 1
      /\ call.lba \in Nat /\ call.count \in Nat
      /\ call.lba + call.count <= SECTORS /\ late # "this"
      /\ drive \in DriveRecord
      /\ call.data \in Seq(Value) /\ call.count = Len(call.data)
  BY DEF Types, DriverTypes, CallRecord, CallInv
<1>1. /\ sector' = sector + 1 /\ UNCHANGED <<result, polls>>
      /\ \/ sector + 1 < call.count /\ pc' = "ready"
         \/ ~(sector + 1 < call.count) /\ pc' = "flush"
  BY DEF NextSector
<1>2. call.data[sector + 1] \in Value
  BY <1>0
<1>3. \/ drive' = drive /\ ~(drive.state = "drq" /\ drive.cmd = "write")
      \/ /\ drive.state = "drq" /\ drive.cmd = "write"
         /\ drive' = [drive EXCEPT !.state = "busy",
                                   !.hold = call.data[sector + 1]]
  OBVIOUS
<1>4. drive' \in DriveRecord
  BY <1>0, <1>2, <1>3 DEF DriveRecord
<1>5. Types'
  <2>1. DriverTypes'
    BY <1>0, <1>1 DEF Types, DriverTypes
  <2>2. StoreTypes'
    BY DEF Types, StoreTypes
  <2> QED
    BY <1>4, <2>1, <2>2 DEF Types
<1>6. DriveInv'
  BY <1>0, <1>2, <1>3 DEF DriveRecord, DriveInv, Held
<1>7. CallInv'
  <2>1. drive'.cmd # "identify" /\ drive'.state # "absent"
    BY <1>0, <1>3 DEF DriveRecord, CallInv
  <2> QED
    BY <1>0, <1>1, <2>1 DEF CallInv
<1>8. ASSUME late # "earlier"
      PROVE  /\ ~Held
             /\ drive' = [drive EXCEPT !.state = "busy",
                                       !.hold = call.data[sector + 1]]
             /\ drive'.cmd = "write"
             /\ drive'.lba = call.lba + sector
             /\ drive'.left = call.count - sector
             /\ drive'.hold = call.data[sector + 1]
  <2>1. /\ drive.state = "drq" /\ drive.cmd = "write" /\ ~Held
        /\ drive.lba = call.lba + sector
        /\ drive.left = call.count - sector
    BY <1>0, <1>8 DEF SyncInv, InCommand, DriveInv
  <2> QED
    BY <1>0, <1>3, <2>1 DEF DriveRecord
<1>9. SyncInv'
  <2> SUFFICES ASSUME late # "earlier" PROVE SyncInv'
    BY DEF SyncInv
  <2>1. Held' /\ HoldsLast'
    <3>1. Held'
      BY <1>2, <1>8 DEF Held
    <3>2. drive'.lba = call.lba + (sector + 1) - 1 /\ sector + 1 > 0
      BY <1>0, <1>8
    <3> QED
      BY <1>1, <1>8, <3>1, <3>2 DEF HoldsLast
  <2>2. drive'.left = call.count - sector' + 1
    BY <1>0, <1>1, <1>8
  <2>3. CASE pc' = "ready"
    BY <1>8, <2>1, <2>2, <2>3 DEF SyncInv, InCommand
  <2>4. CASE pc' = "flush"
    <3>1. drive'.left = 1
      BY <1>0, <1>1, <1>8, <2>4
    <3> QED
      BY <2>1, <2>4, <3>1 DEF SyncInv, Quiet
  <2> QED
    BY <1>1, <2>3, <2>4
<1>10. ReadInv'
  BY DEF ReadInv
<1>11. WriteInv'
  <2> SUFFICES ASSUME late # "earlier", NEW l \in Sector PROVE Written(l)'
    BY <1>1 DEF WriteInv
  <2> DEFINE k == l - call.lba + 1
  <2>1. /\ k \in Int /\ Held' /\ ~Held /\ Contents(l)' = Contents(l)
    <3>1. Held' /\ ~Held
      BY <1>2, <1>8 DEF Held
    <3>2. k \in Int
      BY <1>0 DEF Sector
    <3> QED
      BY <3>1, <3>2, SameContents
  <2>2. \/ Contents(l) = before[l] /\ (k \in 1 .. sector => dropped)
        \/ k \in 1 .. sector /\ Contents(l) = call.data[k]
    BY <2>1 DEF WriteInv, Written
  <2>3. k \in 1 .. sector + 1 => k \in 1 .. sector \/ k = sector + 1
    BY <1>0, <2>1
  <2>4. k \in 1 .. sector => k \in 1 .. sector + 1
    BY <1>0, <2>1
  <2> QED
    BY <1>1, <2>1, <2>2, <2>3, <2>4 DEF Written
<1> QED
  BY <1>5, <1>6, <1>7, <1>9, <1>10, <1>11 DEF IInv

(* A busy drive ignores the flush and goes on with the last sector. *)
LEMMA FlushStep ==
  ASSUME IInv, Flush
  PROVE  IInv'
<1> USE DEF IInv, Flush, store, aux
<1>1. drive' \in DriveRecord
  BY CommandedType DEF Types
<1>2. Types'
  BY <1>1 DEF Types, DriverTypes, StoreTypes
<1>3. DriveInv'
  BY DEF DriveInv, Held, Commanded
<1>4. CallInv'
  BY DEF CallInv, Commanded
<1>5. Held' <=> Held
  BY DEF DriveInv, Held, Commanded
<1>6. SyncInv'
  <2>1. Quiet => Quiet'
    BY <1>5 DEF Quiet, Commanded
  <2>2. Held /\ HoldsLast => HoldsLast'
    BY DEF HoldsLast, Commanded, DriveInv
  <2> QED
    BY <1>5, <2>1, <2>2 DEF SyncInv
<1>7. ReadInv'
  BY DEF ReadInv
<1>8. WriteInv'
  BY <1>5, SameContents DEF WriteInv, Written
<1> QED
  BY <1>2, <1>3, <1>4, <1>6, <1>7, <1>8 DEF IInv

LEMMA WaitForFlushStep ==
  ASSUME IInv, WaitForFlush
  PROVE  IInv'
<1> USE DEF IInv, WaitForFlush, store, aux
<1>1. /\ polls' \in {0, (polls + 1) % POLLS}
      /\ \/ pc' = "flushing" /\ result' = result
         \/ pc' = "idle" /\ result' = 0
  BY DEF Return, Again
<1>2. Types'
  BY <1>1, PollsType DEF Types, DriverTypes, StoreTypes
<1>3. DriveInv' /\ CallInv'
  BY <1>1 DEF DriveInv, CallInv, Held
<1>4. SyncInv'
  BY <1>1 DEF SyncInv, CallInv, Quiet, HoldsLast, Held
<1>5. ReadInv'
  BY DEF ReadInv, CallInv
<1>6. WriteInv'
  BY <1>1, SameContents DEF WriteInv, CallInv, Written, Held
<1> QED
  BY <1>2, <1>3, <1>4, <1>5, <1>6 DEF IInv

-----------------------------------------------------------------------------
(* The theorems *)

LEMMA InitIInv == Init => IInv
<1> SUFFICES ASSUME Init PROVE IInv
  OBVIOUS
<1> USE DEF Init
<1>1. NoCall \in CallRecord /\ buffer \in Seq(Value \cup {NoData})
  BY DEF NoCall, CallRecord
<1>2. Types
  <2>1. StoreTypes
    BY DEF StoreTypes
  <2>2. DriverTypes
    BY <1>1 DEF DriverTypes
  <2> QED
    BY <2>1, <2>2, IdleDriveType DEF Types
<1>3. DriveInv
  BY DEF DriveInv, Held, IdleDrive, NoDrive
<1>4. CallInv
  BY DEF CallInv, NoCall, IdleDrive, NoDrive
<1>5. SyncInv /\ ReadInv /\ WriteInv
  BY DEF SyncInv, ReadInv, WriteInv, NoCall
<1> QED
  BY <1>2, <1>3, <1>4, <1>5 DEF IInv

LEMMA StutterStep == IInv /\ UNCHANGED vars => IInv'
<1> SUFFICES ASSUME IInv, UNCHANGED vars PROVE IInv'
  OBVIOUS
<1> USE DEF vars, driver, store, aux, IInv
<1>1. Types' /\ DriveInv' /\ CallInv'
  BY DEF Types, DriverTypes, StoreTypes, DriveInv, CallInv, Held
<1>2. SyncInv'
  BY DEF SyncInv, Quiet, InCommand, HoldsLast, Held
<1>3. ReadInv' /\ WriteInv'
  BY SameContents DEF ReadInv, WriteInv, Written, Held
<1> QED
  BY <1>1, <1>2, <1>3 DEF IInv

(* One lemma per action: the invariant is inductive. *)
LEMMA IInvAlways == Spec => []IInv
<1>1. IInv /\ [Next]_vars => IInv'
  <2> SUFFICES ASSUME IInv, [Next]_vars PROVE IInv'
    OBVIOUS
  <2>1. CASE Driver
    BY <2>1, StartIdentifyStep, ata_initStep, WaitToStartStep,
       select_sectorStep, WaitForSectorStep, ReadSectorStep, WriteSectorStep,
       FlushStep, WaitForFlushStep DEF Driver
  <2>2. CASE Drive
    BY <2>2, DriveAsksStep, DriveStoresStep, DriveFlushesStep, DriveFailsStep,
       DriveWritesBackStep DEF Drive
  <2> QED
    BY <2>1, <2>2, CallerStep, PowerLossStep, StutterStep DEF Next
<1> QED
  BY <1>1, InitIInv, PTL DEF Spec

(* Whatever the drive does and however often a wait gives up, the driver's *)
(* registers, counters and addresses stay in range: no call and no command *)
(* reaches past the end of the disk.                                       *)
THEOREM AtaTypeAlways == Spec => []TypeOK
<1>1. IInv => TypeOK
  <2> SUFFICES ASSUME IInv PROVE TypeOK
    OBVIOUS
  <2>1. sector \in 0 .. call.count
    BY DEF IInv, Types, DriverTypes, CallRecord, CallInv
  <2>2. drive.left + drive.lba <= SECTORS
    BY DEF IInv, Types, DriveRecord, DriveInv
  <2> QED
    BY <2>1, <2>2 DEF IInv, Types, DriverTypes, StoreTypes, DriveRecord,
                      CallInv, TypeOK
<1> QED
  BY <1>1, IInvAlways, PTL

(* ata_read returns 0 only with the sectors it was asked for, on a disk of *)
(* every size and for every count, whatever the drive was still doing,     *)
(* unless wait_ready gave up in an earlier call.                           *)
THEOREM ReadAlways == Spec => []ReadReturnsSector
<1>1. IInv => ReadReturnsSector
  <2> SUFFICES ASSUME IInv, pc = "idle", call.op = "read", result = 0,
                      late # "earlier"
               PROVE  buffer = [k \in 1 .. call.count |->
                                  Contents(call.lba + k - 1)]
    BY DEF ReadReturnsSector
  <2>1. /\ buffer \in Seq(Value \cup {NoData}) /\ Len(buffer) = call.count
        /\ \A k \in 1 .. call.count : buffer[k] = Contents(call.lba + k - 1)
    BY DEF IInv, ReadInv, Types, DriverTypes
  <2> QED
    BY <2>1
<1> QED
  BY <1>1, IInvAlways, PTL

(* ata_write puts the caller's sectors where they belong, in order, and    *)
(* touches no other sector, whatever it returns; a write that fails at its *)
(* first sector has written nothing.                                       *)
THEOREM WriteAlways == Spec => []WriteStoresItsSectors
<1>1. IInv => WriteStoresItsSectors
  BY DEF IInv, WriteInv, Written, Held, WriteStoresItsSectors
<1> QED
  BY <1>1, IInvAlways, PTL
=============================================================================
