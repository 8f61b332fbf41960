-------------------------------- MODULE Disk --------------------------------
(***************************************************************************)
(* Sector input and output: blkdev_read and blkdev_write                   *)
(* (kernel/disk/blkdev.c) over the ATA PIO driver                          *)
(* (drivers/storage/ata_pio.c) and a drive with its status bits.           *)
(*                                                                         *)
(* A request is cut into chunks, a chunk is one command of the drive, and  *)
(* each sector of it is waited for and moved through the data port.  The   *)
(* drive works on its own between the polls of the driver.  It is external *)
(* and modelled by what the driver relies on: BSY while it works, DRQ when *)
(* a sector can be moved, ERR after a failure, a sector count of 0 read as *)
(* 256.  A command written while BSY is ignored; while DRQ, it may be      *)
(* ignored or obeyed.                                                      *)
(***************************************************************************)
EXTENDS Naturals

CONSTANTS
  ByteMod,         \* 256: a chunk's length is a uint8_t
  LbaMod,          \* 2^28: what an LBA28 command can address
  total_sectors,   \* at most LbaMod: sectors beyond it cannot be addressed
  Requests,        \* the calls clients make, <<sector, count>>
  Tags,            \* how many contents of a sector are told apart
  Errors,          \* the drive may fail on a sector
  MaxLate          \* bound on how often the drive is slower than a time-out

ASSUME DiskAssumption ==
  /\ ByteMod \in Nat \ {0, 1} /\ LbaMod \in Nat \ {0}
  /\ total_sectors \in Nat /\ total_sectors <= LbaMod /\ Tags \in Nat \ {0}
  /\ Requests \subseteq Nat \X (Nat \ {0})
  /\ Errors \in BOOLEAN /\ MaxLate \in Nat

VARIABLES
  disk,            \* what a read of each sector returns
  drive,           \* status, command, current LBA, sectors left, the sector
                   \* at its data port and whether the driver filled it
  pc,              \* "idle", or where the driver is
  op, sector, count, buffer,  \* arguments; buffer from its current position
  first, asked,    \* sector and count as blkdev passed them on
  chunk, i,        \* the chunk's length, the sectors of it that were moved
  result,          \* of the last call: "none", "ok" or "error"
  late             \* how often a wait has ended with the drive still busy

vars == <<disk, drive, pc, op, sector, count, buffer, first, asked,
          chunk, i, result, late>>
args == <<op, first, asked>>

Sectors == 0 .. total_sectors - 1
Old(s) == <<"old", s % Tags>>
New(k) == <<"new", k % Tags>>
Longest == total_sectors + ByteMod

Init ==
  /\ disk = [s \in Sectors |-> Old(s)]
  /\ drive = [status |-> "idle", cmd |-> "none", lba |-> 0, left |-> 0,
              data |-> Old(0), full |-> FALSE]
  /\ pc = "idle" /\ op = "none"
  /\ sector = 0 /\ count = 0 /\ first = 0 /\ asked = 0
  /\ buffer = [k \in 0 .. Longest |-> Old(0)]
  /\ chunk = 0 /\ i = 0 /\ result = "none" /\ late = 0

-----------------------------------------------------------------------------
(* The block layer.                                                        *)

Clamp(s, n) == IF s + n > total_sectors THEN total_sectors - s ELSE n

\* blkdev_read (o = "read") and blkdev_write.
blkdev(o, s, n) ==
  /\ pc = "idle"
  /\ op' = o
  /\ \/ /\ s >= total_sectors
        /\ result' = "error"
        /\ UNCHANGED <<pc, sector, count, buffer, first, asked>>
     \/ /\ s < total_sectors
        /\ sector' = s /\ first' = s
        /\ count' = Clamp(s, n) /\ asked' = Clamp(s, n)
        /\ buffer' = [k \in 0 .. Longest |->
                        IF o = "write" THEN New(k) ELSE Old(0)]
        /\ result' = "none"
        /\ pc' = "chunk"
  /\ UNCHANGED <<disk, drive, chunk, i, late>>

Return(r) == pc' = "idle" /\ result' = r

-----------------------------------------------------------------------------
(* ata_blkdev_read and ata_blkdev_write: the loop over chunks.             *)

Done == sector - first

\* Faulty: a long request is not cut.
Chunk_Uncut == count % ByteMod

Chunk == (IF count > ByteMod THEN ByteMod - 1 ELSE count) % ByteMod

next_chunk ==
  /\ pc = "chunk"
  /\ \/ count = 0 /\ Return("ok") /\ UNCHANGED <<chunk, i>>
     \/ /\ count > 0
        /\ chunk' = Chunk
        /\ i' = 0
        /\ pc' = "ready"
        /\ UNCHANGED result
  /\ UNCHANGED <<disk, drive, args, sector, count, buffer, late>>

\* Faulty: a sector is skipped.
chunk_done_OffByOne ==
  /\ sector' = sector + chunk + 1
  /\ count' = count - chunk
  /\ pc' = "chunk"

chunk_done ==
  /\ sector' = sector + chunk
  /\ count' = count - chunk
  /\ pc' = "chunk"

-----------------------------------------------------------------------------
(* ata_read_lba28 and ata_write_lba28.                                     *)

\* ata_wait_ready, the registers and the command.
Obey == drive' = [drive EXCEPT !.status = "busy", !.cmd = op,
                               !.lba = sector % LbaMod, !.full = FALSE,
                               !.left = IF chunk = 0 THEN ByteMod ELSE chunk]

command ==
  /\ pc = "ready"
  /\ drive.status # "busy"
  /\ \/ Obey
     \/ drive.status = "drq" /\ UNCHANGED drive
  /\ pc' = "sector"
  /\ UNCHANGED <<disk, args, sector, count, buffer, chunk, i, result,
                 late>>

\* Faulty: the buffer pointer is not moved on to the next chunk.
Position_Chunk == i

\* Where sector i of the chunk is in the caller's buffer.
Position == Done + i

\* ata_wait_drq sees DRQ: one sector is moved.
transfer ==
  /\ pc = "sector" /\ i < chunk
  /\ drive.status = "drq"
  /\ \/ /\ drive.cmd = "read"
        /\ drive' = [drive EXCEPT !.lba = @ + 1, !.left = @ - 1,
                       !.status = IF drive.left = 1 THEN "idle" ELSE "busy"]
        /\ buffer' = IF op = "read"
                     THEN [buffer EXCEPT ![Position] = drive.data] ELSE buffer
     \/ /\ drive.cmd = "write"
        /\ drive' = [drive EXCEPT !.status = "busy",
                       !.full = TRUE,
                       !.data = IF op = "write" THEN buffer[Position] ELSE @]
        /\ UNCHANGED buffer
  /\ i' = i + 1
  /\ UNCHANGED <<disk, pc, args, sector, count, chunk, result, late>>

\* The last sector is through: a read is done, a write has the cache flushed,
\* a command that a drive still at work ignores.
last_sector ==
  /\ pc = "sector" /\ i = chunk
  /\ \/ /\ op = "read"
        /\ chunk_done
        /\ UNCHANGED drive
     \/ /\ op = "write"
        /\ drive' = IF drive.status = "busy" THEN drive
                    ELSE [drive EXCEPT !.status = "busy", !.cmd = "flush"]
        /\ pc' = "settle"
        /\ UNCHANGED <<sector, count>>
  /\ UNCHANGED <<disk, args, buffer, chunk, i, result, late>>

\* ata_wait_ready after the flush, its result not looked at.
settle ==
  /\ pc = "settle"
  /\ \/ drive.status # "busy" /\ UNCHANGED late
     \/ drive.status = "busy" /\ late < MaxLate /\ late' = late + 1
  /\ chunk_done
  /\ UNCHANGED <<disk, drive, args, buffer, chunk, i, result>>

\* ata_wait_drq sees ERR, or waits in vain for a drive that has nothing more to
\* move.
fail ==
  /\ pc = "sector" /\ i < chunk
  /\ drive.status \in {"err", "idle"}
  /\ Return("error")
  /\ UNCHANGED <<disk, drive, args, sector, count, buffer, chunk, i, late>>

\* One of the two waits times out while the drive is busy.
timeout ==
  /\ late < MaxLate
  /\ pc = "ready" \/ (pc = "sector" /\ i < chunk)
  /\ drive.status = "busy"
  /\ late' = late + 1
  /\ Return("error")
  /\ UNCHANGED <<disk, drive, args, sector, count, buffer, chunk, i>>

-----------------------------------------------------------------------------
(* The drive.  While BSY it fetches a sector, stores one or flushes.       *)

Fetch ==
  /\ drive.cmd = "read"
  /\ drive.lba \in Sectors
  /\ drive' = [drive EXCEPT !.status = "drq", !.data = disk[drive.lba]]
  /\ UNCHANGED disk

Ask ==
  /\ drive.cmd = "write" /\ ~ drive.full
  /\ drive' = [drive EXCEPT !.status = "drq"]
  /\ UNCHANGED disk

Store ==
  /\ drive.cmd = "write" /\ drive.full
  /\ drive.lba \in Sectors
  /\ disk' = [disk EXCEPT ![drive.lba] = drive.data]
  /\ drive' = [drive EXCEPT !.lba = @ + 1, !.left = @ - 1, !.full = FALSE,
                 !.status = IF drive.left = 1 THEN "idle" ELSE "drq"]

Flush ==
  /\ drive.cmd = "flush"
  /\ drive' = [drive EXCEPT !.status = "idle"]
  /\ UNCHANGED disk

Fault ==
  /\ Errors \/ drive.lba \notin Sectors
  /\ drive' = [drive EXCEPT !.status = "err"]
  /\ UNCHANGED disk

drive_works ==
  /\ drive.status = "busy"
  /\ Fetch \/ Ask \/ Store \/ Flush \/ Fault
  /\ UNCHANGED <<pc, args, sector, count, buffer, chunk, i, result, late>>

Next ==
  \/ \E o \in {"read", "write"}, r \in Requests : blkdev(o, r[1], r[2])
  \/ next_chunk \/ command \/ transfer \/ last_sector \/ settle \/ fail
  \/ timeout
  \/ drive_works

Spec == Init /\ [][Next]_vars

\* The driver polls until its time-outs, and the drive gets on with its work.
Fairness ==
  /\ WF_vars(next_chunk \/ command \/ transfer \/ last_sector \/ settle \/ fail
             \/ timeout)
  /\ WF_vars(drive_works)

FairSpec == Spec /\ Fairness

-----------------------------------------------------------------------------
(* Properties.                                                             *)

Returned(o) == pc = "idle" /\ op = o /\ result = "ok"
Range == first .. first + asked - 1

\* A read that returns 0 has filled the buffer with the sectors asked for, in
\* order: the cuts between chunks, the clamp at the end of the device and calls
\* that failed before it make no difference.  A write that returns 0 has stored
\* every sector of the buffer that is not the last of its chunk, and that one
\* too if the drive has not failed on it: the driver looks for an error before
\* each sector and not after the last.  Once a wait has timed out this is lost:
\* the drive's late answer is taken for that of the next call.
SuccessIsFaithful ==
  late = 0 =>
    /\ Returned("read") =>
         \A k \in 0 .. asked - 1 : buffer[k] = disk[first + k]
    /\ Returned("write") =>
         \A k \in 0 .. asked - 1 :
           \/ disk[first + k] = New(k)
           \/ Errors /\ (k = asked - 1 \/ (k + 1) % (ByteMod - 1) = 0)

\* No sector changes but those of the write under way, whether it succeeds or
\* fails in the middle, as long as no wait has timed out.
WritesStayInRange ==
  [][\A s \in Sectors : disk'[s] # disk[s] /\ late = 0 =>
                           op = "write" /\ s \in Range]_vars

\* Every request returns, whatever the drive does: the waits have time-outs, and
\* each chunk makes progress ("ATA PIO can only handle 256 sectors at a time",
\* ata_pio.c:373, is the loop's own bound).
RequestsReturn == pc # "idle" ~> pc = "idle"

=============================================================================
