----------------------------- MODULE DiskProofs -----------------------------
(***************************************************************************)
(* What a success of blkdev_read or blkdev_write says, and which sectors a *)
(* write reaches, for a device, a chunk length and requests of any size,   *)
(* and a drive that may fail anywhere.                                     *)
(***************************************************************************)
EXTENDS Disk, Integers, TLAPS

Contents == {Old(n) : n \in Nat} \union {New(n) : n \in Nat}

Drives == [status : {"idle", "busy", "drq", "err"},
           cmd : {"none", "read", "write", "flush"},
           lba : Nat, left : Int, data : Contents, full : BOOLEAN]

TypeOK ==
  /\ disk \in [Sectors -> Contents]
  /\ drive \in Drives
  /\ pc \in {"idle", "chunk", "ready", "sector", "settle"}
  /\ op \in {"none", "read", "write"}
  /\ sector \in Nat /\ count \in Nat /\ first \in Nat /\ asked \in Nat
  /\ buffer \in [0 .. Longest -> Contents]
  /\ chunk \in Nat /\ i \in Nat /\ late \in Nat
  /\ result \in {"none", "ok", "error"}

Whole == \E q \in Nat : sector - first = q * (ByteMod - 1)

\* The driver's variables: what is done and what is left of the request, and
\* the chunk under way.  The sectors done are a whole number of full chunks,
\* unless there is nothing left.
Loop ==
  pc # "idle" =>
    /\ op \in {"read", "write"} /\ result = "none"
    /\ first <= sector /\ sector + count = first + asked
    /\ first + asked <= total_sectors
    /\ count > 0 => Whole
    /\ pc # "chunk" => count > 0 /\ chunk = Chunk /\ i <= chunk
    /\ pc = "ready" => i = 0
    /\ pc = "settle" => op = "write" /\ i = chunk

Working(cmd) == drive.status \in {"busy", "drq"} /\ drive.cmd = cmd

\* A command of length 0, of which the driver moves no sector.
Empty == /\ pc # "idle" /\ count > 0 /\ chunk = 0 /\ Chunk = 0
         /\ drive.lba = sector

\* The drive has sector i of the chunk to move next.
AtSector == /\ pc = "sector" /\ i < chunk
            /\ drive.lba = sector + i /\ drive.left = chunk - i

\* The drive has been given the sector before i and not stored it yet.
Pending == /\ pc \in {"sector", "settle"} /\ 0 < i /\ i <= chunk
           /\ drive.status = "busy"
           /\ drive.lba = sector + i - 1 /\ drive.left = chunk - i + 1
           /\ drive.data = New(sector - first + i - 1)

\* The drive works for the call that is running, and on the sector the driver
\* believes.
Sync ==
  /\ Working("read") =>
       /\ op = "read"
       /\ Empty \/ AtSector
       /\ AtSector /\ drive.status = "drq" => drive.data = disk[drive.lba]
  /\ Working("write") =>
       /\ op = "write"
       /\ IF drive.full THEN Pending ELSE Empty \/ AtSector
  /\ Working("flush") => drive.status = "busy" /\ pc = "settle"
  /\ ~ Working("none")

Stored(k) == disk[first + k] = New(k)
Excused(k) == Errors /\ (k = asked - 1 \/ (k + 1) % (ByteMod - 1) = 0)

Moved == sector - first + (IF pc = "sector" THEN i ELSE 0)

\* The sectors moved by a read so far.
ReadSoFar ==
  op = "read" /\ pc # "idle" =>
    \A k \in 0 .. Moved - 1 : buffer[k] = disk[first + k]

\* The sectors stored by a write so far: those of earlier chunks, and of this
\* one all but the last that was moved, which is stored, on its way, or failed.
WrittenSoFar ==
  op = "write" /\ pc # "idle" =>
    /\ \A k \in 0 .. Longest : buffer[k] = New(k)
    /\ \A k \in 0 .. sector - first - 1 : Stored(k) \/ Excused(k)
    /\ pc \in {"sector", "settle"} =>
         /\ \A k \in sector - first .. sector - first + i - 2 : Stored(k)
         /\ 0 < i => \/ Stored(sector - first + i - 1)
                     \/ Working("write") /\ drive.full
                     \/ Errors /\ (drive.status \in {"idle", "err"}
                                   \/ Working("flush"))

IInv == /\ TypeOK /\ Loop
        /\ late = 0 => Sync /\ ReadSoFar /\ WrittenSoFar
        /\ SuccessIsFaithful
-----------------------------------------------------------------------------
(* Arithmetic.                                                             *)

\* Multiples of n.
LEMMA Multiple ==
  ASSUME NEW n \in Nat \ {0}, NEW q \in Nat
  PROVE  (q * n) % n = 0 /\ q * n + n = (q + 1) * n
OBVIOUS

\* Remainders of small numbers.
LEMMA Small == ASSUME NEW n \in Nat \ {0}, NEW q \in Nat, q < n PROVE q % n = q
OBVIOUS

LEMMA Same == ASSUME NEW n \in Nat \ {0} PROVE n % n = 0
OBVIOUS

\* A chunk is a full one or the rest of the request, or, for a rest of exactly
\* ByteMod, empty.
LEMMA ChunkCut ==
  ASSUME count \in Nat
  PROVE  Chunk \in Nat /\ Chunk <= count
         /\ (Chunk # 0 => Chunk = count \/ Chunk = ByteMod - 1)
<1>1. CASE count > ByteMod
  <2>1. (ByteMod - 1) % ByteMod = ByteMod - 1
    BY DiskAssumption, Small
  <2> QED BY <1>1, <2>1, DiskAssumption DEF Chunk
<1>2. CASE count = ByteMod
  BY <1>2, DiskAssumption, Same DEF Chunk
<1>3. CASE count < ByteMod
  BY <1>3, DiskAssumption, Small DEF Chunk
<1> QED BY <1>1, <1>2, <1>3, DiskAssumption

-----------------------------------------------------------------------------
(* Types.                                                                  *)

\* Every tag is a content.
LEMMA InContents == \A n \in Nat : Old(n) \in Contents /\ New(n) \in Contents
BY Zenon DEF Contents

LEMMA InitType == Init => TypeOK
BY InContents, DiskAssumption DEF Init, TypeOK, Drives, Sectors, Longest

\* Every step keeps the types.
LEMMA TypeStep == TypeOK /\ Loop /\ [Next]_vars => TypeOK'
<1> SUFFICES ASSUME TypeOK, Loop, [Next]_vars PROVE TypeOK'
  BY Zenon
<1> USE DiskAssumption DEF TypeOK
<1>1. ASSUME NEW o \in {"read", "write"}, NEW r \in Requests, blkdev(o, r[1], r[2])
      PROVE  TypeOK'
  <2>1. r[1] \in Nat /\ r[2] \in Nat
    BY Zenon
  <2>2. CASE r[1] >= total_sectors
    BY <1>1, <2>1, <2>2 DEF blkdev
  <2>3. CASE r[1] < total_sectors
    <3>1. Clamp(r[1], r[2]) \in Nat
      BY <2>1, <2>3 DEF Clamp
    <3>2. [k \in 0 .. Longest |-> IF o = "write" THEN New(k) ELSE Old(0)]
            \in [0 .. Longest -> Contents]
      BY InContents DEF Longest
    <3> QED BY <1>1, <2>1, <2>3, <3>1, <3>2, Zenon DEF blkdev
  <2> QED BY <2>1, <2>2, <2>3
<1>2. CASE next_chunk
  BY <1>2, ChunkCut DEF next_chunk, Return, args
<1>3. CASE command
  <2>1. sector % LbaMod \in Nat
    OBVIOUS
  <2>2. op \in {"read", "write"}
    BY <1>3, Zenon DEF command, Loop
  <2>3. drive' \in Drives
    <3> DEFINE n == IF chunk = 0 THEN ByteMod ELSE chunk
               a == sector % LbaMod
    <3>1. n \in Int /\ a \in Nat
      BY <2>1
    <3>2. CASE Obey
      <4>1. drive' = [drive EXCEPT !.status = "busy", !.cmd = op, !.lba = a,
                                   !.full = FALSE, !.left = n]
        BY <3>2, Zenon DEF Obey
      <4> HIDE DEF n, a
      <4> QED BY <2>2, <3>1, <4>1, Zenon DEF Drives
    <3> QED BY <1>3, <3>2, Zenon DEF command
  <2> QED BY <1>3, <2>3, Zenon DEF command, args
<1>4. CASE transfer
  <2>1. Position \in 0 .. Longest
    <3>1. chunk <= count
      BY <1>4, ChunkCut, Zenon DEF transfer, Loop
    <3>2. /\ i < chunk /\ first <= sector
          /\ sector + count = first + asked /\ first + asked <= total_sectors
      BY <1>4, Zenon DEF transfer, Loop
    <3> QED BY <3>1, <3>2 DEF Position, Done, Longest
  <2>2. drive' \in Drives
    <3>1. buffer[Position] \in Contents
      BY <2>1, Zenon
    <3>2. CASE drive.cmd = "read"
      <4> DEFINE s == IF drive.left = 1 THEN "idle" ELSE "busy"
      <4>1. /\ s \in {"idle", "busy", "drq", "err"}
            /\ drive.lba + 1 \in Nat /\ drive.left - 1 \in Int
        BY DEF Drives
      <4>2. drive' = [drive EXCEPT !.lba = drive.lba + 1, !.left = drive.left - 1,
                                   !.status = s]
        BY <1>4, <3>2, Zenon DEF transfer
      <4> HIDE DEF s
      <4> QED BY <4>1, <4>2, Zenon DEF Drives
    <3>3. CASE drive.cmd = "write"
      <4> DEFINE d == IF op = "write" THEN buffer[Position] ELSE drive.data
      <4>1. d \in Contents
        BY <3>1, Zenon DEF Drives
      <4>2. drive' = [drive EXCEPT !.status = "busy", !.full = TRUE, !.data = d]
        BY <1>4, <3>3, Zenon DEF transfer
      <4> HIDE DEF d
      <4> QED BY <4>1, <4>2, Zenon DEF Drives
    <3> QED BY <1>4, <3>2, <3>3, Zenon DEF transfer
  <2>3. buffer' \in [0 .. Longest -> Contents]
    BY <1>4, <2>1, Zenon DEF transfer, Drives
  <2> QED BY <1>4, <2>2, <2>3 DEF transfer, args
<1>5. CASE last_sector
  <2>1. chunk <= count
    BY <1>5, ChunkCut, Zenon DEF last_sector, Loop
  <2>2. drive' \in Drives
    <3>1. [drive EXCEPT !.status = "busy", !.cmd = "flush"] \in Drives
      BY Zenon DEF Drives
    <3>2. drive' = drive \/ drive' = [drive EXCEPT !.status = "busy", !.cmd = "flush"]
      BY <1>5, Zenon DEF last_sector
    <3> QED BY <3>1, <3>2, Zenon
  <2>3. sector + chunk \in Nat /\ count - chunk \in Nat
    BY <2>1
  <2> QED BY <1>5, <2>2, <2>3, Zenon DEF last_sector, chunk_done, args
<1>6. CASE settle
  <2>1. chunk <= count
    BY <1>6, ChunkCut, Zenon DEF settle, Loop
  <2>2. sector + chunk \in Nat /\ count - chunk \in Nat /\ late + 1 \in Nat
    BY <2>1
  <2> QED BY <1>6, <2>2, Zenon DEF settle, chunk_done, args
<1>7. CASE fail
  BY <1>7, Zenon DEF fail, Return, args
<1>8. CASE timeout
  BY <1>8 DEF timeout, Return, args
<1>9. CASE drive_works
  <2>1. drive.lba \in Sectors => disk[drive.lba] \in Contents
    BY Zenon
  <2>2. drive' \in Drives
    <3>1. CASE Fetch BY <2>1, <3>1, Zenon DEF Fetch, Drives
    <3>2. CASE Ask BY <3>2, Zenon DEF Ask, Drives
    <3>3. CASE Store
      <4> DEFINE s == IF drive.left = 1 THEN "idle" ELSE "drq"
      <4>1. /\ s \in {"idle", "busy", "drq", "err"}
            /\ drive.lba + 1 \in Nat /\ drive.left - 1 \in Int
        BY DEF Drives
      <4>2. drive' = [drive EXCEPT !.lba = drive.lba + 1, !.left = drive.left - 1,
                                   !.full = FALSE, !.status = s]
        BY <3>3, Zenon DEF Store
      <4> HIDE DEF s
      <4> QED BY <4>1, <4>2, Zenon DEF Drives
    <3>4. CASE Flush BY <3>4, Zenon DEF Flush, Drives
    <3>5. CASE Fault BY <3>5, Zenon DEF Fault, Drives
    <3> QED BY <1>9, <3>1, <3>2, <3>3, <3>4, <3>5, Zenon DEF drive_works
  <2>3. disk' \in [Sectors -> Contents]
    BY <1>9, Zenon DEF drive_works, Fetch, Ask, Store, Flush, Fault, Drives
  <2> QED BY <1>9, <2>2, <2>3, Zenon DEF drive_works, args
<1>10. CASE UNCHANGED vars
  BY <1>10, Zenon DEF vars
<1> QED BY <1>1, <1>2, <1>3, <1>4, <1>5, <1>6, <1>7, <1>8, <1>9, <1>10, Zenon DEF Next

\* Every step keeps the loop's bounds.
LEMMA LoopStep == TypeOK /\ Loop /\ [Next]_vars => Loop'
<1> SUFFICES ASSUME TypeOK, Loop, [Next]_vars, pc' # "idle" PROVE Loop'
  BY Zenon DEF Loop
<1> USE DiskAssumption DEF TypeOK
<1>1. ASSUME NEW o \in {"read", "write"}, NEW r \in Requests, blkdev(o, r[1], r[2])
      PROVE  Loop'
  <2>1. r[1] \in Nat /\ r[2] \in Nat
    BY Zenon
  <2>2. r[1] < total_sectors
    BY <1>1, <2>1, Zenon DEF blkdev
  <2>3. r[1] - r[1] = 0 * (ByteMod - 1)
    BY <2>1
  <2>4. Whole'
    BY <1>1, <2>1, <2>2, <2>3, Zenon DEF blkdev, Whole
  <2> QED BY <1>1, <2>1, <2>2, <2>4 DEF blkdev, Clamp, Loop
<1>2. CASE next_chunk
  BY <1>2, ChunkCut DEF next_chunk, Return, args, Loop, Chunk, Whole
<1>3. CASE command
  BY <1>3, Zenon DEF command, Loop, Chunk, Whole, args
<1>4. CASE transfer
  BY <1>4 DEF transfer, Loop, Chunk, Whole, args
<1>5. ASSUME chunk_done, pc # "chunk", pc # "idle", UNCHANGED <<args, result>>
      PROVE  Loop'
  <2>1. PICK q \in Nat : sector - first = q * (ByteMod - 1)
    BY <1>5, Zenon DEF Loop, Whole
  <2>2. sector' - first' = q * (ByteMod - 1) + chunk
    BY <1>5, <2>1 DEF chunk_done, args
  <2>3. chunk = ByteMod - 1 => sector' - first' = (q + 1) * (ByteMod - 1)
    BY <2>2, Multiple
  <2>4. chunk = 0 => sector' - first' = q * (ByteMod - 1)
    BY <2>2
  <2>5. chunk = 0 \/ chunk = count \/ chunk = ByteMod - 1
    BY <1>5, ChunkCut, Zenon DEF Loop
  <2>6. count' > 0 => Whole'
    <3>1. CASE chunk = 0
      BY <2>4, <3>1, Zenon DEF Whole
    <3>2. CASE chunk = count
      BY <1>5, <3>2 DEF chunk_done
    <3>3. CASE chunk = ByteMod - 1
      <4>1. q + 1 \in Nat
        OBVIOUS
      <4> QED BY <2>3, <3>3, <4>1, Zenon DEF Whole
    <3> QED BY <2>5, <3>1, <3>2, <3>3, Zenon
  <2>7. chunk <= count
    BY <1>5, ChunkCut, Zenon DEF Loop
  <2> QED BY <1>5, <2>6, <2>7 DEF chunk_done, Loop, args
<1>6. CASE last_sector
  <2>1. CASE op = "read"
    BY <1>5, <1>6, <2>1, Zenon DEF last_sector
  <2>2. CASE op = "write"
    BY <1>6, <2>2, Zenon DEF last_sector, Loop, Chunk, Whole, args
  <2> QED BY <1>6, <2>1, <2>2, Zenon DEF last_sector
<1>7. CASE settle
  BY <1>5, <1>7, Zenon DEF settle
<1>8. CASE fail \/ timeout
  BY <1>8, Zenon DEF fail, timeout, Return
<1>9. CASE drive_works
  BY <1>9, Zenon DEF drive_works, args, Loop, Chunk, Whole
<1>10. CASE UNCHANGED vars
  BY <1>10, Zenon DEF vars, Loop, Chunk, Whole
<1> QED BY <1>1, <1>2, <1>3, <1>4, <1>6, <1>7, <1>8, <1>9, <1>10, Zenon DEF Next
-----------------------------------------------------------------------------
(* The drive is in step with the driver.                                   *)

\* A time-out is never forgotten.
LEMMA LateStep == TypeOK /\ [Next]_vars /\ late' = 0 => late = 0
BY DEF TypeOK, Next, vars, args, blkdev, next_chunk, command, transfer, last_sector,
       settle, fail, timeout, drive_works

\* Until a wait times out the drive stays in step with the driver.
LEMMA SyncStep ==
  ASSUME TypeOK, Loop, Sync, TypeOK', Loop', Next, late = 0, late' = 0,
         op = "write" /\ pc # "idle" => \A k \in 0 .. Longest : buffer[k] = New(k)
  PROVE  Sync'
<1> USE DEF Working
<1>0. /\ sector \in Nat /\ chunk \in Nat /\ i \in Nat /\ count \in Nat
      /\ drive \in Drives /\ first \in Nat
  BY Zenon DEF TypeOK
<1>1. ASSUME NEW o \in {"read", "write"}, NEW r \in Requests, blkdev(o, r[1], r[2])
      PROVE  Sync'
  <2>1. ~ Working("read") /\ ~ Working("write") /\ ~ Working("flush")
    BY <1>1, Zenon DEF blkdev, Sync, Empty, AtSector, Pending
  <2> QED BY <1>1, <2>1, Zenon DEF blkdev, Sync
<1>2. CASE next_chunk
  <2>1. UNCHANGED <<drive, op, disk, sector, count>>
    BY <1>2, Zenon DEF next_chunk, args
  <2>2. Working("read") => op = "read" /\ Empty
    BY <1>2, Zenon DEF Sync, AtSector, next_chunk
  <2>3. Working("write") => op = "write" /\ ~ drive.full /\ Empty
    BY <1>2, Zenon DEF Sync, AtSector, Pending, next_chunk
  <2>4. ~ Working("flush")
    BY <1>2, Zenon DEF Sync, next_chunk
  <2>5. Empty => Empty' /\ ~ AtSector'
    BY <1>2, <2>1 DEF Empty, next_chunk, AtSector, Chunk
  <2> QED BY <2>1, <2>2, <2>3, <2>4, <2>5, Zenon DEF Sync
<1>3. CASE command
  <2>1. /\ UNCHANGED <<op, disk, sector, count, chunk, i, first>>
        /\ pc' = "sector" /\ i = 0 /\ chunk = Chunk /\ count > 0
        /\ op \in {"read", "write"}
    BY <1>3, Zenon DEF command, args, Loop
  <2>2. CASE Obey
    <3>1. sector % LbaMod = sector
      <4>1. sector < LbaMod
        BY <1>3, <1>0, <2>1, DiskAssumption DEF command, Loop, TypeOK
      <4> QED BY <1>0, <4>1, Small, DiskAssumption, Zenon
    <3>2. /\ drive'.status = "busy" /\ drive'.cmd = op /\ drive'.lba = sector
          /\ drive'.full = FALSE
          /\ chunk # 0 => drive'.left = chunk
      BY <1>0, <2>2, <3>1, Zenon DEF Obey, Drives
    <3>3. Empty' \/ AtSector'
      BY <1>0, <2>1, <3>2 DEF Empty, AtSector, Chunk
    <3> QED BY <2>1, <3>2, <3>3, Zenon DEF Sync
  <2>3. CASE drive.status = "drq" /\ UNCHANGED drive
    <3>1. pc = "ready"
      BY <1>3, Zenon DEF command
    <3>2. Empty => Empty' /\ ~ AtSector'
      BY <1>0, <2>1, <2>3 DEF Empty, AtSector, Chunk
    <3> QED BY <2>1, <2>3, <3>1, <3>2, Zenon DEF Sync, AtSector, Pending
  <2> QED BY <1>3, <2>2, <2>3, Zenon DEF command
<1>4. CASE transfer
  <2>1. /\ UNCHANGED <<op, disk, sector, count, chunk, first, pc>>
        /\ pc = "sector" /\ i < chunk /\ drive.status = "drq" /\ i' = i + 1
        /\ ~ Empty
    BY <1>4, <1>0 DEF transfer, args, Empty
  <2>2. CASE drive.cmd = "read"
    <3>1. AtSector /\ op = "read"
      BY <2>1, <2>2, Zenon DEF Sync
    <3>2. /\ drive'.lba = drive.lba + 1 /\ drive'.left = drive.left - 1
          /\ drive'.cmd = "read"
          /\ drive'.status = IF drive.left = 1 THEN "idle" ELSE "busy"
      BY <1>0, <1>4, <2>2, Zenon DEF transfer, Drives
    <3>3. drive.left # 1 => AtSector'
      BY <1>0, <2>1, <3>1, <3>2 DEF AtSector
    <3> QED BY <2>1, <3>1, <3>2, <3>3, Zenon DEF Sync
  <2>3. CASE drive.cmd = "write"
    <3>1. AtSector /\ op = "write" /\ ~ drive.full
      BY <2>1, <2>3, Zenon DEF Sync, Pending
    <3>2. /\ drive'.lba = drive.lba /\ drive'.left = drive.left
          /\ drive'.cmd = "write" /\ drive'.status = "busy" /\ drive'.full = TRUE
          /\ drive'.data = buffer[sector - first + i]
      BY <1>0, <1>4, <2>3, <3>1, Zenon DEF transfer, Drives, Position, Done
    <3>3. buffer[sector - first + i] = New(sector - first + i)
      <4>1. sector - first + i \in 0 .. Longest
        <5>1. chunk <= count
          BY <1>0, <2>1, ChunkCut, Zenon DEF Loop
        <5> QED BY <1>0, <2>1, <5>1, DiskAssumption DEF Loop, Longest, TypeOK
      <4> QED BY <2>1, <3>1, <4>1, Zenon
    <3>4. Pending'
      BY <1>0, <2>1, <3>1, <3>2, <3>3 DEF AtSector, Pending
    <3> QED BY <2>1, <3>1, <3>2, <3>4, Zenon DEF Sync
  <2> QED BY <1>4, <2>2, <2>3, Zenon DEF transfer
<1>5. CASE last_sector
  <2>1. /\ UNCHANGED <<op, disk, chunk, first, i>>
        /\ pc = "sector" /\ i = chunk /\ ~ AtSector /\ op \in {"read", "write"}
    BY <1>5, <1>0 DEF last_sector, args, AtSector, Loop
  <2>2. CASE op = "read"
    <3>1. UNCHANGED drive /\ pc' = "chunk" /\ sector' = sector + chunk
          /\ count' = count - chunk
      BY <1>5, <2>2, Zenon DEF last_sector, chunk_done
    <3>2. Empty => Empty' /\ ~ AtSector'
      BY <1>0, <2>1, <3>1 DEF Empty, AtSector, Chunk
    <3> QED BY <2>1, <2>2, <3>1, <3>2, Zenon DEF Sync
  <2>3. CASE op = "write"
    <3>1. UNCHANGED <<sector, count>> /\ pc' = "settle"
      BY <1>5, <2>3, Zenon DEF last_sector
    <3>2. CASE drive.status = "busy"
      <4>1. UNCHANGED drive
        BY <1>5, <2>3, <3>2, Zenon DEF last_sector
      <4>2. (Empty => Empty') /\ (Pending => Pending') /\ ~ AtSector'
        BY <2>1, <3>1, <4>1, Zenon DEF Empty, Pending, AtSector, Chunk
      <4> QED BY <2>1, <2>3, <3>1, <3>2, <4>1, <4>2, Zenon DEF Sync
    <3>3. CASE drive.status # "busy"
      <4>1. drive'.status = "busy" /\ drive'.cmd = "flush"
        BY <1>0, <1>5, <2>3, <3>3, Zenon DEF last_sector, Drives
      <4> QED BY <3>1, <4>1, Zenon DEF Sync
    <3> QED BY <3>2, <3>3, Zenon
  <2> QED BY <2>1, <2>2, <2>3, Zenon
<1>6. CASE settle
  <2>1. /\ UNCHANGED <<op, disk, chunk, first, i, drive>>
        /\ pc = "settle" /\ drive.status # "busy" /\ op = "write"
        /\ pc' = "chunk" /\ sector' = sector + chunk /\ count' = count - chunk
    BY <1>6 DEF settle, chunk_done, args, Loop
  <2>2. Empty => Empty' /\ ~ AtSector'
    BY <1>0, <2>1 DEF Empty, AtSector, Chunk
  <2> QED BY <2>1, <2>2, Zenon DEF Sync, AtSector, Pending
<1>7. CASE fail
  BY <1>7, Zenon DEF fail, Sync
<1>8. CASE timeout
  BY <1>8, <1>0 DEF timeout
<1>9. CASE drive_works
  <2>1. /\ UNCHANGED <<op, chunk, first, i, sector, count, pc>>
        /\ drive.status = "busy"
    BY <1>9, Zenon DEF drive_works, args
  <2>2. CASE Fetch
    <3>1. UNCHANGED disk /\ drive.cmd = "read" /\ drive'.lba = drive.lba
          /\ drive'.left = drive.left /\ drive'.cmd = "read"
          /\ drive'.status = "drq" /\ drive'.data = disk[drive.lba]
      BY <1>0, <2>2, Zenon DEF Fetch, Drives
    <3>2. Empty' = Empty /\ AtSector' = AtSector
      BY <2>1, <3>1, Zenon DEF Empty, AtSector, Chunk
    <3> QED BY <2>1, <3>1, <3>2, Zenon DEF Sync
  <2>3. CASE Ask
    <3>1. UNCHANGED disk /\ drive.cmd = "write" /\ drive'.lba = drive.lba
          /\ drive'.left = drive.left /\ drive'.cmd = "write"
          /\ drive'.status = "drq" /\ ~ drive.full /\ ~ drive'.full
      BY <1>0, <2>3, Zenon DEF Ask, Drives
    <3>2. Empty' = Empty /\ AtSector' = AtSector
      BY <2>1, <3>1, Zenon DEF Empty, AtSector, Chunk
    <3> QED BY <2>1, <3>1, <3>2, Zenon DEF Sync
  <2>4. CASE Store
    <3>1. drive.cmd = "write" /\ drive.full /\ drive'.lba = drive.lba + 1
          /\ drive'.left = drive.left - 1 /\ drive'.cmd = "write" /\ ~ drive'.full
          /\ drive'.status = IF drive.left = 1 THEN "idle" ELSE "drq"
      BY <1>0, <2>4, Zenon DEF Store, Drives
    <3>2. Pending /\ op = "write"
      BY <2>1, <3>1, Zenon DEF Sync
    <3>3. drive.left # 1 => AtSector'
      BY <1>0, <2>1, <3>1, <3>2 DEF Pending, AtSector, Loop
    <3> QED BY <2>1, <3>1, <3>2, <3>3, Zenon DEF Sync
  <2>5. CASE Flush \/ Fault
    <3>1. drive'.status \in {"idle", "err"}
      BY <1>0, <2>5, Zenon DEF Flush, Fault, Drives
    <3> QED BY <3>1, Zenon DEF Sync
  <2> QED BY <1>9, <2>2, <2>3, <2>4, <2>5, Zenon DEF drive_works
<1> QED BY <1>1, <1>2, <1>3, <1>4, <1>5, <1>6, <1>7, <1>8, <1>9, Zenon DEF Next

\* What the drive stores while no wait has timed out.
LEMMA StoreInRange ==
  ASSUME TypeOK, Loop, Sync, drive.status = "busy", Store
  PROVE  /\ op = "write" /\ Pending
         /\ drive.lba \in Range /\ drive.lba \in Sectors
<1>1. op = "write" /\ Pending
  BY Zenon DEF Sync, Working, Store
<1>2. chunk <= count
  BY <1>1, ChunkCut, Zenon DEF Loop, Pending, TypeOK
<1> QED BY <1>1, <1>2, DiskAssumption DEF Pending, Loop, TypeOK, Range, Sectors

\* Only the drive changes a sector, by storing one.
LEMMA DiskStep ==
  ASSUME TypeOK, Loop, Sync, Next, disk' # disk
  PROVE  drive_works /\ Store
BY Zenon DEF Next, blkdev, next_chunk, command, transfer, last_sector, settle, fail, timeout,
       drive_works, Fetch, Ask, Flush, Fault

-----------------------------------------------------------------------------
(* Reads.                                                                  *)

\* A read adds one sector at a time to what it has read.
LEMMA ReadStep ==
  ASSUME TypeOK, Loop, Sync, ReadSoFar, TypeOK', Loop', Next, late = 0, late' = 0
  PROVE  ReadSoFar'
<1> SUFFICES ASSUME op' = "read", pc' # "idle"
             PROVE  \A k \in 0 .. Moved' - 1 : buffer'[k] = disk'[first' + k]
  BY Zenon DEF ReadSoFar
<1>0. /\ sector \in Nat /\ chunk \in Nat /\ i \in Nat /\ count \in Nat
      /\ drive \in Drives /\ first \in Nat /\ asked \in Nat
      /\ buffer \in [0 .. Longest -> Contents]
  BY Zenon DEF TypeOK
<1>1. ASSUME NEW o \in {"read", "write"}, NEW r \in Requests, blkdev(o, r[1], r[2])
      PROVE  Moved' = 0
  <2>1. r[1] \in Nat
    BY DiskAssumption, Zenon
  <2> QED BY <1>1, <2>1 DEF blkdev, Moved
<1>2. CASE UNCHANGED <<op, disk, first, buffer>> /\ pc # "idle" /\ Moved' = Moved
  BY <1>2, Zenon DEF ReadSoFar
<1>3. CASE next_chunk
  BY <1>0, <1>2, <1>3, Zenon DEF next_chunk, Return, args, Moved
<1>4. CASE command
  BY <1>0, <1>2, <1>4, Zenon DEF command, args, Moved, Loop
<1>5. CASE transfer
  <2>1. /\ UNCHANGED <<op, disk, first, sector, pc, chunk>> /\ op = "read"
        /\ pc = "sector" /\ i < chunk /\ drive.status = "drq" /\ i' = i + 1
    BY <1>5, Zenon DEF transfer, args
  <2>2. drive.cmd = "read" /\ AtSector /\ drive.data = disk[drive.lba]
    BY <1>5, <1>0, <2>1 DEF transfer, Sync, Working, Empty
  <2>3. /\ Moved = sector - first + i /\ Moved' = Moved + 1 /\ Moved \in Nat
        /\ first + Moved = drive.lba
    BY <1>0, <2>1, <2>2 DEF Moved, Loop, AtSector
  <2>4. buffer' = [buffer EXCEPT ![Moved] = disk[first + Moved]]
    BY <1>5, <2>1, <2>2, <2>3, Zenon DEF transfer, Position, Done
  <2>5. Moved \in 0 .. Longest
    <3>1. chunk <= count
      BY <1>0, <2>1, ChunkCut, Zenon DEF Loop
    <3> QED BY <1>0, <2>1, <2>3, <3>1, DiskAssumption DEF Loop, Longest
  <2>6. ASSUME NEW k \in 0 .. Moved PROVE buffer'[k] = disk[first + k]
    <3>1. CASE k = Moved
      BY <1>0, <2>4, <2>5, <3>1, Zenon
    <3>2. CASE k # Moved
      <4>1. k \in 0 .. Moved - 1
        BY <2>3, <3>2
      <4>2. buffer[k] = disk[first + k]
        BY <2>1, <4>1, Zenon DEF ReadSoFar
      <4> QED BY <1>0, <2>3, <2>4, <2>5, <3>2, <4>2
    <3> QED BY <3>1, <3>2, Zenon
  <2> QED BY <2>1, <2>3, <2>6
<1>6. CASE last_sector
  BY <1>0, <1>2, <1>6 DEF last_sector, chunk_done, args, Moved
<1>7. CASE settle
  BY <1>7, Zenon DEF settle, args, Loop
<1>8. CASE fail \/ timeout
  BY <1>8, Zenon DEF fail, timeout, Return
<1>9. CASE drive_works
  <2>1. disk' = disk
    BY <1>9, DiskStep, StoreInRange, Zenon DEF drive_works, args
  <2> QED BY <1>2, <1>9, <2>1, Zenon DEF drive_works, args, Moved
<1> QED BY <1>1, <1>3, <1>4, <1>5, <1>6, <1>7, <1>8, <1>9 DEF Next
-----------------------------------------------------------------------------
(* Writes.                                                                 *)

\* A write adds one sector at a time to what it has stored.
LEMMA WriteStep ==
  ASSUME TypeOK, Loop, Sync, WrittenSoFar, TypeOK', Loop', Sync', Next,
         late = 0, late' = 0
  PROVE  WrittenSoFar'
<1> SUFFICES ASSUME op' = "write", pc' # "idle" PROVE WrittenSoFar'
  BY Zenon DEF WrittenSoFar
<1>0. /\ sector \in Nat /\ chunk \in Nat /\ i \in Nat /\ count \in Nat
      /\ drive \in Drives /\ first \in Nat /\ asked \in Nat
      /\ buffer \in [0 .. Longest -> Contents] /\ disk \in [Sectors -> Contents]
  BY Zenon DEF TypeOK
<1>1. ASSUME NEW o \in {"read", "write"}, NEW r \in Requests, blkdev(o, r[1], r[2])
      PROVE  WrittenSoFar'
  <2>1. r[1] \in Nat
    BY DiskAssumption, Zenon
  <2>2. /\ pc' = "chunk" /\ sector' = r[1] /\ first' = r[1]
        /\ buffer' = [k \in 0 .. Longest |-> New(k)]
    BY <1>1, <2>1, Zenon DEF blkdev
  <2>3. \A k \in 0 .. sector' - first' - 1 : FALSE
    <3>1. sector' - first' = 0
      BY <2>1, <2>2
    <3> QED BY <3>1
  <2>4. \A k \in 0 .. Longest : buffer'[k] = New(k)
    BY <2>2, Zenon
  <2> QED BY <2>2, <2>3, <2>4, Zenon DEF WrittenSoFar
<1>2. CASE next_chunk
  BY <1>2, Zenon DEF next_chunk, Return, args, WrittenSoFar, Stored, Excused
<1>3. CASE command
  BY <1>3, <1>0 DEF command, args, Loop, WrittenSoFar, Stored, Excused
<1>4. CASE transfer
  <2>1. /\ UNCHANGED <<op, disk, first, asked, sector, pc, chunk>> /\ op = "write"
        /\ pc = "sector" /\ i < chunk /\ drive.status = "drq" /\ i' = i + 1
    BY <1>4, Zenon DEF transfer, args
  <2>2. drive.cmd = "write" /\ ~ drive.full /\ UNCHANGED buffer
    BY <1>4, <1>0, <2>1, Zenon DEF transfer, Sync, Working, Pending
  <2>3. drive'.status = "busy" /\ drive'.cmd = "write" /\ drive'.full
    BY <1>0, <1>4, <2>2, Zenon DEF transfer, Drives
  <2>4. 0 < i => Stored(sector - first + i - 1)
    BY <2>1, <2>2, Zenon DEF WrittenSoFar, Working
  <2>5. \A k \in sector - first .. sector - first + i - 1 : Stored(k)
    BY <1>0, <2>1, <2>4 DEF WrittenSoFar, Loop
  <2> QED BY <1>0, <2>1, <2>2, <2>3, <2>5 DEF WrittenSoFar, Stored, Excused, Working
<1>5. CASE last_sector
  <2>1. /\ UNCHANGED <<op, disk, first, asked, sector, chunk, i, buffer>>
        /\ op = "write" /\ pc = "sector" /\ pc' = "settle"
    BY <1>5, Zenon DEF last_sector, args
  <2>2. \/ UNCHANGED drive
        \/ drive.status # "busy" /\ drive'.status = "busy" /\ drive'.cmd = "flush"
    BY <1>0, <1>5, <2>1, Zenon DEF last_sector, Drives
  <2>3. Working("write") /\ drive.full => drive.status = "busy"
    BY Zenon DEF Sync, Pending
  <2> QED BY <2>1, <2>2, <2>3, Zenon DEF WrittenSoFar, Stored, Excused, Working
<1>6. CASE settle
  <2>1. /\ UNCHANGED <<op, disk, first, asked, chunk, i, buffer, drive>>
        /\ op = "write" /\ pc = "settle" /\ pc' = "chunk" /\ i = chunk
        /\ sector' = sector + chunk /\ count' = count - chunk
        /\ drive.status # "busy"
    BY <1>6 DEF settle, chunk_done, args, Loop
  <2>2. ~ (Working("write") /\ drive.full) /\ ~ Working("flush")
    BY <2>1, Zenon DEF Sync, Pending
  <2>3. 0 < chunk => \/ Stored(sector - first + chunk - 1)
                     \/ Excused(sector - first + chunk - 1)
    <3>1. CASE chunk = count
      BY <1>0, <2>1, <2>2, <3>1 DEF WrittenSoFar, Excused, Loop
    <3>2. CASE chunk = ByteMod - 1
      <4>1. PICK q \in Nat : sector - first = q * (ByteMod - 1)
        BY <1>0, <2>1, Zenon DEF Loop, Whole
      <4>2. sector - first + chunk = (q + 1) * (ByteMod - 1)
        BY <1>0, <3>2, <4>1, Multiple, DiskAssumption
      <4>3. ByteMod - 1 \in Nat \ {0} /\ q + 1 \in Nat
        BY DiskAssumption
      <4>4. (sector - first + chunk) % (ByteMod - 1) = 0
        <5>1. ((q + 1) * (ByteMod - 1)) % (ByteMod - 1) = 0
          BY <4>3, Multiple, Zenon
        <5> QED BY <4>2, <5>1, Zenon
      <4>5. sector - first + chunk - 1 + 1 = sector - first + chunk
        BY <1>0
      <4> QED BY <2>1, <2>2, <4>4, <4>5, Zenon DEF WrittenSoFar, Excused
    <3>3. chunk = Chunk
      BY <2>1, Zenon DEF Loop
    <3> QED BY <1>0, <3>1, <3>2, <3>3, ChunkCut
  <2>4. \A k \in 0 .. sector - first + chunk - 1 : Stored(k) \/ Excused(k)
    <3> SUFFICES ASSUME NEW k \in 0 .. sector - first + chunk - 1
                 PROVE  Stored(k) \/ Excused(k)
      BY Zenon
    <3>1. CASE k < sector - first
      BY <1>0, <2>1, <3>1 DEF WrittenSoFar
    <3>2. CASE k >= sector - first /\ k < sector - first + chunk - 1
      BY <1>0, <2>1, <3>2 DEF WrittenSoFar
    <3>3. CASE k >= sector - first /\ k = sector - first + chunk - 1
      BY <1>0, <2>3, <3>3
    <3> QED BY <1>0, <3>1, <3>2, <3>3
  <2>5. sector' - first' = sector - first + chunk
    BY <1>0, <2>1
  <2>6. \A k : (Stored(k) \/ Excused(k)) => (Stored(k) \/ Excused(k))'
    BY <2>1, Zenon DEF Stored, Excused
  <2>7. \A k \in 0 .. sector' - first' - 1 : (Stored(k) \/ Excused(k))'
    <3> SUFFICES ASSUME NEW k \in 0 .. sector' - first' - 1
                 PROVE  (Stored(k) \/ Excused(k))'
      BY Zenon
    <3>1. k \in 0 .. sector - first + chunk - 1
      BY <1>0, <2>1, <2>5
    <3> QED BY <2>4, <2>6, <3>1, Zenon
  <2>8. \A k \in 0 .. Longest : buffer'[k] = New(k)
    BY <2>1, Zenon DEF WrittenSoFar
  <2> QED BY <2>1, <2>7, <2>8, Zenon DEF WrittenSoFar
<1>7. CASE fail \/ timeout
  BY <1>7, Zenon DEF fail, timeout, Return
<1>8. CASE drive_works
  <2>1. /\ UNCHANGED <<op, first, asked, sector, chunk, i, buffer, pc>>
        /\ drive.status = "busy" /\ op = "write" /\ pc # "idle"
    BY <1>8, Zenon DEF drive_works, args
  <2>2. CASE Store
    <3>1. Pending /\ drive.lba \in Sectors
      BY <2>1, <2>2, StoreInRange, Zenon
    <3> DEFINE n == sector - first + i - 1
    <3>2. drive.lba = first + n /\ n \in Nat /\ drive.data = New(n)
      BY <1>0, <2>1, <3>1 DEF Pending, Loop
    <3>3. disk' = [disk EXCEPT ![first + n] = New(n)]
      BY <2>2, <3>2, Zenon DEF Store
    <3>4. disk'[first' + n] = New(n)
      BY <1>0, <2>1, <3>1, <3>2, <3>3, Zenon
    <3>5. ASSUME NEW k \in Int, Stored(k) PROVE Stored(k)'
      <4>1. CASE k = n
        BY <3>4, <4>1, Zenon DEF Stored
      <4>2. CASE k # n
        <5>1. first + k # first + n
          BY <1>0, <3>2, <4>2
        <5> QED BY <1>0, <2>1, <3>3, <3>5, <5>1 DEF Stored
      <4> QED BY <4>1, <4>2, Zenon
    <3>6. Stored(n)'
      BY <2>1, <3>4, Zenon DEF Stored
    <3>7. \A k : Excused(k) => Excused(k)'
      BY <2>1, Zenon DEF Excused
    <3>8. \A k \in Int : Stored(k) => Stored(k)'
      BY <3>5, Zenon
    <3> HIDE DEF n
    <3>9. /\ \A k \in 0 .. sector - first - 1 : (Stored(k) \/ Excused(k))'
          /\ \A k \in sector - first .. sector - first + i - 2 : Stored(k)'
      BY <1>0, <2>1, <3>1, <3>7, <3>8 DEF WrittenSoFar, Pending
    <3> QED BY <1>0, <2>1, <3>6, <3>9, Zenon DEF WrittenSoFar, n
  <2>3. CASE ~ Store
    <3>1. UNCHANGED disk
      BY <1>8, <2>3, Zenon DEF drive_works, Fetch, Ask, Flush, Fault
    <3>2. Working("write") /\ drive.full =>
            \/ Working("write")' /\ drive'.full
            \/ Errors /\ drive'.status = "err"
      <4> SUFFICES ASSUME Working("write"), drive.full, ~ Errors PROVE FALSE
        <5>1. Fault \/ ~ (Working("write") /\ drive.full)
          BY <1>8, <2>3, Zenon DEF drive_works, Fetch, Ask, Flush, Working
        <5>2. Fault => drive'.status = "err"
          BY <1>0, Zenon DEF Fault, Drives
        <5> QED BY <5>1, <5>2, Zenon
      <4>1. Pending
        BY Zenon DEF Sync
      <4>2. drive.lba \in Sectors
        <5>1. chunk <= count
          BY <1>0, <4>1, ChunkCut, Zenon DEF Loop, Pending
        <5> QED BY <1>0, <4>1, <5>1, DiskAssumption DEF Pending, Loop, Sectors
      <4> QED BY <1>8, <2>3, <4>2, Zenon DEF drive_works, Fetch, Ask, Flush, Fault, Working
    <3>3. drive.status \in {"idle", "err"} \/ Working("flush") =>
            drive'.status \in {"idle", "err"} \/ Working("flush")'
      BY <1>8, <1>0, <2>1, <2>3, Zenon
         DEF drive_works, Fetch, Ask, Flush, Fault, Working, Drives
    <3> QED BY <2>1, <3>1, <3>2, <3>3, Zenon DEF WrittenSoFar, Stored, Excused
  <2> QED BY <2>2, <2>3, Zenon
<1> QED BY <1>1, <1>2, <1>3, <1>4, <1>5, <1>6, <1>7, <1>8, Zenon DEF Next
-----------------------------------------------------------------------------
(* Success.                                                                *)

\* The loop ends with all sectors moved.
LEMMA SuccessStep ==
  ASSUME TypeOK, Loop, Sync, ReadSoFar, WrittenSoFar, SuccessIsFaithful, Next,
         TypeOK', late = 0, late' = 0
  PROVE  SuccessIsFaithful'
<1> SUFFICES ASSUME pc' = "idle", result' = "ok" PROVE SuccessIsFaithful'
  BY Zenon DEF SuccessIsFaithful, Returned
<1>1. CASE pc # "idle"
  <2>1. next_chunk /\ count = 0 /\ pc = "chunk"
    BY <1>1, Zenon DEF Next, blkdev, next_chunk, command, transfer, last_sector, chunk_done,
                settle, fail, timeout, drive_works, Return, args, Loop
  <2>2. UNCHANGED <<disk, op, first, asked, buffer>>
    BY <2>1, Zenon DEF next_chunk, args
  <2>3. sector - first = asked /\ Moved = asked
    BY <2>1 DEF Loop, TypeOK, Moved
  <2> QED BY <2>1, <2>2, <2>3, Zenon
          DEF SuccessIsFaithful, Returned, ReadSoFar, WrittenSoFar, Stored, Excused
<1>2. CASE pc = "idle"
  <2>1. ~ drive_works
    BY <1>2, Zenon DEF drive_works, Sync, Working, Empty, AtSector, Pending, TypeOK, Drives
  <2> QED BY <1>2, <2>1, Zenon DEF Next, blkdev, next_chunk, command, transfer, last_sector,
                            settle, fail, timeout
<1> QED BY <1>1, <1>2, Zenon

-----------------------------------------------------------------------------
(* The theorems.                                                           *)

LEMMA InitInv == Init => IInv
<1> SUFFICES ASSUME Init PROVE IInv
  BY Zenon
<1>1. TypeOK /\ Loop
  BY InitType, Zenon DEF Init, Loop
<1>2. Sync
  BY Zenon DEF Init, Sync, Working
<1>3. ReadSoFar /\ WrittenSoFar /\ SuccessIsFaithful
  BY Zenon DEF Init, ReadSoFar, WrittenSoFar, SuccessIsFaithful, Returned
<1> QED BY <1>1, <1>2, <1>3, Zenon DEF IInv

\* The inductive invariant is kept by every step.
LEMMA StepInv == IInv /\ [Next]_vars => IInv'
<1> SUFFICES ASSUME IInv, [Next]_vars PROVE IInv'
  BY Zenon
<1>1. TypeOK' /\ Loop'
  BY TypeStep, LoopStep, Zenon DEF IInv
<1>2. CASE UNCHANGED vars
  BY <1>1, <1>2, Zenon DEF vars, IInv, Sync, Working, Empty, AtSector, Pending, Chunk, Moved,
     ReadSoFar, WrittenSoFar, Stored, Excused, SuccessIsFaithful, Returned
<1>3. CASE Next /\ late' # 0
  BY <1>1, <1>3, Zenon DEF IInv, SuccessIsFaithful
<1>4. CASE Next /\ late' = 0
  <2>1. late = 0 /\ Sync /\ ReadSoFar /\ WrittenSoFar
    BY <1>4, LateStep, Zenon DEF IInv
  <2>2. Sync'
    BY <1>1, <1>4, <2>1, SyncStep, Zenon DEF IInv, WrittenSoFar
  <2>3. ReadSoFar' /\ WrittenSoFar'
    BY <1>1, <1>4, <2>1, <2>2, ReadStep, WriteStep, Zenon DEF IInv
  <2>4. SuccessIsFaithful'
    BY <1>1, <1>4, <2>1, SuccessStep, Zenon DEF IInv
  <2> QED BY <1>1, <2>2, <2>3, <2>4, Zenon DEF IInv
<1> QED BY <1>2, <1>3, <1>4, Zenon

\* A read that succeeds has returned the sectors asked for, and a write that
\* succeeds has stored them but for the last sector of a chunk on which the
\* drive failed, whatever the lengths of the device, of a chunk and of the
\* request: blkdev_read and blkdev_write over ata_read_lba28 and
\* ata_write_lba28, until a wait times out.
THEOREM Faithful == Spec => []SuccessIsFaithful
<1>1. IInv => SuccessIsFaithful
  BY Zenon DEF IInv
<1> QED BY InitInv, StepInv, <1>1, PTL DEF Spec

\* While no wait has timed out the drive changes no sector outside the write
\* that is running (ata_blkdev_write), for a device and requests of any size.
THEOREM InRange == Spec => WritesStayInRange
<1>1. IInv /\ [Next]_vars =>
        [\A s \in Sectors : disk'[s] # disk[s] /\ late = 0 =>
                               op = "write" /\ s \in Range]_vars
  <2> SUFFICES ASSUME IInv, Next, NEW s \in Sectors, disk'[s] # disk[s], late = 0
               PROVE  op = "write" /\ s \in Range
    BY Zenon DEF vars
  <2>1. TypeOK /\ Loop /\ Sync
    BY Zenon DEF IInv
  <2>2. drive_works /\ Store
    BY <2>1, DiskStep, Zenon
  <2>3. op = "write" /\ drive.lba \in Range
    BY <2>1, <2>2, StoreInRange, Zenon DEF drive_works
  <2>4. s = drive.lba
    BY <2>1, <2>2, Zenon DEF Store, TypeOK
  <2> QED BY <2>3, <2>4, Zenon
<1> QED BY InitInv, StepInv, <1>1, PTL DEF Spec, WritesStayInRange

=============================================================================
