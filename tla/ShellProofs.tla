---------------------------- MODULE ShellProofs ----------------------------
(***************************************************************************)
(* For every disk, descriptor table, set of commands and sequence of       *)
(* failures: commands close what they open (FilesClosed), a copy that is   *)
(* reported as made is one (CopyIsFaithful), and no file is lost or        *)
(* touched that the command does not name (NothingLost).                   *)
(*                                                                         *)
(* The argument follows a copy: what the destination's descriptor covers   *)
(* is a prefix of what the source held, and the source's descriptor is     *)
(* ahead of it by what is in the buffer.                                   *)
(***************************************************************************)
EXTENDS Shell, SequenceTheorems, FiniteSetTheorems, TLAPS

-----------------------------------------------------------------------------
(* The invariant.                                                          *)

Ops == {"cat", "touch", "write", "rm", "cp", "mv"}

\* The points of a command with its first file open, and with both.
OneOpen == {"cat_read", "write_text", "close", "copy_open_dst"}
TwoOpen == {"copy_read", "copy_write", "copy_undo", "copy_close"}

Flags == {"WRONLY", "CREAT", "TRUNC", "APPEND", "held"}
File == [at : Places \union {""}, size : Nat, offset : Int, flags : SUBSET Flags]

DiskOK ==
  /\ chain \in [Places -> Seq(Int)] /\ size \in [Places -> Nat]
  /\ \A p \in Places : size[p] <= Len(chain[p])

TypesOK ==
  /\ DiskOK
  /\ fds \in [Fds -> File] /\ old.fds \in [Fds -> File]
  /\ pc \in {"prompt", "mv_unlink"} \union Ops \union OneOpen \union TwoOpen
  /\ errors \in Nat /\ unseen \in BOOLEAN
  /\ cmd \in Commands \union {Command("none", "", "", 0)}
  /\ buffer \in Seq(Int)

\* Which command is at which point.
PointsOK ==
  /\ pc # "prompt" => cmd \in Commands
  /\ pc \in Ops => cmd.op = pc
  /\ pc \in OneOpen \union TwoOpen \union {"mv_unlink"} => cmd.src \in Paths \ Folders
  /\ pc = "cat_read" => cmd.op = "cat"
  /\ pc = "write_text" => cmd.op = "write"
  /\ pc = "close" /\ cmd.op \in {"cp", "mv"} => status = "failed"
  /\ pc \in {"copy_open_dst"} \union TwoOpen =>
       /\ cmd.op \in {"cp", "mv"}
       /\ final_dst \in Paths /\ Place[final_dst] = Dst
  /\ pc = "mv_unlink" => cmd.op = "mv"

\* What is open, and that it was closed before.
TableOK ==
  /\ pc \notin OneOpen \union TwoOpen => fds = old.fds
  /\ pc \in OneOpen \union TwoOpen =>
       /\ src_fd \in Fds /\ old.fds[src_fd] = Closed
       /\ fds[src_fd].at = Src
       /\ pc # "close" => /\ 0 <= fds[src_fd].offset
                          /\ fds[src_fd].offset <= fds[src_fd].size
                          /\ fds[src_fd].size <= Len(chain[Src])
  /\ pc \in OneOpen => \A f \in Fds \ {src_fd} : fds[f] = old.fds[f]
  /\ pc \in TwoOpen =>
       /\ dst_fd \in Fds \ {src_fd} /\ old.fds[dst_fd] = Closed
       /\ fds[dst_fd].at = Dst
       /\ pc # "copy_undo" => /\ fds[dst_fd].offset = fds[dst_fd].size
                              /\ fds[dst_fd].size <= Len(chain[Dst])
                              /\ Exists(Dst) /\ "APPEND" \notin fds[dst_fd].flags
       /\ \A f \in Fds \ {src_fd, dst_fd} : fds[f] = old.fds[f]

\* A copy from one file to another: how far it has come, and that it is right so
\* far.
Copying == cmd.op \in {"cp", "mv"} /\ cmd.src \notin Folders /\ Src # Dst

CopyOK ==
  pc # "prompt" /\ Copying =>
    /\ Content(Src) = old.files[Src]
    /\ pc \in {"copy_open_dst"} \union TwoOpen =>
         Exists(Src) /\ fds[src_fd].size = size[Src]
    /\ pc = "copy_open_dst" => fds[src_fd].offset = 0
    /\ pc \in {"copy_read", "copy_write", "copy_close"} =>
         /\ \A i \in 1 .. fds[dst_fd].size : chain[Dst][i] = chain[Src][i]
         /\ ~ unseen /\ fds[dst_fd].size > 0 => size[Dst] = fds[dst_fd].size
    /\ pc = "copy_read" => fds[dst_fd].size = fds[src_fd].offset
    /\ pc = "copy_write" =>
         /\ fds[dst_fd].size + Len(buffer) = fds[src_fd].offset
         /\ \A i \in 1 .. Len(buffer) :
              buffer[i] = chain[Src][fds[dst_fd].size + i]
    /\ pc = "copy_close" /\ ~ unseen => fds[dst_fd].size = size[Src]

\* What a copy leaves.
EndOK ==
  RealCopy /\ ~ unseen =>
    /\ pc = "mv_unlink" => Content(Dst) = old.files[Src]
    /\ pc = "prompt" => /\ old.files[Src] \in {Content(Src), Content(Dst)}
                        /\ status = "ok" => Content(Dst) = old.files[Src]

\* The files that the command may change.
Named(p) == \/ cmd.op \in {"touch", "write", "rm", "mv"} /\ p = Src
            \/ cmd.op \in {"cp", "mv"} /\ p = Dst
OthersOK == \A p \in Places : Content(p) = old.files[p] \/ Named(p)

ShellInv == TypesOK /\ PointsOK /\ TableOK /\ CopyOK /\ EndOK /\ OthersOK

-----------------------------------------------------------------------------
(* Operators.                                                              *)

LEMMA MinMax ==
  ASSUME NEW a \in Int, NEW b \in Int
  PROVE  /\ Min({a, b}) = IF a <= b THEN a ELSE b
         /\ Max({a, b}) = IF a >= b THEN a ELSE b
<1>1. /\ \A x \in {a, b} : (\A y \in {a, b} : x <= y) <=> x = IF a <= b THEN a ELSE b
      /\ \A x \in {a, b} : (\A y \in {a, b} : x >= y) <=> x = IF a >= b THEN a ELSE b
  OBVIOUS
<1> QED BY <1>1, Zenon DEF Min, Max

\* Of one file.
LEMMA DiskIs ==
  ASSUME DiskOK, NEW p \in Places
  PROVE  /\ chain[p] \in Seq(Int) /\ Len(chain[p]) \in Nat
         /\ size[p] \in Nat /\ size[p] <= Len(chain[p])
BY DEF DiskOK

LEMMA DiskIsNext ==
  ASSUME DiskOK', NEW p \in Places
  PROVE  /\ chain'[p] \in Seq(Int) /\ Len(chain'[p]) \in Nat
         /\ size'[p] \in Nat /\ size'[p] <= Len(chain'[p])
BY DEF DiskOK

LEMMA FiniteImage ==
  ASSUME NEW S, IsFiniteSet(S), NEW f, f = [x \in S |-> f[x]]
  PROVE  IsFiniteSet({f[x] : x \in S})
<1> DEFINE T == {f[x] : x \in S}
<1>1. f \in Surjection(S, T)
  BY Zenon DEF Surjection
<1> QED BY <1>1, FS_Surjection, Zenon

LEMMA UsedType == ASSUME DiskOK PROVE Used \in Nat
<1> DEFINE C == {{p} \X DOMAIN chain[p] : p \in Places}
<1>1. IsFiniteSet(Places)
  <2> DEFINE g == [p \in Paths |-> Place[p]]
  <2>1. g = [p \in Paths |-> g[p]] /\ \A p \in Paths : g[p] = Place[p]
    BY Zenon
  <2> HIDE DEF g
  <2>2. IsFiniteSet({g[p] : p \in Paths})
    <3>1. IsFiniteSet(Paths)
      BY ShellAssumption, Zenon
    <3> QED BY <2>1, <3>1, FiniteImage
  <2>3. Places = {g[p] : p \in Paths}
    BY <2>1, Zenon DEF Places
  <2> QED BY <2>2, <2>3, Zenon
<1>2. IsFiniteSet(C)
  <2> DEFINE g == [p \in Places |-> {p} \X DOMAIN chain[p]]
  <2>1. g = [p \in Places |-> g[p]] /\ \A p \in Places : g[p] = {p} \X DOMAIN chain[p]
    BY Zenon
  <2> HIDE DEF g
  <2>2. IsFiniteSet({g[p] : p \in Places})
    BY <1>1, <2>1, FiniteImage
  <2>3. C = {g[p] : p \in Places}
    BY <2>1, Zenon
  <2> QED BY <2>2, <2>3, Zenon
<1>3. ASSUME NEW p \in Places PROVE IsFiniteSet({p} \X DOMAIN chain[p])
  <2>1. DOMAIN chain[p] = 1 .. Len(chain[p]) /\ Len(chain[p]) \in Nat
    BY DEF DiskOK
  <2>2. IsFiniteSet(DOMAIN chain[p])
    BY <2>1, FS_Interval
  <2> QED BY <2>2, FS_Singleton, FS_Product, Zenon
<1>4. IsFiniteSet(UNION C)
  BY <1>2, <1>3, FS_UNION, Zenon
<1> QED BY <1>4, FS_CardinalityType, Zenon DEF Used

\* What a read returns.
LEMMA DataIs ==
  ASSUME DiskOK, NEW file, file.at \in Places, file.offset \in Int, file.size \in Int,
         0 <= file.offset, file.offset <= file.size,
         file.size <= Len(chain[file.at]), NEW count \in Nat
  PROVE  LET d == DataAt(file, count)
         IN  /\ d \in Seq(Int)
             /\ Len(d) = IF count <= file.size - file.offset THEN count
                         ELSE file.size - file.offset
             /\ \A i \in 1 .. Len(d) : d[i] = chain[file.at][file.offset + i]
<1> DEFINE s == chain[file.at]
           m == file.offset + 1
           n == Min({file.offset + count, file.size})
<1>1. s \in Seq(Int) /\ Len(s) \in Nat
  BY DEF DiskOK
<1>2. n = IF file.offset + count <= file.size THEN file.offset + count ELSE file.size
  BY MinMax
<1> HIDE DEF n
<1>3. m \in Int /\ n \in Int /\ m <= n + 1 /\ \A i \in m .. n : s[i] \in Int
  <2>1. m \in Int /\ n \in Int /\ m <= n + 1 /\ 1 <= m /\ n <= Len(s)
    BY <1>1, <1>2
  <2> HIDE DEF s, m
  <2>2. ASSUME NEW i \in m .. n PROVE s[i] \in Int
    <3>1. i \in 1 .. Len(s)
      BY <1>1, <2>1
    <3> QED BY <1>1, <3>1
  <2> QED BY <2>1, <2>2, Zenon
<1> HIDE DEF s, m
<1>4. /\ SubSeq(s, m, n) \in Seq(Int) /\ Len(SubSeq(s, m, n)) = n - m + 1
      /\ \A i \in 1 .. n - m + 1 : SubSeq(s, m, n)[i] = s[m + i - 1]
  BY <1>1, <1>3, SubSeqProperties
<1>5. DataAt(file, count) = SubSeq(s, m, n)
  BY Zenon DEF DataAt, s, m, n
<1>6. n - m + 1 = IF count <= file.size - file.offset THEN count
                  ELSE file.size - file.offset
  <2>1. \A o, z \in Int, c \in Nat :
          (IF o + c <= z THEN o + c ELSE z) - (o + 1) + 1 = IF c <= z - o THEN c ELSE z - o
    OBVIOUS
  <2> QED BY <1>2, <2>1, Zenon DEF m
<1>7. ASSUME NEW i \in 1 .. n - m + 1 PROVE m + i - 1 = file.offset + i
  BY DEF m
<1> QED BY <1>4, <1>5, <1>6, <1>7, Zenon DEF s

\* The contents of a file that is there.
LEMMA ContentIs ==
  ASSUME DiskOK, NEW p \in Places, Exists(p)
  PROVE  /\ Content(p) \in Seq(Int) /\ Len(Content(p)) = size[p]
         /\ \A i \in 1 .. size[p] : Content(p)[i] = chain[p][i]
<1>1. /\ chain[p] \in Seq(Int) /\ Len(chain[p]) \in Nat /\ size[p] \in Nat
      /\ size[p] <= Len(chain[p])
  BY DEF DiskOK
<1>2. \A i \in 1 .. size[p] : chain[p][i] \in Int
  BY <1>1
<1>3. /\ SubSeq(chain[p], 1, size[p]) \in Seq(Int)
      /\ Len(SubSeq(chain[p], 1, size[p])) = size[p] - 1 + 1
      /\ \A i \in 1 .. size[p] - 1 + 1 : SubSeq(chain[p], 1, size[p])[i] = chain[p][1 + i - 1]
  BY <1>1, <1>2, SubSeqProperties
<1> QED BY <1>1, <1>3 DEF Content

\* What a write leaves.
LEMMA OverwriteIs ==
  ASSUME NEW data \in Seq(Int), NEW at \in 0 .. Len(data), NEW vals \in Seq(Int),
         NEW n \in Int, n <= Len(vals), NEW m \in Int,
         NEW s, s = Overwrite(data, at, vals, n, m)
  PROVE  /\ s \in Seq(Int)
         /\ Len(s) = IF Len(data) >= at + m THEN Len(data) ELSE at + m
         /\ Len(s) >= Len(data)
         /\ \A i \in 1 .. Len(s) :
              s[i] = IF i \in at + 1 .. at + n THEN vals[i - at]
                     ELSE IF i <= Len(data) THEN data[i] ELSE 0
<1> DEFINE e(i) == IF i \in at + 1 .. at + n THEN vals[i - at]
                   ELSE IF i <= Len(data) THEN data[i] ELSE 0
           k == Max({Len(data), at + m})
<1>1. k = (IF Len(data) >= at + m THEN Len(data) ELSE at + m) /\ k \in Nat /\ k >= Len(data)
  <2>1. Len(data) \in Nat /\ Len(data) \in Int /\ at + m \in Int
    OBVIOUS
  <2>3. k = IF Len(data) >= at + m THEN Len(data) ELSE at + m
    BY <2>1, MinMax, Zenon
  <2> HIDE DEF k
  <2> QED BY <2>1, <2>3
<1> HIDE DEF k
<1>2. ASSUME NEW i \in 1 .. k PROVE e(i) \in Int
  <2>1. CASE i \in at + 1 .. at + n
    <3>1. i - at \in 1 .. Len(vals)
      BY <1>1, <2>1
    <3> QED BY <2>1, <3>1
  <2>2. CASE i \notin at + 1 .. at + n
    BY <1>1, <2>2
  <2> QED BY <2>1, <2>2, Zenon
<1>3. s = [i \in 1 .. k |-> e(i)]
  BY Zenon DEF Overwrite, k
<1> HIDE DEF e
<1>4. s \in Seq(Int) /\ Len(s) = k /\ \A i \in 1 .. k : s[i] = e(i)
  BY <1>1, <1>2, <1>3
<1> QED BY <1>1, <1>4, Zenon DEF e

-----------------------------------------------------------------------------
(* The calls on files.                                                     *)

\* On the disk only the file at p may change, in the table only fd.
OnlyFile(p) == \A q \in Places \ {p} : chain'[q] = chain[q] /\ size'[q] = size[q]
OnlyFd(fd) == \A f \in Fds \ {fd} : fds'[f] = fds[f]

LEMMA ContentSame ==
  ASSUME NEW p, OnlyFile(p), NEW q \in Places, q # p
  PROVE  Content(q)' = Content(q)
BY Zenon DEF OnlyFile, Content, Exists

LEMMA CreatedIs ==
  ASSUME DiskOK, NEW p \in Places, ~ Exists(p), Created(p)
  PROVE  DiskOK' /\ OnlyFile(p) /\ Exists(p)' /\ size' = size
<1>1. <<0>> \in Seq(Int) /\ Len(<<0>>) = 1 /\ <<0>> # <<>>
  OBVIOUS
<1>2. /\ chain' = [chain EXCEPT ![p] = <<0>>] /\ size' = size
      /\ chain \in [Places -> Seq(Int)] /\ size \in [Places -> Nat]
  BY Zenon DEF Created, DiskOK
<1>3. size[p] <= 1
  BY DEF DiskOK, Exists
<1>4. chain'[p] = <<0>> /\ \A q \in Places \ {p} : chain'[q] = chain[q]
  BY <1>2, Zenon
<1>5. chain' \in [Places -> Seq(Int)]
  BY <1>1, <1>2, Zenon
<1>6. \A q \in Places : size[q] <= Len(chain'[q])
  BY <1>1, <1>3, <1>4, Zenon DEF DiskOK
<1> QED BY <1>1, <1>2, <1>4, <1>5, <1>6, Zenon DEF DiskOK, OnlyFile, Exists

LEMMA FileIs ==
  ASSUME NEW a \in Places, NEW s \in Nat, NEW o \in Int, NEW g \in SUBSET Flags
  PROVE  [at |-> a, size |-> s, offset |-> o, flags |-> g] \in File
BY Zenon DEF File

LEMMA Fields ==
  ASSUME NEW f \in File
  PROVE  f.size \in Nat /\ f.offset \in Int
BY Zenon DEF File

\* What a successful open leaves behind.
Opened(p, flags, fd) ==
  /\ DiskOK' /\ OnlyFile(p) /\ size' = size /\ Exists(p)'
  /\ Exists(p) => UNCHANGED disk
  /\ fds[fd] = Closed /\ fds' \in [Fds -> File] /\ OnlyFd(fd)
  /\ fds'[fd] = [at |-> p, size |-> IF "TRUNC" \in flags THEN 0 ELSE size[p],
                 offset |-> 0, flags |-> flags]
  /\ errors' = errors

LEMMA OpenIs ==
  ASSUME DiskOK, fds \in [Fds -> File], NEW path \in Paths, NEW flags \in SUBSET Flags,
         NEW fd \in Fds, OpenOk(path, flags, fd)
  PROVE  Opened(Place[path], flags, fd)
<1> DEFINE p == Place[path]
           n == [at |-> p, size |-> IF "TRUNC" \in flags THEN 0 ELSE size[p],
                 offset |-> 0, flags |-> flags]
<1>1. p \in Places
  BY Zenon DEF Places
<1>2. n \in File
  <2>1. size[p] \in Nat
    BY <1>1, Zenon DEF DiskOK
  <2>2. (IF "TRUNC" \in flags THEN 0 ELSE size[p]) \in Nat /\ 0 \in Int
    BY <2>1
  <2> QED BY <1>1, <2>2, FileIs, Zenon
<1>3. /\ fd \in FreeFds /\ fds' = [fds EXCEPT ![fd] = n]
      /\ IF Exists(p) THEN UNCHANGED disk ELSE Created(p)
      /\ errors' = errors
  BY Zenon DEF OpenOk, NoError
<1> HIDE DEF n, p
<1>4. fds[fd] = Closed /\ fds' \in [Fds -> File] /\ OnlyFd(fd) /\ fds'[fd] = n
  BY <1>2, <1>3, Zenon DEF FreeFds, OnlyFd
<1>5. CASE Exists(p)
  <2>1. UNCHANGED disk
    BY <1>3, <1>5, Zenon
  <2> QED BY <1>3, <1>4, <1>5, <2>1, Zenon
          DEF Opened, disk, DiskOK, OnlyFile, Exists, n, p
<1>6. CASE ~ Exists(p)
  <2>1. DiskOK' /\ OnlyFile(p) /\ size' = size /\ Exists(p)'
    BY <1>1, <1>3, <1>6, CreatedIs
  <2> QED BY <1>3, <1>4, <1>6, <2>1, Zenon DEF Opened, n, p
<1> QED BY <1>5, <1>6, Zenon

LEMMA OpenFailsIs ==
  ASSUME DiskOK, errors \in Nat, NEW path \in Paths, NEW flags, OpenFails(path, flags)
  PROVE  LET p == Place[path]
         IN  /\ DiskOK' /\ OnlyFile(p) /\ errors' \in Nat /\ fds' = fds
             /\ Exists(p) => UNCHANGED disk
<1> DEFINE p == Place[path]
<1>1. p \in Places
  BY Zenon DEF Places
<1>2. fds' = fds /\ errors' \in Nat /\ (UNCHANGED disk \/ (~ Exists(p) /\ Created(p)))
  BY DEF OpenFails, Error, NoError
<1> HIDE DEF p
<1>3. CASE UNCHANGED disk
  BY <1>2, <1>3, Zenon DEF disk, DiskOK, OnlyFile, p
<1>4. CASE ~ Exists(p) /\ Created(p)
  BY <1>1, <1>2, <1>4, CreatedIs, Zenon DEF p
<1> QED BY <1>2, <1>3, <1>4, Zenon

LEMMA UnlinkIs ==
  ASSUME DiskOK, errors \in Nat, unseen \in BOOLEAN, NEW p \in Places,
         UnlinkOk(p) \/ UnlinkFails(p)
  PROVE  DiskOK' /\ OnlyFile(p) /\ errors' \in Nat /\ unseen' \in BOOLEAN
<1>1. CASE UnlinkOk(p)
  <2>1. <<>> \in Seq(Int) /\ Len(<<>>) = 0
    OBVIOUS
  <2>2. /\ chain' = [chain EXCEPT ![p] = <<>>] /\ size' = [size EXCEPT ![p] = 0]
        /\ chain \in [Places -> Seq(Int)] /\ size \in [Places -> Nat]
        /\ errors' = errors /\ unseen' = unseen
    BY <1>1, Zenon DEF UnlinkOk, DiskOK
  <2>3. /\ chain' \in [Places -> Seq(Int)] /\ size' \in [Places -> Nat]
        /\ chain'[p] = <<>> /\ size'[p] = 0
        /\ \A q \in Places \ {p} : chain'[q] = chain[q] /\ size'[q] = size[q]
    BY <2>1, <2>2, Zenon
  <2>4. \A q \in Places : size'[q] <= Len(chain'[q])
    <3> TAKE q \in Places
    <3>1. CASE q = p
      BY <2>1, <2>3, <3>1
    <3>2. CASE q # p
      BY <2>3, <3>2, Zenon DEF DiskOK
    <3> QED BY <3>1, <3>2, Zenon
  <2> QED BY <2>2, <2>3, <2>4, Zenon DEF DiskOK, OnlyFile
<1>2. CASE UnlinkFails(p)
  <2>1. /\ chain' = chain /\ size' = size
        /\ errors' = errors \/ errors' = errors + 1
        /\ unseen' = unseen \/ unseen' = TRUE
    BY <1>2, Zenon DEF UnlinkFails, disk, Error
  <2>2. DiskOK' /\ OnlyFile(p)
    BY <2>1, Zenon DEF DiskOK, OnlyFile
  <2>3. errors' \in Nat
    BY <2>1
  <2> QED BY <2>1, <2>2, <2>3, Zenon
<1> QED BY <1>1, <1>2, Zenon

\* The table after a write, and after a read.
Moves(fd, s, o) == fds' = [fds EXCEPT ![fd].size = s, ![fd].offset = o]

LEMMA FileMoves ==
  ASSUME fds \in [Fds -> File], NEW fd \in Fds, NEW s \in Nat, NEW o \in Int,
         Moves(fd, s, o)
  PROVE  /\ fds' \in [Fds -> File] /\ OnlyFd(fd)
         /\ fds'[fd].at = fds[fd].at /\ fds'[fd].flags = fds[fd].flags
         /\ fds'[fd].size = s /\ fds'[fd].offset = o
BY Zenon DEF File, OnlyFd, Moves

LEMMA OffsetMoves ==
  ASSUME fds \in [Fds -> File], NEW fd \in Fds, NEW o \in Int,
         fds' = [fds EXCEPT ![fd].offset = o]
  PROVE  /\ fds' \in [Fds -> File] /\ OnlyFd(fd)
         /\ fds'[fd].at = fds[fd].at /\ fds'[fd].flags = fds[fd].flags
         /\ fds'[fd].size = fds[fd].size /\ fds'[fd].offset = o
BY Zenon DEF File, OnlyFd

LEMMA ReadIs ==
  ASSUME DiskOK, fds \in [Fds -> File], errors \in Nat, NEW fd \in Fds,
         fds[fd].at \in Places, 0 <= fds[fd].offset, fds[fd].offset <= fds[fd].size,
         fds[fd].size <= Len(chain[fds[fd].at]), vfs_read(fd, Buffer)
  PROVE  /\ buffer' \in Seq(Int) /\ errors' \in Nat
         /\ fds' \in [Fds -> File] /\ OnlyFd(fd)
         /\ fds'[fd].at = fds[fd].at /\ fds'[fd].flags = fds[fd].flags
         /\ fds'[fd].size = fds[fd].size
         /\ fds'[fd].offset = fds[fd].offset + Len(buffer')
         /\ fds'[fd].offset <= fds[fd].size
         /\ \A i \in 1 .. Len(buffer') :
              buffer'[i] = chain[fds[fd].at][fds[fd].offset + i]
         /\ buffer' = <<>> /\ errors' = errors => fds[fd].offset = fds[fd].size
<1> DEFINE d == DataAt(fds[fd], Buffer)
           off == fds[fd].offset
           sz == fds[fd].size
           s == chain[fds[fd].at]
<1>1. off \in Int /\ sz \in Nat /\ 0 <= off /\ off <= sz /\ Buffer \in Nat /\ Buffer > 0
  <2>1. fds[fd] \in File
    BY Zenon
  <2>2. Buffer \in Nat /\ Buffer > 0
    <3>1. Buffer \in Nat \ {0}
      BY ShellAssumption, Zenon
    <3> QED BY <3>1
  <2> QED BY <2>1, <2>2, Zenon DEF File
<1>2. /\ d \in Seq(Int) /\ Len(d) = IF Buffer <= sz - off THEN Buffer ELSE sz - off
      /\ \A i \in 1 .. Len(d) : d[i] = s[off + i]
  <2>1. fds[fd].size \in Int /\ fds[fd].offset \in Int
    BY <1>1
  <2> QED BY <1>1, <2>1, DataIs, Zenon
<1>3. PICK n \in 0 .. Len(d) : /\ buffer' = SubSeq(d, 1, n)
                               /\ fds' = [fds EXCEPT ![fd].offset = off + n]
                               /\ IF n = Len(d) THEN NoError ELSE Error
  BY Zenon DEF vfs_read
<1> HIDE DEF d, off, sz, s
<1>4. n \in Nat /\ Len(d) \in Nat /\ n <= Len(d) /\ n <= sz - off
  BY <1>1, <1>2
<1>5. /\ buffer' \in Seq(Int) /\ Len(buffer') = n
      /\ \A i \in 1 .. n : buffer'[i] = d[i]
  <2>1. \A i \in 1 .. n : d[i] \in Int
    BY <1>2, <1>4
  <2>2. /\ SubSeq(d, 1, n) \in Seq(Int)
        /\ Len(SubSeq(d, 1, n)) = IF 1 <= n THEN n - 1 + 1 ELSE 0
        /\ \A i \in 1 .. n - 1 + 1 : SubSeq(d, 1, n)[i] = d[1 + i - 1]
    BY <1>4, <2>1, SubSeqProperties
  <2> QED BY <1>3, <1>4, <2>2
<1>6. \A i \in 1 .. Len(buffer') : buffer'[i] = s[off + i]
  BY <1>2, <1>4, <1>5
<1>7. /\ fds' \in [Fds -> File] /\ OnlyFd(fd)
      /\ fds'[fd].at = fds[fd].at /\ fds'[fd].flags = fds[fd].flags
      /\ fds'[fd].size = sz /\ fds'[fd].offset = off + n
  <2>1. off + n \in Int /\ fds[fd].size = sz
    BY <1>1, <1>4 DEF sz
  <2>2. fds' = [fds EXCEPT ![fd].offset = off + n]
    BY <1>3, Zenon
  <2>3. /\ fds' \in [Fds -> File] /\ OnlyFd(fd)
        /\ fds'[fd].at = fds[fd].at /\ fds'[fd].flags = fds[fd].flags
        /\ fds'[fd].size = fds[fd].size /\ fds'[fd].offset = off + n
    BY <2>1, <2>2, OffsetMoves, Zenon
  <2> QED BY <2>1, <2>3, Zenon
<1>8. errors' \in Nat
  BY <1>3 DEF NoError, Error
<1>9. ASSUME buffer' = <<>>, errors' = errors PROVE off = sz
  <2>1. n = 0
    BY <1>5, <1>9, Zenon
  <2>2. n = Len(d)
    BY <1>3, <1>9 DEF Error
  <2> QED BY <1>1, <1>2, <2>1, <2>2
<1>10. off + n <= sz
  BY <1>1, <1>4
<1> QED BY <1>5, <1>6, <1>7, <1>8, <1>9, <1>10 DEF off, sz, s

\* A write leaves what is before it; one that is complete leaves its values.
LEMMA WriteIs ==
  ASSUME DiskOK, fds \in [Fds -> File], errors \in Nat, unseen \in BOOLEAN,
         NEW fd \in Fds, NEW p \in Places, fds[fd].at = p, NEW vals \in Seq(Int),
         NEW at \in 0 .. Len(chain[p]), WriteAt(fd) = at,
         fds[fd].size <= Len(chain[p]),
         WriteEnds(fd, vals) \/ WriteStops(fd, vals)
  PROVE  /\ DiskOK' /\ OnlyFile(p) /\ OnlyFd(fd) /\ fds' \in [Fds -> File]
         /\ fds'[fd].at = p /\ fds'[fd].flags = fds[fd].flags
         /\ errors' \in Nat /\ unseen' \in BOOLEAN /\ (unseen => unseen')
         /\ Len(chain'[p]) >= Len(chain[p])
         /\ \A i \in 1 .. at : chain'[p][i] = chain[p][i]
         /\ WriteEnds(fd, vals) /\ Room(fd) >= Len(vals) =>
              /\ fds'[fd].offset = at + Len(vals)
              /\ fds'[fd].size = (IF fds[fd].size >= at + Len(vals) THEN fds[fd].size
                                  ELSE at + Len(vals))
              /\ Len(chain'[p]) >= at + Len(vals)
              /\ \A i \in 1 .. Len(vals) : chain'[p][at + i] = vals[i]
              /\ ~ unseen' => size'[p] = fds'[fd].size
<1> DEFINE s == chain[p]
           room == Room(fd)
           k == Min({Len(vals), room})
           sz == fds[fd].size
<1>1. /\ s \in Seq(Int) /\ Len(s) \in Nat /\ at \in Nat /\ at <= Len(s)
      /\ sz \in Nat /\ sz <= Len(s) /\ Len(vals) \in Nat
  <2>1. s \in Seq(Int) /\ Len(s) \in Nat
    BY DEF DiskOK
  <2>2. fds[fd] \in File
    BY Zenon
  <2> HIDE DEF s
  <2>3. sz \in Nat
    BY <2>2, Zenon DEF File
  <2> QED BY <2>1, <2>3 DEF s
<1>2. room \in Int
  <2>1. Clusters \in Nat
    BY ShellAssumption, Zenon
  <2>2. Used \in Nat
    BY UsedType, Zenon
  <2>3. room = Len(s) - at + Clusters - Used
    BY Zenon DEF Room
  <2> HIDE DEF room, s
  <2> QED BY <1>1, <2>1, <2>2, <2>3
<1>3. k \in Int /\ k <= Len(vals) /\ (room >= Len(vals) => k = Len(vals))
  <2>1. Len(vals) \in Int
    BY <1>1
  <2> HIDE DEF room
  <2>2. k = IF Len(vals) <= room THEN Len(vals) ELSE room
    BY <1>2, <2>1, MinMax, Zenon
  <2> HIDE DEF k
  <2> QED BY <1>1, <1>2, <2>2
<1>4. ASSUME NEW t, NEW n \in Int, n <= Len(vals), NEW m \in Int,
             t = Overwrite(s, at, vals, n, m), chain' = [chain EXCEPT ![p] = t]
      PROVE  /\ chain' \in [Places -> Seq(Int)] /\ chain'[p] = t
             /\ \A q \in Places \ {p} : chain'[q] = chain[q]
             /\ Len(t) >= Len(s) /\ Len(t) >= at + m
             /\ \A i \in 1 .. at : t[i] = s[i]
             /\ n >= 0 /\ m >= n => \A i \in 1 .. n : t[at + i] = vals[i]
  <2>1. /\ t \in Seq(Int)
        /\ Len(t) = IF Len(s) >= at + m THEN Len(s) ELSE at + m
        /\ Len(t) >= Len(s)
        /\ \A i \in 1 .. Len(t) : t[i] = IF i \in at + 1 .. at + n THEN vals[i - at]
                                         ELSE IF i <= Len(s) THEN s[i] ELSE 0
    <3>1. s \in Seq(Int) /\ at \in 0 .. Len(s)
      BY <1>1, Zenon
    <3> HIDE DEF s
    <3>2. t = Overwrite(s, at, vals, n, m)
      BY <1>4, Zenon
    <3> QED BY <1>4, <3>1, <3>2, OverwriteIs, SMTT(30)
  <2> HIDE DEF s
  <2>2. /\ chain' \in [Places -> Seq(Int)] /\ chain'[p] = t
        /\ \A q \in Places \ {p} : chain'[q] = chain[q]
    BY <1>4, <2>1, Zenon DEF DiskOK
  <2>3. Len(t) >= Len(s) /\ Len(t) >= at + m
    BY <1>1, <2>1
  <2>4. ASSUME NEW i \in 1 .. at PROVE t[i] = s[i]
    <3>1. i \in 1 .. Len(t) /\ i \notin at + 1 .. at + n /\ i <= Len(s)
      BY <1>1, <2>3
    <3> QED BY <2>1, <3>1, Zenon
  <2>5. ASSUME n >= 0, m >= n, NEW i \in 1 .. n PROVE t[at + i] = vals[i]
    <3>1. at + i \in 1 .. Len(t) /\ at + i \in at + 1 .. at + n /\ (at + i) - at = i
      BY <1>1, <2>3, <2>5
    <3> QED BY <2>1, <3>1, Zenon
  <2> QED BY <2>2, <2>3, <2>4, <2>5, Zenon
<1>5. CASE WriteEnds(fd, vals)
  <2> DEFINE end == Max({sz, at + k})
             t == Overwrite(s, at, vals, k, k)
  <2>1. /\ chain' = [chain EXCEPT ![p] = t]
        /\ fds' = [fds EXCEPT ![fd].size = end, ![fd].offset = at + k]
        /\ \/ errors' = errors /\ size' = [size EXCEPT ![p] = end] /\ unseen' = unseen
           \/ errors' = errors + 1 /\ unseen' = TRUE /\ size' = size
    BY <1>5, Zenon DEF WriteEnds, NoError, Error
  <2>2. end = IF sz >= at + k THEN sz ELSE at + k
    <3>1. sz \in Int /\ at + k \in Int
      BY <1>1, <1>3
    <3> HIDE DEF sz, k
    <3> QED BY <3>1, MinMax, Zenon
  <2> HIDE DEF end, t, k, sz, s, room
  <2>3. end \in Nat /\ at + k \in Int
    BY <1>1, <1>3, <2>2
  <2>4. /\ chain' \in [Places -> Seq(Int)] /\ chain'[p] = t
        /\ \A q \in Places \ {p} : chain'[q] = chain[q]
        /\ Len(t) >= Len(s) /\ Len(t) >= at + k
        /\ \A i \in 1 .. at : t[i] = s[i]
        /\ k >= 0 => \A i \in 1 .. k : t[at + i] = vals[i]
    <3>1. k >= k /\ t = Overwrite(s, at, vals, k, k)
      BY <1>3 DEF t
    <3> QED BY <1>3, <1>4, <2>1, <3>1, ZenonT(30)
  <2>5. /\ fds' \in [Fds -> File] /\ OnlyFd(fd)
        /\ fds'[fd].at = fds[fd].at /\ fds'[fd].flags = fds[fd].flags
        /\ fds'[fd].size = end /\ fds'[fd].offset = at + k
    <3>1. Moves(fd, end, at + k)
      BY <2>1, Zenon DEF Moves
    <3> QED BY <2>3, <3>1, FileMoves, Zenon
  <2>6. Len(t) \in Nat /\ end <= Len(t)
    BY <1>1, <1>3, <2>2, <2>4
  <2>7. /\ size' \in [Places -> Nat] /\ size'[p] \in {size[p], end}
        /\ \A q \in Places \ {p} : size'[q] = size[q]
        /\ ~ unseen' => size'[p] = end
        /\ errors' \in Nat /\ unseen' \in BOOLEAN /\ (unseen => unseen')
    <3>1. CASE size' = [size EXCEPT ![p] = end] /\ errors' = errors /\ unseen' = unseen
      BY <2>3, <3>1, Zenon DEF DiskOK
    <3>2. CASE size' = size /\ errors' = errors + 1 /\ unseen' = TRUE
      BY <3>2 DEF DiskOK
    <3> QED BY <2>1, <3>1, <3>2, Zenon
  <2>8. DiskOK' /\ OnlyFile(p)
    <3>1. \A q \in Places : size'[q] <= Len(chain'[q])
      <4> TAKE q \in Places
      <4>1. CASE q = p
        <5>1. size[p] <= Len(s) /\ size[p] \in Nat
          BY Zenon DEF DiskOK, s
        <5> QED BY <1>1, <2>3, <2>4, <2>6, <2>7, <4>1, <5>1
      <4>2. CASE q # p
        BY <2>4, <2>7, <4>2, Zenon DEF DiskOK
      <4> QED BY <4>1, <4>2, Zenon
    <3> QED BY <2>4, <2>7, <3>1, Zenon DEF DiskOK, OnlyFile
  <2>9. Len(chain'[p]) >= Len(chain[p]) /\ \A i \in 1 .. at : chain'[p][i] = chain[p][i]
    BY <2>4, Zenon DEF s
  <2>10. ASSUME Room(fd) >= Len(vals)
         PROVE  /\ fds'[fd].offset = at + Len(vals)
                /\ fds'[fd].size = (IF fds[fd].size >= at + Len(vals) THEN fds[fd].size
                                    ELSE at + Len(vals))
                /\ Len(chain'[p]) >= at + Len(vals)
                /\ \A i \in 1 .. Len(vals) : chain'[p][at + i] = vals[i]
                /\ ~ unseen' => size'[p] = fds'[fd].size
    <3>1. k = Len(vals) /\ k >= 0
      BY <1>1, <1>3, <2>10 DEF room
    <3> QED BY <2>2, <2>4, <2>5, <2>7, <3>1 DEF sz
  <2> QED BY <2>5, <2>7, <2>8, <2>9, <2>10
<1>6. CASE WriteStops(fd, vals) /\ ~ WriteEnds(fd, vals)
  <2>1. PICK n \in 0 .. k - 1 :
          /\ chain' = [chain EXCEPT ![p] = Overwrite(s, at, vals, n, n + 1)]
          /\ fds' = [fds EXCEPT ![fd].offset = at + n]
    BY <1>6, Zenon DEF WriteStops
  <2>2. errors' = errors + 1 /\ size' = size /\ unseen' = unseen
    BY <1>6, Zenon DEF WriteStops, Error
  <2> DEFINE t == Overwrite(s, at, vals, n, n + 1)
  <2> HIDE DEF k, sz, s, room, t
  <2>3. n \in Int /\ n <= Len(vals) /\ n + 1 \in Int /\ at + n \in Int
    BY <1>1, <1>3
  <2>4. /\ chain' \in [Places -> Seq(Int)] /\ chain'[p] = t
        /\ \A q \in Places \ {p} : chain'[q] = chain[q]
        /\ Len(t) >= Len(s)
        /\ \A i \in 1 .. at : t[i] = s[i]
    BY <1>4, <2>1, <2>3, Zenon DEF t
  <2>5. /\ fds' \in [Fds -> File] /\ OnlyFd(fd)
        /\ fds'[fd].at = fds[fd].at /\ fds'[fd].flags = fds[fd].flags
    <3>1. fds' = [fds EXCEPT ![fd].offset = at + n]
      BY <2>1, Zenon
    <3>2. ASSUME NEW o \in Int, fds' = [fds EXCEPT ![fd].offset = o]
          PROVE  /\ fds' \in [Fds -> File] /\ OnlyFd(fd)
                 /\ fds'[fd].at = fds[fd].at /\ fds'[fd].flags = fds[fd].flags
      BY <3>2, OffsetMoves, Zenon
    <3> QED BY <2>3, <3>1, <3>2, Zenon
  <2>6. DiskOK' /\ OnlyFile(p)
    <3>1. \A q \in Places : size'[q] <= Len(chain'[q])
      <4> TAKE q \in Places
      <4>1. CASE q = p
        <5>1. size[p] <= Len(s) /\ size[p] \in Nat
          BY Zenon DEF DiskOK, s
        <5>2. Len(t) \in Nat
          BY <2>4
        <5> QED BY <1>1, <2>2, <2>4, <4>1, <5>1, <5>2
      <4>2. CASE q # p
        BY <2>2, <2>4, <4>2, Zenon DEF DiskOK
      <4> QED BY <4>1, <4>2, Zenon
    <3> QED BY <2>2, <2>4, <3>1, Zenon DEF DiskOK, OnlyFile
  <2>7. Len(chain'[p]) >= Len(chain[p]) /\ \A i \in 1 .. at : chain'[p][i] = chain[p][i]
    BY <2>4, Zenon DEF s
  <2>8. errors' \in Nat /\ unseen' \in BOOLEAN /\ (unseen => unseen')
    BY <2>2
  <2> QED BY <1>6, <2>5, <2>6, <2>7, <2>8, Zenon
<1> QED BY <1>5, <1>6, Zenon

-----------------------------------------------------------------------------
(* The commands.                                                           *)

LEMMA CommandIs ==
  ASSUME cmd \in Commands, cmd.src \notin Folders
  PROVE  /\ cmd.src \in Paths /\ Src \in Places
         /\ cmd.op \in {"cp", "mv"} =>
              /\ Dst \in Places
              /\ (IF cmd.dst \in Folders THEN Join[cmd.dst][cmd.src] ELSE cmd.dst) \in Paths
<1>1. /\ cmd.src \in Paths \union Folders
      /\ cmd.op \in {"cp", "mv"} => cmd.dst \in Paths \union Folders
      /\ \A f \in Folders, p \in Paths : Join[f][p] \in Paths
  BY ShellAssumption, Zenon
<1>2. cmd.src \in Paths
  BY <1>1, Zenon
<1>3. \A p \in Paths : Place[p] \in Places
  BY Zenon DEF Places
<1> QED BY <1>1, <1>2, <1>3, Zenon DEF Src, Dst

LEMMA Keeps ==
  ASSUME UNCHANGED keep
  PROVE  /\ cmd' = cmd /\ old' = old /\ Src' = Src /\ Dst' = Dst
         /\ Copying' <=> Copying
         /\ RealCopy' <=> RealCopy
         /\ RealCopy => Copying
BY Zenon DEF keep, Src, Dst, Copying, RealCopy

LEMMA OthersKept ==
  ASSUME OthersOK, UNCHANGED keep, NEW p, OnlyFile(p), Named(p) \/ UNCHANGED disk
  PROVE  OthersOK'
<1>1. cmd' = cmd /\ old' = old /\ Src' = Src /\ Dst' = Dst
  BY Keeps, Zenon
<1>2. ASSUME NEW q \in Places PROVE Content(q)' = old'.files[q] \/ Named(q)'
  <2>1. CASE Named(q)
    BY <1>1, <2>1, Zenon DEF Named
  <2>2. CASE ~ Named(q)
    <3>1. Content(q) = old.files[q]
      BY <2>2, Zenon DEF OthersOK
    <3>2. Content(q)' = Content(q)
      <4>1. CASE UNCHANGED disk
        BY <4>1, Zenon DEF disk, Content, Exists
      <4>2. CASE Named(p)
        BY <2>2, <4>2, ContentSame, Zenon
      <4> QED BY <4>1, <4>2, Zenon
    <3> QED BY <1>1, <3>1, <3>2, Zenon
  <2> QED BY <2>1, <2>2, Zenon
<1> QED BY <1>2, Zenon DEF OthersOK

\* Back at the prompt.
LEMMA EndInv ==
  ASSUME ShellInv, UNCHANGED keep, pc' = "prompt", buffer' = <<>>, fds' = old.fds,
         DiskOK', errors' \in Nat, unseen' \in BOOLEAN, OthersOK', EndOK'
  PROVE  ShellInv'
<1>1. cmd' = cmd /\ old' = old
  BY Keeps, Zenon
<1>2. TypesOK'
  <2>1. buffer' \in Seq(Int)
    OBVIOUS
  <2> QED BY <1>1, <2>1, Zenon DEF ShellInv, TypesOK
<1>3. PointsOK' /\ TableOK' /\ CopyOK'
  BY <1>1, Zenon DEF PointsOK, TableOK, CopyOK, Ops, OneOpen, TwoOpen
<1> QED BY <1>2, <1>3, Zenon DEF ShellInv

\* A command fails that left the source alone.
LEMMA FailInv ==
  ASSUME ShellInv, UNCHANGED keep, pc # "prompt", Done, Fail, fds' = old.fds,
         DiskOK', errors' \in Nat, unseen' \in BOOLEAN,
         NEW p, OnlyFile(p), Named(p) \/ UNCHANGED disk,
         Copying => p # Src \/ UNCHANGED disk
  PROVE  ShellInv'
<1>1. cmd' = cmd /\ old' = old /\ Src' = Src /\ Dst' = Dst /\ (RealCopy' <=> RealCopy)
  BY Keeps, Zenon
<1>2. pc' = "prompt" /\ buffer' = <<>> /\ status' = "failed"
  BY Zenon DEF Done, Fail
<1>3. OthersOK'
  BY OthersKept, Zenon DEF ShellInv
<1>4. EndOK'
  <2>1. ASSUME RealCopy PROVE Content(Src)' = old.files[Src]
    <3>1. Copying
      BY <2>1, Keeps, Zenon
    <3>2. Content(Src) = old.files[Src] /\ Src \in Places
      BY <3>1, CommandIs, Zenon DEF ShellInv, CopyOK, PointsOK, Copying
    <3>3. CASE UNCHANGED disk
      BY <1>1, <3>2, <3>3, Zenon DEF disk, Content, Exists
    <3>4. CASE p # Src
      BY <1>1, <3>2, <3>4, Zenon DEF OnlyFile, Content, Exists
    <3> QED BY <3>1, <3>3, <3>4, Zenon
  <2> QED BY <1>1, <1>2, <2>1, Zenon DEF EndOK
<1> QED BY <1>2, <1>3, <1>4, EndInv, Zenon

\* No file is opened or changed: the command ends before.
LEMMA RefuseInv == ASSUME ShellInv, refuse PROVE ShellInv'
<1>1. /\ pc \in Ops /\ Done /\ Fail /\ UNCHANGED keep /\ UNCHANGED disk
      /\ fds' = fds /\ errors' = errors /\ unseen' = unseen
  BY Zenon DEF refuse, Still, Ops
<1>2. fds' = old.fds /\ pc # "prompt"
  BY <1>1, Zenon DEF ShellInv, TableOK, Ops, OneOpen, TwoOpen
<1>3. DiskOK' /\ OnlyFile("") /\ errors' \in Nat /\ unseen' \in BOOLEAN
  BY <1>1, Zenon DEF ShellInv, TypesOK, DiskOK, OnlyFile, disk
<1> QED BY <1>1, <1>2, <1>3, FailInv, Zenon

LEMMA EnterInv ==
  ASSUME ShellInv, NEW c \in Commands, enter(c)
  PROVE  ShellInv'
<1>1. /\ pc = "prompt" /\ cmd' = c /\ pc' = c.op /\ unseen' = FALSE
      /\ old' = [fds |-> fds, files |-> [p \in Places |-> Content(p)]]
      /\ UNCHANGED <<disk, fds, errors, buffer>>
  BY Zenon DEF enter, Go, locals
<1>2. c.op \in Ops
  BY ShellAssumption, Zenon DEF Ops
<1>3. TypesOK'
  <2>1. DiskOK'
    BY <1>1, Zenon DEF ShellInv, TypesOK, DiskOK, disk
  <2>2. old'.fds = fds
    BY <1>1, Zenon
  <2>3. pc' \in Ops /\ unseen' \in BOOLEAN
    BY <1>1, <1>2, Zenon
  <2> QED BY <1>1, <2>1, <2>2, <2>3, Zenon DEF ShellInv, TypesOK
<1>4. \A p \in Places : Content(p)' = Content(p) /\ old'.files[p] = Content(p)
  BY <1>1, Zenon DEF disk, Content, Exists
<1>5. PointsOK'
  BY <1>1, <1>2, Zenon DEF PointsOK, Ops, OneOpen, TwoOpen
<1>6. TableOK'
  BY <1>1, <1>2, Zenon DEF TableOK, Ops, OneOpen, TwoOpen
<1>7. CopyOK'
  <2>1. ASSUME Copying' PROVE Content(Src)' = old'.files[Src']
    <3>1. Src' \in Places
      <4>1. c.src \in Paths \union Folders /\ c.src \notin Folders
        BY <1>1, <2>1, ShellAssumption, Zenon DEF Copying
      <4> QED BY <1>1, <4>1, Zenon DEF Src, Places
    <3>2. Content(Src)' = (IF Exists(Src)' THEN SubSeq(chain'[Src'], 1, size'[Src']) ELSE None)
      BY Zenon DEF Content
    <3>3. Exists(Src)' <=> chain[Src'] # <<>>
      BY <1>1, Zenon DEF Exists, disk
    <3>4. Content(Src)' = (IF chain[Src'] # <<>> THEN SubSeq(chain[Src'], 1, size[Src']) ELSE None)
      BY <1>1, <3>2, <3>3, Zenon DEF disk
    <3> DEFINE q == Src'
    <3>5. old'.files[q] = Content(q)
      BY <1>4, <3>1, Zenon
    <3> QED BY <3>4, <3>5, Zenon DEF Content, Exists
  <2> QED BY <1>1, <1>2, <2>1, Zenon DEF CopyOK, Ops, TwoOpen
<1>8. EndOK'
  BY <1>1, <1>2, Zenon DEF EndOK, Ops
<1>9. OthersOK'
  BY <1>4, Zenon DEF OthersOK
<1> QED BY <1>3, <1>5, <1>6, <1>7, <1>8, <1>9 DEF ShellInv

\* cat, touch or write goes on to a point with one file open.
LEMMA OneInv ==
  ASSUME ShellInv, UNCHANGED keep, cmd \in Commands, cmd.op \in {"cat", "touch", "write"},
         cmd.src \notin Folders, pc' \in {"cat_read", "write_text", "close"},
         pc' = "cat_read" => cmd.op = "cat", pc' = "write_text" => cmd.op = "write",
         DiskOK', errors' \in Nat, unseen' \in BOOLEAN, buffer' \in Seq(Int), OthersOK',
         fds' \in [Fds -> File], src_fd' \in Fds, old.fds[src_fd'] = Closed,
         fds'[src_fd'].at = Src, \A f \in Fds \ {src_fd'} : fds'[f] = old.fds[f],
         pc' # "close" => /\ 0 <= fds'[src_fd'].offset
                          /\ fds'[src_fd'].offset <= fds'[src_fd'].size
                          /\ fds'[src_fd'].size <= Len(chain'[Src])
  PROVE  ShellInv'
<1>1. /\ cmd' = cmd /\ old' = old /\ Src' = Src /\ (Copying' <=> Copying)
      /\ RealCopy' => Copying'
  BY Keeps, Zenon
<1>2. ~ Copying
  BY Zenon DEF Copying
<1>3. TypesOK'
  BY <1>1, Zenon DEF ShellInv, TypesOK, OneOpen
<1>4. PointsOK'
  BY <1>1, CommandIs, Zenon DEF PointsOK, Ops, OneOpen, TwoOpen
<1>5. TableOK'
  BY <1>1, Zenon DEF TableOK, OneOpen, TwoOpen
<1>6. CopyOK' /\ EndOK'
  BY <1>1, <1>2, Zenon DEF CopyOK, EndOK
<1> QED BY <1>3, <1>4, <1>5, <1>6, Zenon DEF ShellInv

LEMMA OpenInv == ASSUME ShellInv, open PROVE ShellInv'
<1>1. /\ cmd \in Commands /\ cmd.op = pc /\ pc \in {"cat", "touch", "write"}
      /\ cmd.src \notin Folders /\ UNCHANGED keep /\ unseen' = unseen
  BY Zenon DEF ShellInv, PointsOK, open, IsFile, Ops
<1>2. /\ DiskOK /\ errors \in Nat /\ unseen \in BOOLEAN /\ fds \in [Fds -> File]
      /\ fds = old.fds /\ buffer \in Seq(Int)
  BY <1>1, Zenon DEF ShellInv, TypesOK, TableOK, OneOpen, TwoOpen
<1>3. cmd.src \in Paths /\ Src \in Places /\ Src = Place[cmd.src]
  BY <1>1, CommandIs, Zenon DEF Src
<1>4. OpenFlags \in SUBSET Flags
  BY <1>1, Zenon DEF OpenFlags, Flags
<1>5. Exists(Src) \/ Named(Src)
  BY <1>1, <1>3, Zenon DEF open, IsFile, Named
<1>6. ASSUME NEW fd \in Fds, OpenOk(cmd.src, OpenFlags, fd), src_fd' = fd,
             pc' = CASE pc = "cat" -> "cat_read"
                     [] pc = "touch" -> "close"
                     [] pc = "write" -> "write_text",
             buffer' = buffer
      PROVE  ShellInv'
  <2>1. /\ DiskOK' /\ OnlyFile(Src) /\ size' = size
        /\ Exists(Src) => UNCHANGED disk
        /\ fds[fd] = Closed /\ fds' \in [Fds -> File] /\ OnlyFd(fd)
        /\ fds'[fd] = [at |-> Src, size |-> IF "TRUNC" \in OpenFlags THEN 0 ELSE size[Src],
                       offset |-> 0, flags |-> OpenFlags]
        /\ errors' = errors
    <3>1. /\ DiskOK /\ fds \in [Fds -> File] /\ cmd.src \in Paths /\ Src = Place[cmd.src]
          /\ OpenFlags \in SUBSET Flags /\ fd \in Fds /\ OpenOk(cmd.src, OpenFlags, fd)
      BY <1>2, <1>3, <1>4, <1>6, Zenon
    <3>2. Opened(Src, OpenFlags, fd)
      BY <3>1, OpenIs, Zenon
    <3> QED BY <3>2, Zenon DEF Opened
  <2>2. OthersOK'
    BY <1>1, <1>5, <2>1, OthersKept, Zenon DEF ShellInv
  <2>3. /\ fds'[fd].at = Src /\ fds'[fd].offset = 0
        /\ fds'[fd].size \in Nat /\ fds'[fd].size <= Len(chain'[Src])
    <3>1. size[Src] \in Nat /\ size[Src] <= Len(chain'[Src]) /\ Len(chain'[Src]) \in Nat
      BY <1>2, <1>3, <2>1 DEF DiskOK
    <3> QED BY <2>1, <3>1
  <2>4. /\ pc' \in {"cat_read", "write_text", "close"}
        /\ pc' = "cat_read" => cmd.op = "cat"
        /\ pc' = "write_text" => cmd.op = "write"
    BY <1>1, <1>6, Zenon
  <2>5. \A f \in Fds \ {src_fd'} : fds'[f] = old.fds[f]
    BY <1>2, <1>6, <2>1, Zenon DEF OnlyFd
  <2> QED BY <1>1, <1>2, <1>6, <2>1, <2>2, <2>3, <2>4, <2>5, OneInv
<1>7. CASE OpenFails(cmd.src, OpenFlags) /\ Done /\ Fail
  <2>1. /\ DiskOK' /\ OnlyFile(Src) /\ errors' \in Nat /\ fds' = fds
        /\ Exists(Src) => UNCHANGED disk
    BY <1>2, <1>3, <1>7, OpenFailsIs, Zenon
  <2>2. ~ Copying
    BY <1>1, Zenon DEF Copying
  <2>3. pc # "prompt"
    BY <1>1, Zenon
  <2> QED BY <1>1, <1>2, <1>5, <1>7, <2>1, <2>2, <2>3, FailInv
<1> QED BY <1>6, <1>7, Zenon DEF open

LEMMA CatReadInv == ASSUME ShellInv, cat_read PROVE ShellInv'
<1>1. /\ pc = "cat_read" /\ vfs_read(src_fd, Buffer) /\ UNCHANGED keep
      /\ pc' \in {"close", "cat_read"} /\ UNCHANGED <<disk, src_fd, unseen>>
  BY Zenon DEF cat_read
<1>2. /\ cmd \in Commands /\ cmd.op = "cat" /\ cmd.src \notin Folders
      /\ DiskOK /\ errors \in Nat /\ unseen \in BOOLEAN /\ fds \in [Fds -> File]
      /\ src_fd \in Fds /\ old.fds[src_fd] = Closed /\ fds[src_fd].at = Src
      /\ 0 <= fds[src_fd].offset /\ fds[src_fd].offset <= fds[src_fd].size
      /\ fds[src_fd].size <= Len(chain[Src])
      /\ \A f \in Fds \ {src_fd} : fds[f] = old.fds[f]
  BY <1>1, Zenon DEF ShellInv, TypesOK, PointsOK, TableOK, OneOpen
<1>3. Src \in Places
  BY <1>2, CommandIs, SMTT(30)
<1>4. /\ buffer' \in Seq(Int) /\ errors' \in Nat
      /\ fds' \in [Fds -> File] /\ OnlyFd(src_fd)
      /\ fds'[src_fd].at = Src /\ fds'[src_fd].size = fds[src_fd].size
      /\ fds'[src_fd].offset = fds[src_fd].offset + Len(buffer')
      /\ fds'[src_fd].offset <= fds[src_fd].size
  BY <1>1, <1>2, <1>3, ReadIs, Zenon
<1>5. fds[src_fd].offset \in Int /\ fds[src_fd].size \in Nat /\ Len(buffer') \in Nat
  <2>1. fds[src_fd] \in File
    BY <1>2, Zenon
  <2>2. Len(buffer') \in Nat
    BY <1>4
  <2> QED BY <2>1, <2>2, Fields, Zenon
<1>6. 0 <= fds'[src_fd].offset
  BY <1>2, <1>4, <1>5
<1>7. DiskOK' /\ OnlyFile(Src) /\ chain' = chain
  BY <1>1, <1>2, Zenon DEF disk, DiskOK, OnlyFile
<1>8. OthersOK'
  BY <1>1, <1>7, OthersKept DEF ShellInv
<1>9. \A f \in Fds \ {src_fd} : fds'[f] = old.fds[f]
  BY <1>2, <1>4, SMTT(30) DEF OnlyFd
<1> QED BY <1>1, <1>2, <1>4, <1>6, <1>7, <1>8, <1>9, OneInv

LEMMA WriteTextInv == ASSUME ShellInv, write_text PROVE ShellInv'
<1> DEFINE vals == <<cmd.text>>
<1>1. /\ pc = "write_text" /\ UNCHANGED keep /\ pc' = "close" /\ UNCHANGED locals
      /\ WriteEnds(src_fd, vals) \/ WriteStops(src_fd, vals)
  BY Zenon DEF write_text, Go
<1>2. /\ cmd \in Commands /\ cmd.op = "write" /\ cmd.src \notin Folders
      /\ DiskOK /\ errors \in Nat /\ unseen \in BOOLEAN /\ fds \in [Fds -> File]
      /\ src_fd \in Fds /\ old.fds[src_fd] = Closed /\ fds[src_fd].at = Src
      /\ 0 <= fds[src_fd].offset /\ fds[src_fd].offset <= fds[src_fd].size
      /\ fds[src_fd].size <= Len(chain[Src]) /\ buffer \in Seq(Int)
      /\ \A f \in Fds \ {src_fd} : fds[f] = old.fds[f]
  BY <1>1, Zenon DEF ShellInv, TypesOK, PointsOK, TableOK, OneOpen
<1>3. Src \in Places
  BY <1>2, CommandIs, Zenon
<1>4. vals \in Seq(Int)
  <2>1. cmd.text \in Int
    BY <1>2, ShellAssumption, Zenon
  <2> QED BY <2>1
<1>5. WriteAt(src_fd) \in 0 .. Len(chain[Src])
  <2>1. fds[src_fd].size \in Nat /\ fds[src_fd].offset \in Int
    BY <1>2, Fields, Zenon
  <2>2. Len(chain[Src]) \in Nat
    BY <1>2, <1>3, SMTT(30) DEF DiskOK
  <2> QED BY <1>2, <2>1, <2>2 DEF WriteAt
<1> HIDE DEF vals
<1>6. /\ DiskOK' /\ OnlyFile(Src) /\ OnlyFd(src_fd) /\ fds' \in [Fds -> File]
      /\ fds'[src_fd].at = Src /\ errors' \in Nat /\ unseen' \in BOOLEAN
  BY <1>1, <1>2, <1>3, <1>4, <1>5, WriteIs, Zenon
<1>7. OthersOK'
  <2>1. Named(Src)
    BY <1>2, Zenon DEF Named
  <2> QED BY <1>1, <1>6, <2>1, OthersKept DEF ShellInv
<1>8. \A f \in Fds \ {src_fd} : fds'[f] = old.fds[f]
  BY <1>2, <1>6, Zenon DEF OnlyFd
<1>9. src_fd' = src_fd /\ buffer' = buffer
  BY <1>1, Zenon DEF locals
<1> QED BY <1>1, <1>2, <1>6, <1>7, <1>8, <1>9, OneInv, Zenon

LEMMA CloseInv == ASSUME ShellInv, close PROVE ShellInv'
<1>1. /\ pc = "close" /\ fds' = [fds EXCEPT ![src_fd] = Closed]
      /\ pc' = "prompt" /\ buffer' = <<>>
      /\ UNCHANGED <<keep, disk, errors, unseen, status>>
  BY Zenon DEF close, Close, Done
<1>2. fds' = old.fds
  <2>1. /\ fds \in [Fds -> File] /\ old.fds \in [Fds -> File]
        /\ src_fd \in Fds /\ old.fds[src_fd] = Closed
        /\ \A f \in Fds \ {src_fd} : fds[f] = old.fds[f]
    BY <1>1, Zenon DEF ShellInv, TypesOK, TableOK, OneOpen
  <2> HIDE DEF Closed
  <2> QED BY <1>1, <2>1, Zenon
<1>3. /\ DiskOK' /\ OnlyFile("") /\ errors' \in Nat /\ unseen' \in BOOLEAN
      /\ Content(Src)' = Content(Src)
  BY <1>1, Keeps, Zenon DEF ShellInv, TypesOK, DiskOK, OnlyFile, disk, Content, Exists
<1>4. OthersOK'
  BY <1>1, <1>3, OthersKept, Zenon DEF ShellInv
<1>5. EndOK'
  <2>1. RealCopy => /\ cmd.op \in {"cp", "mv"} /\ Copying
    BY Zenon DEF RealCopy, Copying
  <2>2. RealCopy => status = "failed" /\ Content(Src) = old.files[Src]
    BY <1>1, <2>1, Zenon DEF ShellInv, PointsOK, CopyOK
  <2>3. UNCHANGED keep
    BY <1>1, Zenon
  <2> QED BY <1>1, <1>3, <2>2, <2>3, Keeps, Zenon DEF EndOK
<1> QED BY <1>1, <1>2, <1>3, <1>4, <1>5, EndInv, Zenon

LEMMA RmInv == ASSUME ShellInv, rm PROVE ShellInv'
<1>1. /\ pc = "rm" /\ UNCHANGED keep /\ fds' = fds /\ pc' = "prompt" /\ buffer' = <<>>
      /\ cmd.src \notin Folders
      /\ UnlinkOk(Src) \/ UnlinkFails(Src)
  BY Zenon DEF rm, IsFile, Done
<1>2. /\ cmd \in Commands /\ cmd.op = "rm" /\ fds = old.fds
      /\ DiskOK /\ errors \in Nat /\ unseen \in BOOLEAN
  BY <1>1, Zenon DEF ShellInv, TypesOK, PointsOK, TableOK, Ops, OneOpen, TwoOpen
<1>3. Src \in Places
  BY <1>1, <1>2, CommandIs
<1>4. DiskOK' /\ OnlyFile(Src) /\ errors' \in Nat /\ unseen' \in BOOLEAN
  BY <1>1, <1>2, <1>3, UnlinkIs
<1>5. OthersOK'
  <2>1. Named(Src)
    BY <1>2, Zenon DEF Named
  <2> QED BY <1>1, <1>4, <2>1, OthersKept DEF ShellInv
<1>6. EndOK'
  <2>1. ~ RealCopy
    BY <1>2, Zenon DEF RealCopy
  <2>2. ~ RealCopy'
    BY <1>1, <2>1, Keeps, Zenon
  <2> QED BY <2>2, Zenon DEF EndOK
<1> QED BY <1>1, <1>2, <1>4, <1>5, <1>6, EndInv

LEMMA CopyOpenSrcInv == ASSUME ShellInv, copy_open_src PROVE ShellInv'
<1> DEFINE final == IF cmd.dst \in Folders THEN Join[cmd.dst][cmd.src] ELSE cmd.dst
<1>1. /\ pc \in {"cp", "mv"} /\ cmd.src \notin Folders /\ Exists(Src)
      /\ UNCHANGED keep /\ unseen' = unseen
  BY Zenon DEF copy_open_src, IsFile, Src
<1>2. /\ cmd \in Commands /\ cmd.op = pc /\ fds = old.fds /\ buffer \in Seq(Int)
      /\ DiskOK /\ errors \in Nat /\ unseen \in BOOLEAN /\ fds \in [Fds -> File]
  BY <1>1, Zenon DEF ShellInv, TypesOK, PointsOK, TableOK, Ops, OneOpen, TwoOpen
<1>3. /\ cmd.src \in Paths /\ Src \in Places /\ Src = Place[cmd.src]
      /\ final \in Paths /\ Place[final] = Dst
  BY <1>1, <1>2, CommandIs DEF Src, Dst
<1> HIDE DEF final
<1>4. /\ cmd' = cmd /\ old' = old /\ Src' = Src /\ Dst' = Dst /\ (Copying' <=> Copying)
      /\ RealCopy' <=> RealCopy
  BY <1>1, Keeps, Zenon
<1>5. ASSUME NEW fd \in Fds, OpenOk(cmd.src, {}, fd), src_fd' = fd, final_dst' = final,
             pc' = "copy_open_dst", UNCHANGED <<dst_fd, buffer, status>>
      PROVE  ShellInv'
  <2>1. /\ UNCHANGED disk /\ errors' = errors
        /\ fds[fd] = Closed /\ fds' \in [Fds -> File] /\ OnlyFd(fd)
        /\ fds'[fd] = [at |-> Src, size |-> size[Src], offset |-> 0, flags |-> {}]
    <3> DEFINE how == {}
    <3>1. how \in SUBSET Flags /\ "TRUNC" \notin how /\ OpenOk(cmd.src, how, fd)
      BY <1>5, SMTT(30)
    <3> HIDE DEF how
    <3>2. /\ UNCHANGED disk /\ errors' = errors
          /\ fds[fd] = Closed /\ fds' \in [Fds -> File] /\ OnlyFd(fd)
          /\ fds'[fd] = [at |-> Src, size |-> IF "TRUNC" \in how THEN 0 ELSE size[Src],
                         offset |-> 0, flags |-> how]
      <4>1. DiskOK /\ fds \in [Fds -> File] /\ cmd.src \in Paths /\ Src = Place[cmd.src]
        BY <1>2, <1>3, Zenon
      <4>2. Exists(Place[cmd.src])
        BY <1>1, <1>3, Zenon
      <4>3. /\ Exists(Place[cmd.src]) => UNCHANGED disk
            /\ fds[fd] = Closed /\ fds' \in [Fds -> File] /\ OnlyFd(fd)
            /\ fds'[fd] = [at |-> Place[cmd.src],
                           size |-> IF "TRUNC" \in how THEN 0 ELSE size[Place[cmd.src]],
                           offset |-> 0, flags |-> how]
            /\ errors' = errors
        <5>1. Opened(Place[cmd.src], how, fd)
          BY <3>1, <4>1, OpenIs, Zenon
        <5> QED BY <5>1, Zenon DEF Opened
      <4> QED BY <4>1, <4>2, <4>3, Zenon
    <3> QED BY <3>1, <3>2, Zenon DEF how
  <2>2. fds'[fd].at = Src /\ fds'[fd].size = size[Src] /\ fds'[fd].offset = 0
    BY <2>1
  <2>3. size[Src] \in Nat /\ size[Src] <= Len(chain[Src])
    BY <1>2, <1>3, Zenon DEF DiskOK
  <2>4. DiskOK' /\ OnlyFile(Src) /\ chain' = chain /\ size' = size
    BY <1>2, <2>1, Zenon DEF DiskOK, disk, OnlyFile
  <2>5. OthersOK'
    BY <1>1, <2>1, <2>4, OthersKept, Zenon DEF ShellInv
  <2>6. TypesOK'
    BY <1>2, <1>4, <1>1, <1>5, <2>1, <2>4, Zenon DEF ShellInv, TypesOK, OneOpen
  <2>7. PointsOK'
    BY <1>1, <1>2, <1>3, <1>4, <1>5 DEF PointsOK, Ops, OneOpen, TwoOpen
  <2>8. TableOK'
    <3>1. \A f \in Fds \ {fd} : fds'[f] = old.fds[f]
      BY <1>2, <2>1, Zenon DEF OnlyFd
    <3>2. /\ 0 <= fds'[fd].offset /\ fds'[fd].offset <= fds'[fd].size
          /\ fds'[fd].size <= Len(chain'[Src])
      BY <2>2, <2>3, <2>4
    <3>3. old.fds[fd] = Closed
      BY <1>2, <2>1, ZenonT(30)
    <3> QED BY <1>4, <1>5, <2>2, <3>1, <3>2, <3>3, Zenon DEF TableOK, OneOpen, TwoOpen
  <2>9. CopyOK'
    <3>1. Copying => Content(Src) = old.files[Src]
      BY <1>1, Zenon DEF ShellInv, CopyOK
    <3>2. Content(Src)' = Content(Src) /\ (Exists(Src)' <=> Exists(Src))
      BY <1>4, <2>4, Zenon DEF Content, Exists
    <3>3. /\ pc' = "copy_open_dst" /\ pc' \notin TwoOpen /\ pc' # "copy_read"
          /\ pc' # "copy_write" /\ pc' # "copy_close"
      BY <1>5, Zenon DEF TwoOpen
    <3>4. Exists(Src)' /\ fds'[src_fd'].size = size'[Src] /\ fds'[src_fd'].offset = 0
      BY <1>1, <1>5, <2>2, <2>4, <3>2, Zenon
    <3>5. Copying => Content(Src)' = old'.files[Src]
      BY <1>4, <3>1, <3>2, Zenon
    <3> QED BY <1>4, <3>3, <3>4, <3>5, Zenon DEF CopyOK
  <2>10. EndOK'
    BY <1>5, Zenon DEF EndOK
  <2> QED BY <2>5, <2>6, <2>7, <2>8, <2>9, <2>10 DEF ShellInv
<1>6. CASE OpenFails(cmd.src, {}) /\ Done /\ Fail
  <2>1. DiskOK' /\ OnlyFile(Src) /\ errors' \in Nat /\ fds' = fds /\ UNCHANGED disk
    BY <1>1, <1>2, <1>3, <1>6, OpenFailsIs, Zenon
  <2>2. pc # "prompt" /\ fds' = old.fds /\ unseen' \in BOOLEAN
    BY <1>1, <1>2, <2>1, Zenon
  <2> QED BY <1>1, <1>6, <2>1, <2>2, FailInv
<1>7. \/ \E fd \in Fds : /\ OpenOk(cmd.src, {}, fd) /\ src_fd' = fd /\ final_dst' = final
                          /\ pc' = "copy_open_dst"
                          /\ UNCHANGED <<dst_fd, buffer, status>>
      \/ OpenFails(cmd.src, {}) /\ Done /\ Fail
  BY Zenon DEF copy_open_src, final
<1> QED BY <1>5, <1>6, <1>7, Zenon

\* What holds while both files, or the first, are open for a copy.
LEMMA CopyFacts ==
  ASSUME ShellInv, pc \in {"copy_open_dst"} \union TwoOpen
  PROVE  /\ cmd \in Commands /\ cmd.op \in {"cp", "mv"} /\ cmd.src \in Paths \ Folders
         /\ Src \in Places /\ Dst \in Places
         /\ final_dst \in Paths /\ Place[final_dst] = Dst
         /\ DiskOK /\ errors \in Nat /\ unseen \in BOOLEAN /\ buffer \in Seq(Int)
         /\ fds \in [Fds -> File] /\ old.fds \in [Fds -> File]
         /\ src_fd \in Fds /\ old.fds[src_fd] = Closed /\ fds[src_fd].at = Src
         /\ 0 <= fds[src_fd].offset /\ fds[src_fd].offset <= fds[src_fd].size
         /\ fds[src_fd].size <= Len(chain[Src])
         /\ fds[src_fd].size \in Nat /\ fds[src_fd].offset \in Int
         /\ Copying => /\ Content(Src) = old.files[Src] /\ Exists(Src)
                       /\ fds[src_fd].size = size[Src]
<1>1. /\ pc # "prompt" /\ pc # "close" /\ pc \in OneOpen \union TwoOpen
  BY Zenon DEF OneOpen, TwoOpen
<1>2. /\ cmd \in Commands /\ cmd.op \in {"cp", "mv"} /\ cmd.src \in Paths \ Folders
      /\ final_dst \in Paths /\ Place[final_dst] = Dst
  BY <1>1, Zenon DEF ShellInv, PointsOK
<1>3. Src \in Places /\ Dst \in Places
  BY <1>2, CommandIs, Zenon
<1>4. /\ DiskOK /\ errors \in Nat /\ unseen \in BOOLEAN /\ buffer \in Seq(Int)
      /\ fds \in [Fds -> File] /\ old.fds \in [Fds -> File]
  BY Zenon DEF ShellInv, TypesOK
<1>5. /\ src_fd \in Fds /\ old.fds[src_fd] = Closed /\ fds[src_fd].at = Src
      /\ 0 <= fds[src_fd].offset /\ fds[src_fd].offset <= fds[src_fd].size
      /\ fds[src_fd].size <= Len(chain[Src])
  BY <1>1, Zenon DEF ShellInv, TableOK
<1>6. fds[src_fd].size \in Nat /\ fds[src_fd].offset \in Int
  BY <1>4, <1>5, Fields, Zenon
<1>7. Copying => /\ Content(Src) = old.files[Src] /\ Exists(Src)
                 /\ fds[src_fd].size = size[Src]
  BY <1>1, Zenon DEF ShellInv, CopyOK
<1> QED BY <1>2, <1>3, <1>4, <1>5, <1>6, <1>7

LEMMA CopyOpenDstInv == ASSUME ShellInv, copy_open_dst PROVE ShellInv'
<1> DEFINE how == {"CREAT", "WRONLY", "TRUNC"}
<1>1. pc = "copy_open_dst" /\ UNCHANGED keep /\ unseen' = unseen
  BY Zenon DEF copy_open_dst
<1>2. /\ cmd \in Commands /\ cmd.op \in {"cp", "mv"} /\ cmd.src \in Paths \ Folders
      /\ Src \in Places /\ Dst \in Places
      /\ final_dst \in Paths /\ Place[final_dst] = Dst
      /\ DiskOK /\ errors \in Nat /\ unseen \in BOOLEAN /\ buffer \in Seq(Int)
      /\ fds \in [Fds -> File] /\ old.fds \in [Fds -> File]
      /\ src_fd \in Fds /\ old.fds[src_fd] = Closed /\ fds[src_fd].at = Src
      /\ 0 <= fds[src_fd].offset /\ fds[src_fd].offset <= fds[src_fd].size
      /\ fds[src_fd].size <= Len(chain[Src])
      /\ Copying => /\ Content(Src) = old.files[Src] /\ Exists(Src)
                    /\ fds[src_fd].size = size[Src]
  BY <1>1, CopyFacts, Zenon
<1>3. \A f \in Fds \ {src_fd} : fds[f] = old.fds[f]
  BY <1>1, Zenon DEF ShellInv, TableOK, OneOpen
<1>4. /\ cmd' = cmd /\ old' = old /\ Src' = Src /\ Dst' = Dst /\ (Copying' <=> Copying)
      /\ RealCopy' <=> RealCopy
  BY <1>1, Keeps
<1>5. Named(Dst)
  BY <1>2, Zenon DEF Named
<1>6. ASSUME DiskOK', OnlyFile(Dst), Exists(Dst) => UNCHANGED disk
      PROVE  /\ OthersOK' /\ Len(chain'[Src]) >= Len(chain[Src])
             /\ Copying => /\ Content(Src)' = old.files[Src] /\ Exists(Src)'
                           /\ size'[Src] = size[Src]
  <2>1. OthersOK'
    BY <1>1, <1>5, <1>6, OthersKept DEF ShellInv
  <2>2. Len(chain'[Src]) >= Len(chain[Src])
    <3>1. Len(chain[Src]) \in Nat /\ Len(chain'[Src]) \in Nat
      BY <1>2, <1>6, DiskIs, DiskIsNext, Zenon
    <3>2. CASE UNCHANGED disk
      BY <3>1, <3>2 DEF disk
    <3>3. CASE Src = Dst /\ ~ Exists(Dst)
      <4>1. Len(chain[Src]) = 0
        BY <3>3, Zenon DEF Exists
      <4> QED BY <3>1, <4>1
    <3>4. CASE Src # Dst
      <4>1. chain'[Src] = chain[Src]
        BY <1>2, <1>6, <3>4, Zenon DEF OnlyFile
      <4> QED BY <3>1, <4>1
    <3> QED BY <1>6, <3>2, <3>3, <3>4
  <2>3. ASSUME Copying
        PROVE  Content(Src)' = old.files[Src] /\ Exists(Src)' /\ size'[Src] = size[Src]
    <3>1. Src # Dst
      BY <2>3, Zenon DEF Copying
    <3>2. chain'[Src] = chain[Src] /\ size'[Src] = size[Src]
      BY <1>2, <1>6, <3>1, Zenon DEF OnlyFile
    <3> QED BY <1>2, <1>4, <2>3, <3>2, Zenon DEF Content, Exists
  <2> QED BY <2>1, <2>2, <2>3
<1>7. ASSUME NEW fd \in Fds, OpenOk(final_dst, how, fd), dst_fd' = fd,
             pc' = "copy_read", UNCHANGED <<final_dst, src_fd, buffer, status>>
      PROVE  ShellInv'
  <2>1. how \in SUBSET Flags /\ "TRUNC" \in how /\ "APPEND" \notin how
    BY Zenon DEF Flags
  <2> HIDE DEF how
  <2>2. /\ DiskOK' /\ OnlyFile(Dst) /\ size' = size /\ Exists(Dst)'
        /\ Exists(Dst) => UNCHANGED disk
        /\ fds[fd] = Closed /\ fds' \in [Fds -> File] /\ OnlyFd(fd)
        /\ fds'[fd] = [at |-> Dst, size |-> IF "TRUNC" \in how THEN 0 ELSE size[Dst],
                       offset |-> 0, flags |-> how]
        /\ errors' = errors
    <3>1. PICK path \in Paths : path = final_dst
      BY <1>2, Zenon
    <3>2. /\ DiskOK /\ fds \in [Fds -> File] /\ Dst = Place[path] /\ Dst' = Dst
          /\ OpenOk(path, how, fd)
      BY <1>2, <1>4, <1>7, <3>1, Zenon
    <3> DEFINE p == Place[path]
    <3>3. /\ DiskOK' /\ OnlyFile(p) /\ size' = size /\ Exists(p)'
          /\ Exists(p) => UNCHANGED disk
          /\ fds[fd] = Closed /\ fds' \in [Fds -> File] /\ OnlyFd(fd)
          /\ fds'[fd] = [at |-> p, size |-> IF "TRUNC" \in how THEN 0 ELSE size[p],
                         offset |-> 0, flags |-> how]
          /\ errors' = errors
      <4>1. Opened(p, how, fd)
        BY <2>1, <3>2, OpenIs, Zenon
      <4> QED BY <4>1, Zenon DEF Opened
    <3> HIDE DEF p
    <3>4. Exists(p)' <=> Exists(Dst)'
      BY <3>2, Zenon DEF p, Exists
    <3> QED BY <3>2, <3>3, <3>4, Zenon DEF p
  <2>3. /\ fds'[fd].at = Dst /\ fds'[fd].size = 0 /\ fds'[fd].offset = 0
        /\ fds'[fd].flags = how
    BY <2>1, <2>2
  <2>4. /\ OthersOK' /\ Len(chain'[Src]) >= Len(chain[Src])
        /\ Copying => /\ Content(Src)' = old.files[Src] /\ Exists(Src)'
                      /\ size'[Src] = size[Src]
    BY <1>6, <2>2, Zenon
  <2>5. fd # src_fd
    <3>1. Closed.at = "" /\ Src # ""
      BY <1>2, ShellAssumption, Zenon DEF Closed
    <3> QED BY <1>2, <2>2, <3>1, Zenon
  <2>6. fds'[src_fd] = fds[src_fd] /\ fds[fd] = old.fds[fd]
    BY <1>2, <1>3, <2>2, <2>5, Zenon DEF OnlyFd
  <2>7. TypesOK'
    BY <1>1, <1>2, <1>4, <1>7, <2>2, ZenonT(30) DEF TypesOK, TwoOpen
  <2>8. PointsOK'
    BY <1>2, <1>4, <1>7, Zenon DEF PointsOK, Ops, OneOpen, TwoOpen
  <2>9. TableOK'
    <3>1. \A f \in Fds \ {src_fd, fd} : fds'[f] = old.fds[f]
      BY <1>3, <2>2, Zenon DEF OnlyFd
    <3>2. Len(chain'[Dst]) \in Nat /\ Len(chain'[Src]) \in Nat /\ Len(chain[Src]) \in Nat
      BY <1>2, <2>2, DiskIs, DiskIsNext, ZenonT(30)
    <3>3. fds[src_fd].size \in Nat
      <4>1. fds[src_fd] \in File
        BY <1>2, Zenon
      <4> QED BY <4>1, Fields, Zenon
    <3>4. fds'[src_fd].size <= Len(chain'[Src]) /\ fds'[fd].size <= Len(chain'[Dst])
      <4>1. /\ fds[src_fd].size <= Len(chain[Src]) /\ Len(chain'[Src]) >= Len(chain[Src])
            /\ fds'[src_fd].size = fds[src_fd].size
        BY <1>2, <2>4, <2>6, Zenon
      <4> QED BY <2>3, <3>2, <3>3, <4>1
    <3> QED BY <1>2, <1>4, <1>7, <2>1, <2>2, <2>3, <2>5, <2>6, <3>1, <3>4, Zenon
            DEF TableOK, OneOpen, TwoOpen
  <2>10. CopyOK'
    <3>1. Copying => fds[src_fd].offset = 0
      <4>1. pc # "prompt"
        BY <1>1, Zenon
      <4> QED BY <1>1, <4>1, Zenon DEF ShellInv, CopyOK
    <3>2. /\ \A i \in 1 .. fds'[fd].size : chain'[Dst][i] = chain'[Src][i]
          /\ ~ (fds'[fd].size > 0)
      <4>1. \A z : z = 0 => ~ (z > 0) /\ \A i \in 1 .. z : FALSE
        OBVIOUS
      <4> QED BY <2>3, <4>1, Zenon
    <3>3. Copying => /\ fds'[src_fd].size = size'[Src]
                     /\ fds'[fd].size = fds'[src_fd].offset
      BY <1>2, <2>3, <2>4, <2>6, <3>1, Zenon
    <3> QED BY <1>4, <1>7, <2>4, <3>2, <3>3, ZenonT(30) DEF CopyOK, TwoOpen, Content, Exists
  <2>11. EndOK'
    BY <1>7, Zenon DEF EndOK
  <2> QED BY <2>4, <2>7, <2>8, <2>9, <2>10, <2>11 DEF ShellInv
<1>8. CASE OpenFails(final_dst, how) /\ Go("close") /\ Fail
  <2>1. /\ DiskOK' /\ OnlyFile(Dst) /\ errors' \in Nat /\ fds' = fds
        /\ Exists(Dst) => UNCHANGED disk
    BY <1>2, <1>8, OpenFailsIs, Zenon
  <2>2. /\ OthersOK' /\ Len(chain'[Src]) >= Len(chain[Src])
        /\ Copying => Content(Src)' = old.files[Src]
    BY <1>6, <2>1, Zenon
  <2>3. pc' = "close" /\ status' = "failed" /\ UNCHANGED locals
    BY <1>8, Zenon DEF Go, Fail
  <2>4. TypesOK'
    BY <1>1, <1>2, <1>4, <2>1, <2>3, Zenon DEF TypesOK, OneOpen, locals
  <2>5. PointsOK'
    <3>1. /\ pc' = "close" /\ pc' # "copy_open_dst" /\ pc' \notin TwoOpen /\ pc' \notin Ops
          /\ pc' # "cat_read" /\ pc' # "write_text" /\ pc' # "mv_unlink"
      BY <2>3, Zenon DEF TwoOpen, Ops
    <3> QED BY <1>2, <1>4, <2>3, <3>1, Zenon DEF PointsOK
  <2>6. TableOK'
    BY <1>2, <1>3, <1>4, <2>1, <2>3, Zenon DEF TableOK, OneOpen, TwoOpen, locals
  <2>7. CopyOK' /\ EndOK'
    BY <1>4, <2>2, <2>3, Zenon DEF CopyOK, EndOK, TwoOpen
  <2> QED BY <2>2, <2>4, <2>5, <2>6, <2>7, SMTT(30) DEF ShellInv
<1> QED BY <1>7, <1>8, Zenon DEF copy_open_dst

\* What else holds while both files are open.
LEMMA TwoFacts ==
  ASSUME ShellInv, pc \in TwoOpen
  PROVE  /\ dst_fd \in Fds /\ dst_fd # src_fd /\ old.fds[dst_fd] = Closed
         /\ fds[dst_fd].at = Dst
         /\ fds[dst_fd].size \in Nat /\ fds[dst_fd].offset \in Int
         /\ \A f \in Fds \ {src_fd, dst_fd} : fds[f] = old.fds[f]
         /\ pc # "copy_undo" => /\ fds[dst_fd].offset = fds[dst_fd].size
                                /\ fds[dst_fd].size <= Len(chain[Dst])
                                /\ Exists(Dst) /\ "APPEND" \notin fds[dst_fd].flags
<1>1. /\ dst_fd \in Fds /\ dst_fd # src_fd /\ old.fds[dst_fd] = Closed
      /\ fds[dst_fd].at = Dst
      /\ \A f \in Fds \ {src_fd, dst_fd} : fds[f] = old.fds[f]
      /\ pc # "copy_undo" => /\ fds[dst_fd].offset = fds[dst_fd].size
                             /\ fds[dst_fd].size <= Len(chain[Dst])
                             /\ Exists(Dst) /\ "APPEND" \notin fds[dst_fd].flags
  BY Zenon DEF ShellInv, TableOK
<1>2. fds[dst_fd].size \in Nat /\ fds[dst_fd].offset \in Int
  BY <1>1, Fields, Zenon DEF ShellInv, TypesOK
<1> QED BY <1>1, <1>2, Zenon

LEMMA CopyReadInv == ASSUME ShellInv, copy_read PROVE ShellInv'
<1>1. /\ pc = "copy_read" /\ UNCHANGED keep /\ vfs_read(src_fd, Buffer)
      /\ pc' = (IF buffer' = <<>> THEN "copy_close" ELSE "copy_write")
      /\ unseen' = (unseen \/ (buffer' = <<>> /\ errors' # errors))
      /\ UNCHANGED <<disk, final_dst, src_fd, dst_fd, status>>
  BY SMTT(30) DEF copy_read
<1>2. /\ cmd \in Commands /\ cmd.op \in {"cp", "mv"} /\ cmd.src \in Paths \ Folders
      /\ Src \in Places /\ Dst \in Places
      /\ final_dst \in Paths /\ Place[final_dst] = Dst
      /\ DiskOK /\ errors \in Nat /\ unseen \in BOOLEAN /\ fds \in [Fds -> File]
      /\ old.fds \in [Fds -> File]
      /\ src_fd \in Fds /\ old.fds[src_fd] = Closed /\ fds[src_fd].at = Src
      /\ 0 <= fds[src_fd].offset /\ fds[src_fd].offset <= fds[src_fd].size
      /\ fds[src_fd].size <= Len(chain[Src])
      /\ fds[src_fd].size \in Nat /\ fds[src_fd].offset \in Int
      /\ Copying => /\ Content(Src) = old.files[Src] /\ Exists(Src)
                    /\ fds[src_fd].size = size[Src]
  <2>1. pc \in {"copy_open_dst"} \union TwoOpen
    BY <1>1, Zenon DEF TwoOpen
  <2> QED BY <2>1, CopyFacts, Zenon
<1>3. /\ dst_fd \in Fds /\ dst_fd # src_fd /\ old.fds[dst_fd] = Closed
      /\ fds[dst_fd].at = Dst
      /\ fds[dst_fd].size \in Nat /\ fds[dst_fd].offset \in Int
      /\ \A f \in Fds \ {src_fd, dst_fd} : fds[f] = old.fds[f]
      /\ fds[dst_fd].offset = fds[dst_fd].size
      /\ fds[dst_fd].size <= Len(chain[Dst])
      /\ Exists(Dst) /\ "APPEND" \notin fds[dst_fd].flags
  BY <1>1, TwoFacts, Zenon DEF TwoOpen
<1>4. /\ buffer' \in Seq(Int) /\ errors' \in Nat
      /\ fds' \in [Fds -> File] /\ OnlyFd(src_fd)
      /\ fds'[src_fd].at = Src /\ fds'[src_fd].size = fds[src_fd].size
      /\ fds'[src_fd].offset = fds[src_fd].offset + Len(buffer')
      /\ fds'[src_fd].offset <= fds[src_fd].size
      /\ \A i \in 1 .. Len(buffer') : buffer'[i] = chain[Src][fds[src_fd].offset + i]
      /\ buffer' = <<>> /\ errors' = errors => fds[src_fd].offset = fds[src_fd].size
  BY <1>1, <1>2, ReadIs, Zenon
<1>5. /\ cmd' = cmd /\ old' = old /\ Src' = Src /\ Dst' = Dst /\ (Copying' <=> Copying)
      /\ RealCopy' <=> RealCopy
  BY <1>1, Keeps, SMTT(30)
<1>6. /\ DiskOK' /\ OnlyFile(Src) /\ chain' = chain /\ size' = size
      /\ Content(Src)' = Content(Src)
      /\ (Exists(Src)' <=> Exists(Src)) /\ (Exists(Dst)' <=> Exists(Dst))
  BY <1>1, <1>2, <1>5, Zenon DEF disk, DiskOK, OnlyFile, Content, Exists
<1>7. OthersOK'
  BY <1>1, <1>6, OthersKept, SMTT(30) DEF ShellInv
<1>8. pc' \in {"copy_close", "copy_write"} /\ unseen' \in BOOLEAN
  BY <1>1, <1>2, Zenon
<1>9. TypesOK'
  BY <1>2, <1>4, <1>5, <1>6, <1>8, Zenon DEF TypesOK, TwoOpen
<1>10. PointsOK'
  BY <1>1, <1>2, <1>5, <1>8, Zenon DEF PointsOK, Ops, OneOpen, TwoOpen
<1>11. fds'[dst_fd] = fds[dst_fd]
  BY <1>3, <1>4, Zenon DEF OnlyFd
<1>12. Len(buffer') \in Nat /\ 0 <= fds'[src_fd].offset
  <2>1. Len(buffer') \in Nat
    BY <1>4
  <2>2. /\ 0 <= fds[src_fd].offset /\ fds[src_fd].offset \in Int
        /\ fds'[src_fd].offset = fds[src_fd].offset + Len(buffer')
    BY <1>2, <1>4, Zenon
  <2> QED BY <2>1, <2>2
<1>13. TableOK'
  <2>1. \A f \in Fds \ {src_fd, dst_fd} : fds'[f] = old.fds[f]
    BY <1>3, <1>4, Zenon DEF OnlyFd
  <2> QED BY <1>1, <1>2, <1>3, <1>4, <1>5, <1>6, <1>8, <1>11, <1>12, <2>1, Zenon
          DEF TableOK, OneOpen, TwoOpen
<1>14. CopyOK'
  <2> SUFFICES ASSUME Copying PROVE CopyOK'
    BY <1>5, Zenon DEF CopyOK
  <2>1. /\ \A i \in 1 .. fds[dst_fd].size : chain[Dst][i] = chain[Src][i]
        /\ ~ unseen /\ fds[dst_fd].size > 0 => size[Dst] = fds[dst_fd].size
        /\ fds[dst_fd].size = fds[src_fd].offset
    BY <1>1, Zenon DEF ShellInv, CopyOK
  <2>2. ~ unseen' => ~ unseen
    BY <1>1, Zenon
  <2>3. pc' = "copy_close" /\ ~ unseen' => fds[dst_fd].size = size[Src]
    BY <1>1, <1>2, <1>4, <2>1, Zenon
  <2> QED BY <1>1, <1>2, <1>4, <1>5, <1>6, <1>8, <1>11, <2>1, <2>2, <2>3, ZenonT(60)
          DEF CopyOK, TwoOpen
<1>15. EndOK'
  BY <1>8, Zenon DEF EndOK
<1> QED BY <1>7, <1>9, <1>10, <1>13, <1>14, <1>15 DEF ShellInv

LEMMA CopyWriteInv == ASSUME ShellInv, copy_write PROVE ShellInv'
<1> DEFINE at == fds[dst_fd].size
           len == Len(buffer)
           whole == WriteEnds(dst_fd, buffer) /\ Room(dst_fd) >= len
<1>1. /\ pc = "copy_write" /\ UNCHANGED keep /\ status' = status /\ UNCHANGED locals
      /\ WriteEnds(dst_fd, buffer) \/ WriteStops(dst_fd, buffer)
      /\ pc' \in {"copy_read", "copy_undo"}
      /\ pc' = "copy_read" => whole
  BY Zenon DEF copy_write, Go
<1>2. /\ cmd \in Commands /\ cmd.op \in {"cp", "mv"} /\ cmd.src \in Paths \ Folders
      /\ Src \in Places /\ Dst \in Places
      /\ final_dst \in Paths /\ Place[final_dst] = Dst
      /\ DiskOK /\ errors \in Nat /\ unseen \in BOOLEAN /\ fds \in [Fds -> File]
      /\ old.fds \in [Fds -> File] /\ buffer \in Seq(Int)
      /\ src_fd \in Fds /\ old.fds[src_fd] = Closed /\ fds[src_fd].at = Src
      /\ 0 <= fds[src_fd].offset /\ fds[src_fd].offset <= fds[src_fd].size
      /\ fds[src_fd].size <= Len(chain[Src])
      /\ fds[src_fd].size \in Nat /\ fds[src_fd].offset \in Int
      /\ Copying => /\ Content(Src) = old.files[Src] /\ Exists(Src)
                    /\ fds[src_fd].size = size[Src]
  BY <1>1, CopyFacts, Zenon DEF TwoOpen
<1>3. /\ dst_fd \in Fds /\ dst_fd # src_fd /\ old.fds[dst_fd] = Closed
      /\ fds[dst_fd].at = Dst /\ at \in Nat
      /\ \A f \in Fds \ {src_fd, dst_fd} : fds[f] = old.fds[f]
      /\ fds[dst_fd].offset = at /\ at <= Len(chain[Dst])
      /\ Exists(Dst) /\ "APPEND" \notin fds[dst_fd].flags
  BY <1>1, TwoFacts, Zenon DEF TwoOpen
<1>4. /\ len \in Nat /\ Len(chain[Src]) \in Nat /\ Len(chain[Dst]) \in Nat
      /\ at \in 0 .. Len(chain[Dst])
  <2>1. Len(chain[Src]) \in Nat /\ Len(chain[Dst]) \in Nat
    BY <1>2, DiskIs, Zenon
  <2>2. buffer \in Seq(Int)
    BY <1>2, Zenon
  <2>3. at \in Nat /\ at <= Len(chain[Dst])
    BY <1>3, Zenon
  <2>4. len \in Nat
    BY <2>2
  <2> HIDE DEF at, len
  <2>5. at \in 0 .. Len(chain[Dst])
    BY <2>1, <2>3
  <2> QED BY <2>1, <2>4, <2>5, Zenon
<1>5. WriteAt(dst_fd) = at
  BY <1>3, Zenon DEF WriteAt
<1> HIDE DEF at, len
<1>6. /\ DiskOK' /\ OnlyFile(Dst) /\ OnlyFd(dst_fd) /\ fds' \in [Fds -> File]
      /\ fds'[dst_fd].at = Dst /\ fds'[dst_fd].flags = fds[dst_fd].flags
      /\ errors' \in Nat /\ unseen' \in BOOLEAN /\ (unseen => unseen')
      /\ Len(chain'[Dst]) >= Len(chain[Dst])
      /\ \A i \in 1 .. at : chain'[Dst][i] = chain[Dst][i]
      /\ whole =>
           /\ fds'[dst_fd].offset = at + len
           /\ fds'[dst_fd].size = (IF at >= at + len THEN at ELSE at + len)
           /\ Len(chain'[Dst]) >= at + len
           /\ \A i \in 1 .. len : chain'[Dst][at + i] = buffer[i]
           /\ ~ unseen' => size'[Dst] = fds'[dst_fd].size
  <2>1. fds[dst_fd].size = at /\ Len(buffer) = len
    BY Zenon DEF at, len
  <2>2. fds[dst_fd].size <= Len(chain[Dst])
    BY <1>3, <2>1, Zenon
  <2>3. /\ DiskOK' /\ OnlyFile(Dst) /\ OnlyFd(dst_fd) /\ fds' \in [Fds -> File]
        /\ fds'[dst_fd].at = Dst /\ fds'[dst_fd].flags = fds[dst_fd].flags
        /\ errors' \in Nat /\ unseen' \in BOOLEAN /\ (unseen => unseen')
        /\ Len(chain'[Dst]) >= Len(chain[Dst])
        /\ \A i \in 1 .. at : chain'[Dst][i] = chain[Dst][i]
        /\ WriteEnds(dst_fd, buffer) /\ Room(dst_fd) >= Len(buffer) =>
             /\ fds'[dst_fd].offset = at + Len(buffer)
             /\ fds'[dst_fd].size = (IF fds[dst_fd].size >= at + Len(buffer)
                                     THEN fds[dst_fd].size ELSE at + Len(buffer))
             /\ Len(chain'[Dst]) >= at + Len(buffer)
             /\ \A i \in 1 .. Len(buffer) : chain'[Dst][at + i] = buffer[i]
             /\ ~ unseen' => size'[Dst] = fds'[dst_fd].size
    BY <1>1, <1>2, <1>3, <1>4, <1>5, <2>2, WriteIs, Zenon
  <2> QED BY <2>1, <2>3, Zenon
<1>7. /\ cmd' = cmd /\ old' = old /\ Src' = Src /\ Dst' = Dst /\ (Copying' <=> Copying)
      /\ RealCopy' <=> RealCopy
  BY <1>1, Keeps, Zenon
<1>8. fds'[src_fd] = fds[src_fd] /\ UNCHANGED <<final_dst, src_fd, dst_fd, buffer>>
  BY <1>1, <1>2, <1>3, <1>6, ZenonT(30) DEF OnlyFd, locals
<1>9. OthersOK'
  <2>1. Named(Dst)
    BY <1>2, Zenon DEF Named
  <2>2. OthersOK /\ UNCHANGED keep /\ OnlyFile(Dst)
    BY <1>1, <1>6, Zenon DEF ShellInv
  <2> QED BY <2>1, <2>2, OthersKept, Zenon
<1>10. TypesOK'
  BY <1>1, <1>2, <1>6, <1>7, <1>8, Zenon DEF TypesOK, TwoOpen
<1>11. PointsOK'
  BY <1>1, <1>2, <1>7, <1>8, Zenon DEF PointsOK, Ops, OneOpen, TwoOpen
<1>12. whole => fds'[dst_fd].size = at + len
  <2>1. whole => fds'[dst_fd].size = (IF at >= at + len THEN at ELSE at + len)
    BY <1>6, Zenon
  <2>2. at \in Nat /\ len \in Nat
    BY <1>3, <1>4, Zenon
  <2> HIDE DEF whole
  <2> QED BY <2>1, <2>2
<1> HIDE DEF whole
<1>13. TableOK'
  <2>1. \A f \in Fds \ {src_fd, dst_fd} : fds'[f] = old.fds[f]
    BY <1>3, <1>6, Zenon DEF OnlyFd
  <2>2. fds'[src_fd].size <= Len(chain'[Src])
    <3>1. Len(chain'[Src]) \in Nat /\ Len(chain'[Src]) >= Len(chain[Src])
      <4>1. chain'[Src] \in Seq(Int)
        BY <1>2, <1>6, ZenonT(30) DEF DiskOK
      <4>2. CASE Src = Dst
        <5>1. Len(chain'[Src]) >= Len(chain[Src])
          BY <1>6, <4>2, Zenon
        <5> QED BY <4>1, <5>1
      <4>3. CASE Src # Dst
        <5>1. chain'[Src] = chain[Src] /\ Len(chain[Src]) \in Nat
          BY <1>2, <1>4, <1>6, <4>3, ZenonT(30) DEF OnlyFile
        <5> QED BY <5>1
      <4> QED BY <4>2, <4>3
    <3>2. /\ fds'[src_fd].size = fds[src_fd].size /\ fds[src_fd].size \in Nat
          /\ fds[src_fd].size <= Len(chain[Src]) /\ Len(chain[Src]) \in Nat
      BY <1>2, <1>4, <1>8, Zenon
    <3> QED BY <3>1, <3>2
  <2>3. Exists(Dst)'
    <3>1. chain[Dst] \in Seq(Int) /\ chain'[Dst] \in Seq(Int)
      BY <1>2, <1>6, DiskIs, DiskIsNext, Zenon
    <3>2. Len(chain[Dst]) > 0
      <4>1. \A c \in Seq(Int) : c # <<>> => Len(c) > 0
        OBVIOUS
      <4>2. chain[Dst] # <<>>
        BY <1>3, Zenon DEF Exists
      <4> QED BY <3>1, <4>1, <4>2, Zenon
    <3>3. chain'[Dst] # <<>>
      <4>1. Len(chain'[Dst]) >= Len(chain[Dst])
        BY <1>6, Zenon
      <4>2. \A c, d \in Seq(Int) : Len(c) > 0 /\ Len(d) >= Len(c) => d # <<>>
        OBVIOUS
      <4> QED BY <3>1, <3>2, <4>1, <4>2, Zenon
    <3> QED BY <1>7, <3>3, Zenon DEF Exists
  <2>4. pc' # "copy_undo" => /\ fds'[dst_fd].offset = fds'[dst_fd].size
                             /\ fds'[dst_fd].size <= Len(chain'[Dst])
    <3>1. Len(chain'[Dst]) \in Nat
      BY <1>2, <1>6, DiskIsNext, Zenon
    <3> QED BY <1>1, <1>3, <1>4, <1>6, <1>12, <3>1, Zenon
  <2> QED BY <1>1, <1>2, <1>3, <1>6, <1>7, <1>8, <2>1, <2>2, <2>3, <2>4, Zenon
          DEF TableOK, OneOpen, TwoOpen
<1>14. CopyOK'
  <2> SUFFICES ASSUME Copying PROVE CopyOK'
    BY <1>7, Zenon DEF CopyOK
  <2>1. Src # Dst
    BY Zenon DEF Copying
  <2>2. chain'[Src] = chain[Src] /\ size'[Src] = size[Src]
    BY <1>2, <1>6, <2>1, Zenon DEF OnlyFile
  <2>3. Content(Src)' = Content(Src) /\ (Exists(Src)' <=> Exists(Src))
    BY <1>7, <2>2, SMTT(30) DEF Content, Exists
  <2>4. /\ \A i \in 1 .. at : chain[Dst][i] = chain[Src][i]
        /\ at + len = fds[src_fd].offset
        /\ \A i \in 1 .. len : buffer[i] = chain[Src][at + i]
    <3>1. pc = "copy_write" /\ pc # "prompt"
      BY <1>1, Zenon
    <3> QED BY <3>1, Zenon DEF ShellInv, CopyOK, at, len
  <2>5. ASSUME pc' = "copy_read"
        PROVE  /\ \A i \in 1 .. fds'[dst_fd].size : chain'[Dst][i] = chain'[Src][i]
               /\ ~ unseen' => size'[Dst] = fds'[dst_fd].size
               /\ fds'[dst_fd].size = fds'[src_fd].offset
    <3>1. whole
      BY <1>1, <2>5
    <3>2. ASSUME NEW i \in 1 .. at + len PROVE chain'[Dst][i] = chain'[Src][i]
      <4>1. CASE i <= at
        <5>1. i \in 1 .. at
          BY <1>3, <1>4, <4>1
        <5>2. chain'[Dst][i] = chain[Dst][i] /\ chain[Dst][i] = chain[Src][i]
          BY <1>6, <2>4, <5>1, Zenon
        <5> QED BY <2>2, <5>2, Zenon
      <4>2. CASE i > at
        <5>1. i - at \in 1 .. len /\ at + (i - at) = i
          BY <1>3, <1>4, <4>2
        <5>2. chain'[Dst][i] = buffer[i - at]
          BY <1>6, <3>1, <5>1, Zenon
        <5>3. buffer[i - at] = chain[Src][i]
          BY <2>4, <5>1, Zenon
        <5> QED BY <2>2, <5>2, <5>3, SMTT(30)
      <4> QED BY <1>3, <1>4, <4>1, <4>2, SMTT(30)
    <3> QED BY <1>6, <1>8, <1>12, <2>4, <3>1, <3>2, Zenon
  <2> QED BY <1>1, <1>2, <1>7, <1>8, <2>2, <2>3, <2>5, Zenon DEF CopyOK, TwoOpen
<1>15. EndOK'
  BY <1>1, Zenon DEF EndOK
<1> QED BY <1>9, <1>10, <1>11, <1>13, <1>14, <1>15 DEF ShellInv

\* Both files are closed.
LEMMA BothClosed ==
  ASSUME ShellInv, pc \in TwoOpen, fds' = Close(Close(fds, src_fd), dst_fd)
  PROVE  fds' = old.fds
<1>1. /\ fds \in [Fds -> File] /\ old.fds \in [Fds -> File]
      /\ src_fd \in Fds /\ old.fds[src_fd] = Closed
  <2>1. pc \in {"copy_open_dst"} \union TwoOpen
    BY Zenon
  <2> QED BY <2>1, CopyFacts, Zenon
<1>2. /\ dst_fd \in Fds /\ old.fds[dst_fd] = Closed
      /\ \A f \in Fds \ {src_fd, dst_fd} : fds[f] = old.fds[f]
  BY TwoFacts, Zenon
<1>3. fds' = [[fds EXCEPT ![src_fd] = Closed] EXCEPT ![dst_fd] = Closed]
  BY Zenon DEF Close
<1>4. ASSUME NEW f \in Fds PROVE fds'[f] = old.fds[f]
  BY <1>1, <1>2, <1>3
<1>5. DOMAIN fds' = Fds /\ fds' = [f \in Fds |-> fds'[f]]
  BY <1>1, <1>3, Zenon
<1>6. old.fds = [f \in Fds |-> old.fds[f]]
  BY <1>1, Zenon
<1> QED BY <1>4, <1>5, <1>6, SMTT(30)

LEMMA CopyUndoInv == ASSUME ShellInv, copy_undo PROVE ShellInv'
<1>1. /\ pc = "copy_undo" /\ UNCHANGED keep /\ Done /\ Fail
      /\ fds' = Close(Close(fds, src_fd), dst_fd)
      /\ UnlinkOk(Place[final_dst]) \/ UnlinkFails(Place[final_dst])
  BY Zenon DEF copy_undo
<1>2. pc \in TwoOpen /\ pc # "prompt"
  BY <1>1, Zenon DEF TwoOpen
<1>3. /\ Dst \in Places /\ Place[final_dst] = Dst /\ cmd.op \in {"cp", "mv"}
      /\ DiskOK /\ errors \in Nat /\ unseen \in BOOLEAN
  BY <1>2, CopyFacts
<1>4. DiskOK' /\ OnlyFile(Dst) /\ errors' \in Nat /\ unseen' \in BOOLEAN
  BY <1>1, <1>3, UnlinkIs
<1>5. fds' = old.fds
  BY <1>1, <1>2, BothClosed
<1>6. Named(Dst) /\ (Copying => Dst # Src)
  BY <1>3, Zenon DEF Named, Copying
<1> QED BY <1>1, <1>2, <1>4, <1>5, <1>6, FailInv

\* When the last read found the end of the source, the destination is a copy.
LEMMA CopyMade ==
  ASSUME ShellInv, pc = "copy_close", RealCopy, ~ unseen
  PROVE  Content(Dst) = old.files[Src]
<1>1. Copying /\ old.files[Src] # <<>>
  BY SMTT(30) DEF RealCopy, Copying
<1>2. /\ DiskOK /\ Src \in Places /\ Dst \in Places /\ Exists(Src)
      /\ Content(Src) = old.files[Src] /\ Exists(Dst)
  BY <1>1, CopyFacts, TwoFacts DEF TwoOpen
<1>3. /\ \A i \in 1 .. fds[dst_fd].size : chain[Dst][i] = chain[Src][i]
      /\ fds[dst_fd].size > 0 => size[Dst] = fds[dst_fd].size
      /\ fds[dst_fd].size = size[Src]
  BY <1>1, Zenon DEF ShellInv, CopyOK
<1>4. /\ Content(Src) \in Seq(Int) /\ Len(Content(Src)) = size[Src]
      /\ \A i \in 1 .. size[Src] : Content(Src)[i] = chain[Src][i]
  BY <1>2, ContentIs, ZenonT(30)
<1>5. /\ Content(Dst) \in Seq(Int) /\ Len(Content(Dst)) = size[Dst]
      /\ \A i \in 1 .. size[Dst] : Content(Dst)[i] = chain[Dst][i]
  BY <1>2, ContentIs, Zenon
<1>6. size[Src] > 0
  <2>1. Content(Src) # <<>>
    BY <1>1, <1>2, Zenon
  <2> QED BY <1>4, <2>1
<1>7. size[Dst] = size[Src]
  BY <1>3, <1>6, Zenon
<1>8. Content(Dst) = Content(Src)
  <2> DEFINE s == Content(Src)
             t == Content(Dst)
  <2>1. /\ s \in Seq(Int) /\ t \in Seq(Int) /\ Len(s) = Len(t)
        /\ \A i \in 1 .. Len(s) : s[i] = t[i]
    BY <1>3, <1>4, <1>5, <1>7, Zenon
  <2> HIDE DEF s, t
  <2>2. s = t
    BY <2>1, SeqEqual, Zenon
  <2> QED BY <2>2, Zenon DEF s, t
<1> QED BY <1>2, <1>8

LEMMA CopyCloseInv == ASSUME ShellInv, copy_close PROVE ShellInv'
<1>1. /\ pc = "copy_close" /\ fds' = Close(Close(fds, src_fd), dst_fd)
      /\ IF cmd.op = "mv" THEN Go("mv_unlink") ELSE Done
      /\ UNCHANGED keep /\ UNCHANGED disk /\ UNCHANGED <<errors, unseen, status>>
  BY Zenon DEF copy_close
<1>2. pc \in TwoOpen
  BY <1>1, Zenon DEF TwoOpen
<1>3. fds' = old.fds
  BY <1>1, <1>2, BothClosed, SMTT(30)
<1>4. /\ cmd \in Commands /\ cmd.op \in {"cp", "mv"} /\ cmd.src \in Paths \ Folders
      /\ DiskOK /\ errors \in Nat /\ unseen \in BOOLEAN /\ buffer \in Seq(Int)
      /\ old.fds \in [Fds -> File]
      /\ Copying => Content(Src) = old.files[Src]
  BY <1>2, CopyFacts, Zenon
<1>5. /\ cmd' = cmd /\ old' = old /\ Src' = Src /\ Dst' = Dst /\ (Copying' <=> Copying)
      /\ RealCopy' <=> RealCopy
      /\ RealCopy => Copying
  BY <1>1, Keeps, SMTT(30)
<1>6. /\ DiskOK' /\ OnlyFile("")
      /\ Content(Src)' = Content(Src) /\ Content(Dst)' = Content(Dst)
  BY <1>1, <1>4, <1>5 DEF disk, DiskOK, OnlyFile, Content, Exists
<1>7. OthersOK'
  BY <1>1, <1>6, OthersKept, Zenon DEF ShellInv
<1>8. RealCopy /\ ~ unseen => Content(Dst) = old.files[Src]
  BY <1>1, CopyMade, Zenon
<1>9. EndOK'
  BY <1>1, <1>5, <1>6, <1>8, Zenon DEF EndOK
<1>10. CASE cmd.op # "mv"
  BY <1>1, <1>3, <1>4, <1>6, <1>7, <1>9, <1>10, EndInv, Zenon DEF Done
<1>11. CASE cmd.op = "mv"
  <2>1. pc' = "mv_unlink" /\ UNCHANGED locals
    BY <1>1, <1>11, Zenon DEF Go
  <2>2. TypesOK'
    <3>1. buffer' = buffer /\ errors' = errors /\ unseen' = unseen
      BY <1>1, <2>1, Zenon DEF locals
    <3> QED BY <1>3, <1>4, <1>5, <1>6, <2>1, <3>1, Zenon DEF TypesOK
  <2>3. PointsOK' /\ TableOK'
    BY <1>3, <1>4, <1>5, <1>11, <2>1 DEF PointsOK, TableOK, Ops, OneOpen, TwoOpen
  <2>4. CopyOK'
    <3>1. Copying => Content(Src)' = old'.files[Src']
      BY <1>4, <1>5, <1>6, Zenon
    <3> QED BY <1>5, <2>1, <3>1, Zenon DEF CopyOK, TwoOpen
  <2> QED BY <1>7, <1>9, <2>2, <2>3, <2>4 DEF ShellInv
<1> QED BY <1>10, <1>11, Zenon

LEMMA MvUnlinkInv == ASSUME ShellInv, mv_unlink PROVE ShellInv'
<1>1. /\ pc = "mv_unlink" /\ UNCHANGED keep /\ fds' = fds /\ status' = status
      /\ pc' = "prompt" /\ buffer' = <<>>
      /\ UnlinkOk(Src) \/ UnlinkFails(Src)
  BY Zenon DEF mv_unlink, Done
<1>2. /\ cmd \in Commands /\ cmd.op = "mv" /\ cmd.src \in Paths \ Folders
      /\ fds = old.fds /\ DiskOK /\ errors \in Nat /\ unseen \in BOOLEAN
  BY <1>1, Zenon DEF ShellInv, TypesOK, PointsOK, TableOK, OneOpen, TwoOpen
<1>3. Src \in Places /\ Dst \in Places
  BY <1>2, CommandIs, Zenon
<1>4. DiskOK' /\ OnlyFile(Src) /\ errors' \in Nat /\ unseen' \in BOOLEAN
  BY <1>1, <1>2, <1>3, UnlinkIs
<1>5. OthersOK'
  <2>1. Named(Src)
    BY <1>2, Zenon DEF Named
  <2> QED BY <1>1, <1>4, <2>1, OthersKept DEF ShellInv
<1>6. ~ unseen' => ~ unseen
  BY <1>1, <1>2, Zenon DEF UnlinkOk, UnlinkFails
<1>7. EndOK'
  <2> SUFFICES ASSUME RealCopy, ~ unseen' PROVE Content(Dst)' = old.files[Src]
    BY <1>1, Keeps, SMTT(30) DEF EndOK
  <2>1. Src # Dst /\ Dst' = Dst
    BY <1>1, Keeps, Zenon DEF RealCopy
  <2>2. Content(Dst) = old.files[Src]
    BY <1>1, <1>6, Zenon DEF ShellInv, EndOK
  <2>3. Content(Dst)' = Content(Dst)
    BY <1>3, <1>4, <2>1 DEF OnlyFile, Content, Exists
  <2> QED BY <2>2, <2>3, Zenon
<1> QED BY <1>1, <1>2, <1>4, <1>5, <1>7, EndInv

LEMMA InitInv == ASSUME Init PROVE ShellInv
<1>1. PICK d \in Disks :
        /\ chain = [p \in Places |-> IF p \in DOMAIN d
                                     THEN IF d[p] = <<>> THEN <<0>> ELSE d[p] ELSE <<>>]
        /\ size = [p \in Places |-> IF p \in DOMAIN d THEN Len(d[p]) ELSE 0]
  BY Zenon DEF Init
<1>2. \A p \in DOMAIN d : d[p] \in Seq(Int)
  BY ShellAssumption, Zenon
<1>3. DiskOK
  <2>1. <<0>> \in Seq(Int) /\ Len(<<0>>) = 1 /\ <<>> \in Seq(Int) /\ Len(<<>>) = 0
    OBVIOUS
  <2>2. ASSUME NEW p \in Places
        PROVE  chain[p] \in Seq(Int) /\ size[p] \in Nat /\ size[p] <= Len(chain[p])
    <3>1. CASE p \notin DOMAIN d
      BY <1>1, <2>1, <3>1
    <3>2. CASE p \in DOMAIN d /\ d[p] = <<>>
      BY <1>1, <2>1, <3>2
    <3>3. CASE p \in DOMAIN d /\ d[p] # <<>>
      <4>1. chain[p] = d[p] /\ size[p] = Len(d[p])
        BY <1>1, <3>3, Zenon
      <4> QED BY <1>2, <3>3, <4>1
    <3> QED BY <3>1, <3>2, <3>3
  <2> QED BY <1>1, <2>2, Zenon DEF DiskOK
<1>4. fds \in [Fds -> File]
  <2>1. Closed \in File /\ [Closed EXCEPT !.flags = {"held"}] \in File
    <3>1. ASSUME NEW g \in SUBSET Flags
          PROVE  [at |-> "", size |-> 0, offset |-> 0, flags |-> g] \in File
      BY DEF File
    <3>2. {} \in SUBSET Flags /\ {"held"} \in SUBSET Flags
      BY Zenon DEF Flags
    <3>3. Closed \in File
      BY <3>1, <3>2, Zenon DEF Closed
    <3>4. ASSUME NEW x \in File, NEW g \in SUBSET Flags
          PROVE  [x EXCEPT !.flags = g] \in File
      BY Zenon DEF File
    <3> QED BY <3>2, <3>3, <3>4
  <2>2. PICK held \in {{}, {0}} : fds = [f \in Fds |-> IF f \in held
                                           THEN [Closed EXCEPT !.flags = {"held"}]
                                           ELSE Closed]
    BY Zenon DEF Init
  <2> HIDE DEF Closed
  <2> QED BY <2>1, <2>2, Zenon
<1>5. /\ old.fds = fds /\ \A p \in Places : old.files[p] = Content(p)
      /\ pc = "prompt" /\ cmd = Command("none", "", "", 0) /\ buffer = <<>>
      /\ errors = 0 /\ unseen = FALSE
  BY Zenon DEF Init
<1>6. cmd.op = "none"
  BY <1>5, Zenon DEF Command
<1>7. TypesOK
  <2>1. <<>> \in Seq(Int) /\ 0 \in Nat /\ FALSE \in BOOLEAN
    OBVIOUS
  <2> QED BY <1>3, <1>4, <1>5, <2>1, Zenon DEF TypesOK
<1>8. PointsOK /\ TableOK /\ CopyOK
  BY <1>5, Zenon DEF PointsOK, TableOK, CopyOK, Ops, OneOpen, TwoOpen
<1>9. EndOK /\ OthersOK
  BY <1>5, <1>6, Zenon DEF EndOK, OthersOK, RealCopy
<1> QED BY <1>7, <1>8, <1>9 DEF ShellInv

LEMMA StutterInv == ASSUME ShellInv, UNCHANGED vars PROVE ShellInv'
<1>1. UNCHANGED <<chain, size, fds, pc, cmd, final_dst, src_fd, dst_fd, buffer, errors,
                  unseen, status, old>>
  BY Zenon DEF vars, disk, locals
<1>2. TypesOK' /\ PointsOK'
  BY <1>1, Zenon DEF ShellInv, TypesOK, DiskOK, PointsOK, Dst
<1>3. TableOK'
  BY <1>1, Zenon DEF ShellInv, TableOK, Src, Dst, Exists
<1>4. CopyOK'
  BY <1>1, Zenon DEF ShellInv, CopyOK, Copying, Src, Dst, Content, Exists
<1>5. EndOK' /\ OthersOK'
  BY <1>1, Zenon DEF ShellInv, EndOK, OthersOK, Named, RealCopy, Src, Dst, Content, Exists
<1> QED BY <1>2, <1>3, <1>4, <1>5 DEF ShellInv

LEMMA NextInv == ShellInv /\ [Next]_vars => ShellInv'
BY EnterInv, RefuseInv, OpenInv, CatReadInv, WriteTextInv, CloseInv, RmInv,
   CopyOpenSrcInv, CopyOpenDstInv, CopyReadInv, CopyWriteInv, CopyUndoInv,
   CopyCloseInv, MvUnlinkInv, StutterInv, Zenon DEF Next

LEMMA ShellInvariant == Spec => []ShellInv
BY InitInv, NextInv, PTL DEF Spec

\* Whichever call fails, on whatever disk and however full the descriptor table
\* is: at the prompt the table is what it was when the command was entered.
THEOREM DescriptorsReturned == Spec => []FilesClosed
<1>1. ShellInv => FilesClosed
  BY Zenon DEF ShellInv, TableOK, FilesClosed, OneOpen, TwoOpen
<1> QED BY <1>1, ShellInvariant, PTL

\* A cp or mv between two files that reports nothing, with no error gone
\* unnoticed, has made the destination what the source was, for contents of any
\* length in any number of reads and writes.
THEOREM CopiesAreFaithful == Spec => []CopyIsFaithful
<1>1. ShellInv => CopyIsFaithful
  BY Zenon DEF ShellInv, EndOK, CopyIsFaithful
<1> QED BY <1>1, ShellInvariant, PTL

\* At every step of every command, what a copied file held is in its own place
\* or in the destination's, and a file that the command does not name is as it
\* was.
THEOREM FilesAreKept == Spec => []NothingLost
<1>1. ShellInv => NothingLost
  <2> SUFFICES ASSUME ShellInv PROVE NothingLost
    BY Zenon
  <2>1. ASSUME RealCopy, ~ unseen
        PROVE  old.files[Src] \in {Content(Src), Content(Dst)}
    <3>1. CASE pc = "prompt"
      BY <2>1, <3>1, SMTT(30) DEF ShellInv, EndOK
    <3>2. CASE pc # "prompt"
      <4>1. Copying
        BY <2>1, Zenon DEF RealCopy, Copying
      <4> QED BY <3>2, <4>1 DEF ShellInv, CopyOK
    <3> QED BY <3>1, <3>2
  <2>2. \A p \in Places : \/ Content(p) = old.files[p]
                          \/ cmd.op \in {"touch", "write", "rm", "mv"} /\ p = Src
                          \/ cmd.op \in {"cp", "mv"} /\ p = Dst
    BY Zenon DEF ShellInv, OthersOK, Named
  <2> QED BY <2>1, <2>2, Zenon DEF NothingLost
<1> QED BY <1>1, ShellInvariant, PTL

=============================================================================
