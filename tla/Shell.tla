------------------------------- MODULE Shell -------------------------------
(***************************************************************************)
(* Files and their descriptors (fs/vfs.c), and the shell commands that     *)
(* read, write, copy, move and remove files (kernel/interface/shell.c).    *)
(*                                                                         *)
(* Every vfs_open makes a node of its own, with a copy of the size in the  *)
(* directory entry; what one descriptor writes, another does not see in    *)
(* its size.  A unit of data is a cluster: module Fat32 has what happens   *)
(* inside one.  A file is known by its place in the tree: module Vfs has   *)
(* path resolution.                                                        *)
(***************************************************************************)
EXTENDS Integers, Sequences, FiniteSets, FiniteSetsExt

CONSTANTS
  Paths,          \* what the user types for files
  Place,          \* function: the place in the tree that a path denotes
  Folders,        \* what the user types for directories
  Join,           \* function: folder, then path, to folder/basename
  Protected,      \* places outside /home/user
  Clusters,       \* clusters on the disk
  Buffer,         \* clusters that copy_file reads at a time
  Fds,            \* the descriptor table
  MaxErrors,      \* failures of the disk or of malloc in a behaviour
  Disks,          \* the files the disk may start with
  Commands        \* what the user types

Places == {Place[p] : p \in Paths}

ASSUME ShellAssumption ==
  /\ Clusters \in Nat /\ Buffer \in Nat \ {0} /\ MaxErrors \in Nat
  /\ IsFiniteSet(Paths) /\ "" \notin Places /\ Protected \subseteq Places
  /\ \A f \in Folders, p \in Paths : Join[f][p] \in Paths
  /\ \A d \in Disks : /\ DOMAIN d \subseteq Places
                      /\ \A p \in DOMAIN d : d[p] \in Seq(Int)
  /\ \A c \in Commands :
       /\ c.op \in {"cat", "touch", "write", "rm", "cp", "mv"}
       /\ c.src \in Paths \union Folders /\ c.text \in Int
       /\ c.op \in {"cp", "mv"} => c.dst \in Paths \union Folders

VARIABLES
  chain,          \* the data in each file's clusters, <<>> for no file
  size,           \* the size in each file's directory entry
  fds,            \* fd_table
  pc, cmd,        \* the command, and the point it has reached
  final_dst, src_fd, dst_fd, buffer,   \* copy_file's variables
  errors,         \* failures so far
  unseen,         \* the code went on as if a disk error had not happened
  status,         \* what the last command reported
  old             \* files and descriptors when the command began

disk == <<chain, size>>
locals == <<final_dst, src_fd, dst_fd, buffer>>
vars == <<disk, fds, pc, cmd, locals, errors, unseen, status, old>>

Closed == [at |-> "", size |-> 0, offset |-> 0, flags |-> {}]
NoFd == -1
Command(op, src, dst, text) ==
  [op |-> op, src |-> src, dst |-> dst, text |-> text]

Exists(p) == chain[p] # <<>>
None == <<0>>     \* the contents of a place without a file
Content(p) == IF Exists(p) THEN SubSeq(chain[p], 1, size[p]) ELSE None

\* A program that ended without closing its file leaves a descriptor behind.
Init ==
  /\ \E d \in Disks :
       /\ chain = [p \in Places |->
                     IF p \in DOMAIN d
                     THEN IF d[p] = <<>> THEN <<0>> ELSE d[p] ELSE <<>>]
       /\ size = [p \in Places |-> IF p \in DOMAIN d THEN Len(d[p]) ELSE 0]
  /\ \E held \in {{}, {0}} :
       fds = [f \in Fds |-> IF f \in held
                            THEN [Closed EXCEPT !.flags = {"held"}]
                            ELSE Closed]
  /\ pc = "prompt" /\ cmd = Command("none", "", "", 0)
  /\ final_dst = "" /\ src_fd = NoFd /\ dst_fd = NoFd /\ buffer = <<>>
  /\ errors = 0 /\ unseen = FALSE /\ status = "ok"
  /\ old = [fds |-> fds, files |-> [p \in Places |-> Content(p)]]

-----------------------------------------------------------------------------
(* The calls on files.                                                     *)

\* Clusters in use: every chain has its own.
Used == Cardinality(UNION {{p} \X DOMAIN chain[p] : p \in Places})
Error == errors < MaxErrors /\ errors' = errors + 1
NoError == UNCHANGED errors

Writing(flags) == flags \intersect {"WRONLY", "CREAT", "TRUNC", "APPEND"} # {}
FreeFds == {f \in Fds : fds[f] = Closed}

\* fat32_create: a new file has one cluster.
Created(p) == /\ chain' = [chain EXCEPT ![p] = <<0>>]
              /\ UNCHANGED size

\* vfs_open creates the file first if it has to and may.
Creates(p, flags) == /\ ~ Exists(p) /\ "CREAT" \in flags
                     /\ p \notin Protected /\ Used < Clusters

\* Faulty: O_TRUNC is ignored.
OpenOk_NoTrunc(path, flags, fd) ==
  LET p == Place[path]
  IN  /\ Creates(p, flags) \/ (Exists(p) /\ ~ (Writing(flags)
                                               /\ p \in Protected))
      /\ fd \in FreeFds /\ \A f \in FreeFds : fd <= f
      /\ fds' = [fds EXCEPT ![fd] = [at |-> p, size |-> size[p],
                                     offset |-> 0, flags |-> flags]]
      /\ IF Exists(p) THEN UNCHANGED disk ELSE Created(p)
      /\ NoError

OpenOk(path, flags, fd) ==
  LET p == Place[path]
  IN  /\ Creates(p, flags) \/ (Exists(p) /\ ~ (Writing(flags)
                                               /\ p \in Protected))
      /\ fd \in FreeFds /\ \A f \in FreeFds : fd <= f
      /\ fds' = [fds EXCEPT ![fd] =
                   [at |-> p, size |-> IF "TRUNC" \in flags THEN 0 ELSE size[p],
                    offset |-> 0, flags |-> flags]]
      /\ IF Exists(p) THEN UNCHANGED disk ELSE Created(p)
      /\ NoError

\* Nothing there, not allowed, no room for a file, no descriptor, or a
\* failure; in the last two cases the file may have been created.
OpenFails(path, flags) ==
  LET p == Place[path]
      refused == \/ ~ Exists(p) /\ ~ Creates(p, flags)
                 \/ Exists(p) /\ Writing(flags) /\ p \in Protected
  IN  /\ \/ refused /\ NoError /\ UNCHANGED disk
         \/ Error /\ UNCHANGED disk
         \/ /\ ~ refused
            /\ (FreeFds = {} /\ NoError) \/ Error
            /\ IF Exists(p) THEN UNCHANGED disk ELSE Created(p)
      /\ UNCHANGED fds

\* vfs_close; closing nothing is an error that nobody looks at.
Close(table, fd) == [table EXCEPT ![fd] = Closed]

\* vfs_read and fat32_read: up to the size in the descriptor's own node.
DataAt(file, count) ==
  SubSeq(chain[file.at], file.offset + 1,
         Min({file.offset + count, file.size}))

\* Faulty: the offset is not moved.
vfs_read_Again(fd, count) ==
  /\ buffer' = DataAt(fds[fd], count)
  /\ UNCHANGED <<fds, errors>>

\* An error after some clusters is a short read.
vfs_read(fd, count) ==
  LET got(n) == SubSeq(DataAt(fds[fd], count), 1, n)
      full == Len(DataAt(fds[fd], count))
  IN  \E n \in 0 .. full :
        /\ buffer' = got(n)
        /\ fds' = [fds EXCEPT ![fd].offset = @ + n]
        /\ IF n = full THEN NoError ELSE Error

\* vfs_write and fat32_write.  n clusters are written; the chain reaches to
\* m, past n where a cluster was added and then not written.
Overwrite(data, at, vals, n, m) ==
  [i \in 1 .. Max({Len(data), at + m}) |->
     IF i \in at + 1 .. at + n THEN vals[i - at]
     ELSE IF i <= Len(data) THEN data[i] ELSE 0]

WriteAt(fd) == IF "APPEND" \in fds[fd].flags THEN fds[fd].size
               ELSE fds[fd].offset
Room(fd) == Len(chain[fds[fd].at]) - WriteAt(fd) + Clusters - Used

\* Up to the end of the data or of the disk, and the directory entry, whose
\* update may fail without a word.
WriteEnds(fd, vals) ==
  LET p == fds[fd].at
      n == Min({Len(vals), Room(fd)})
      end == Max({fds[fd].size, WriteAt(fd) + n})
  IN  /\ chain' = [chain EXCEPT ![p] = Overwrite(@, WriteAt(fd), vals, n, n)]
      /\ fds' = [fds EXCEPT ![fd].size = end, ![fd].offset = WriteAt(fd) + n]
      /\ \/ NoError /\ size' = [size EXCEPT ![p] = end] /\ UNCHANGED unseen
         \/ Error /\ unseen' = TRUE /\ UNCHANGED size

\* Stopped by an error after n clusters, in one the file had or got.
WriteStops(fd, vals) ==
  /\ Error
  /\ \E n \in 0 .. Min({Len(vals), Room(fd)}) - 1 :
       /\ chain' = [chain EXCEPT ![fds[fd].at] =
                      Overwrite(@, WriteAt(fd), vals, n, n + 1)]
       /\ fds' = [fds EXCEPT ![fd].offset = WriteAt(fd) + n]
  /\ UNCHANGED <<size, unseen>>

\* vfs_unlink and fat32_unlink.  Where the disk fails the entry stays, with
\* its clusters freed or not.
UnlinkOk(p) ==
  /\ Exists(p) /\ p \notin Protected
  /\ chain' = [chain EXCEPT ![p] = <<>>]
  /\ size' = [size EXCEPT ![p] = 0]
  /\ UNCHANGED <<errors, unseen>>

UnlinkFails(p) ==
  /\ UNCHANGED disk
  /\ \/ (~ Exists(p) \/ p \in Protected) /\ UNCHANGED <<errors, unseen>>
     \/ Exists(p) /\ p \notin Protected /\ Error /\ unseen' \in {unseen, TRUE}

-----------------------------------------------------------------------------
(* The commands, a call at a time.                                         *)

Src == Place[cmd.src]
keep == <<cmd, old>>

\* Back to the prompt.
Done == /\ pc' = "prompt"
        /\ final_dst' = "" /\ src_fd' = NoFd /\ dst_fd' = NoFd
        /\ buffer' = <<>>
Fail == status' = "failed"
Go(point) == pc' = point /\ UNCHANGED locals
Still == UNCHANGED <<disk, fds, errors, unseen>>

\* The line is read.
enter(c) ==
  /\ pc = "prompt"
  /\ cmd' = c
  /\ old' = [fds |-> fds, files |-> [p \in Places |-> Content(p)]]
  /\ unseen' = FALSE /\ status' = "ok"
  /\ Go(c.op)
  /\ UNCHANGED <<disk, fds, errors>>

IsFile(path) == path \notin Folders /\ Exists(Place[path])

\* Every command but touch wants a file that is there; touch leaves one
\* alone, and a directory too.
refuse ==
  /\ \/ /\ pc \in {"cat", "write", "rm", "cp", "mv"}
        /\ ~ IsFile(cmd.src)
     \/ /\ pc = "touch"
        /\ cmd.src \in Folders \/ IsFile(cmd.src)
  /\ Done /\ Fail
  /\ UNCHANGED keep /\ Still

OpenFlags ==
  CASE pc = "cat" -> {}
    [] pc = "touch" -> {"CREAT", "WRONLY"}
    [] pc = "write" -> {"WRONLY", "APPEND"}

\* cat, touch and write open the file ...
open ==
  /\ \/ pc \in {"cat", "write"} /\ IsFile(cmd.src)
     \/ pc = "touch" /\ cmd.src \notin Folders /\ ~ IsFile(cmd.src)
  /\ \/ \E fd \in Fds :
          /\ OpenOk(cmd.src, OpenFlags, fd)
          /\ src_fd' = fd
          /\ pc' = CASE pc = "cat" -> "cat_read"
                     [] pc = "touch" -> "close"
                     [] pc = "write" -> "write_text"
          /\ UNCHANGED <<status, final_dst, dst_fd, buffer>>
     \/ OpenFails(cmd.src, OpenFlags) /\ Done /\ Fail
  /\ UNCHANGED <<keep, unseen>>

\* ... cat reads to the end of it ...
cat_read ==
  /\ pc = "cat_read"
  /\ vfs_read(src_fd, Buffer)
  /\ pc' = IF buffer' = <<>> THEN "close" ELSE "cat_read"
  /\ UNCHANGED <<keep, disk, final_dst, src_fd, dst_fd, unseen, status>>

\* ... write adds the text ...
write_text ==
  /\ pc = "write_text"
  /\ \/ /\ WriteEnds(src_fd, <<cmd.text>>)
        /\ IF Room(src_fd) > 0 THEN UNCHANGED status ELSE Fail
     \/ WriteStops(src_fd, <<cmd.text>>) /\ Fail
  /\ Go("close")
  /\ UNCHANGED keep

\* ... and all three close it.
close ==
  /\ pc = "close"
  /\ fds' = Close(fds, src_fd)
  /\ Done
  /\ UNCHANGED <<keep, disk, errors, unseen, status>>

rm ==
  /\ pc = "rm" /\ IsFile(cmd.src)
  /\ \/ UnlinkOk(Src) /\ UNCHANGED status
     \/ UnlinkFails(Src) /\ Fail
  /\ Done
  /\ UNCHANGED <<keep, fds>>

\* copy_file: into a directory under the source's own name.
copy_open_src ==
  /\ pc \in {"cp", "mv"} /\ IsFile(cmd.src)
  /\ \/ \E fd \in Fds :
          /\ OpenOk(cmd.src, {}, fd)
          /\ src_fd' = fd
          /\ final_dst' = IF cmd.dst \in Folders
                          THEN Join[cmd.dst][cmd.src] ELSE cmd.dst
          /\ pc' = "copy_open_dst"
          /\ UNCHANGED <<dst_fd, buffer, status>>
     \/ OpenFails(cmd.src, {}) /\ Done /\ Fail
  /\ UNCHANGED <<keep, unseen>>

\* Faulty: the source stays open when the destination cannot be.
copy_open_dst_KeepsSource ==
  /\ pc = "copy_open_dst"
  /\ \/ \E fd \in Fds :
          /\ OpenOk(final_dst, {"CREAT", "WRONLY", "TRUNC"}, fd)
          /\ dst_fd' = fd
          /\ pc' = "copy_read"
          /\ UNCHANGED <<final_dst, src_fd, buffer, status>>
     \/ OpenFails(final_dst, {"CREAT", "WRONLY", "TRUNC"}) /\ Done /\ Fail
  /\ UNCHANGED <<keep, unseen>>

copy_open_dst ==
  /\ pc = "copy_open_dst"
  /\ \/ \E fd \in Fds :
          /\ OpenOk(final_dst, {"CREAT", "WRONLY", "TRUNC"}, fd)
          /\ dst_fd' = fd
          /\ pc' = "copy_read"
          /\ UNCHANGED <<final_dst, src_fd, buffer, status>>
     \/ /\ OpenFails(final_dst, {"CREAT", "WRONLY", "TRUNC"})
        /\ Go("close") /\ Fail
  /\ UNCHANGED <<keep, unseen>>

\* A read that fails ends the loop as the end of the file does.
copy_read ==
  /\ pc = "copy_read"
  /\ vfs_read(src_fd, Buffer)
  /\ pc' = IF buffer' = <<>> THEN "copy_close" ELSE "copy_write"
  /\ unseen' = (unseen \/ (buffer' = <<>> /\ errors' # errors))
  /\ UNCHANGED <<keep, disk, final_dst, src_fd, dst_fd, status>>

copy_write ==
  /\ pc = "copy_write"
  /\ \/ /\ WriteEnds(dst_fd, buffer)
        /\ Go(IF Room(dst_fd) >= Len(buffer) THEN "copy_read" ELSE "copy_undo")
     \/ WriteStops(dst_fd, buffer) /\ Go("copy_undo")
  /\ UNCHANGED <<keep, status>>

\* Faulty: cmd_mv goes on whatever copy_file returns.
copy_undo_Moves ==
  /\ pc = "copy_undo"
  /\ fds' = Close(Close(fds, src_fd), dst_fd)
  /\ UnlinkOk(Place[final_dst]) \/ UnlinkFails(Place[final_dst])
  /\ Fail
  /\ IF cmd.op = "mv" THEN Go("mv_unlink") ELSE Done
  /\ UNCHANGED keep

copy_undo ==
  /\ pc = "copy_undo"
  /\ fds' = Close(Close(fds, src_fd), dst_fd)
  /\ UnlinkOk(Place[final_dst]) \/ UnlinkFails(Place[final_dst])
  /\ Done /\ Fail
  /\ UNCHANGED keep

copy_close ==
  /\ pc = "copy_close"
  /\ fds' = Close(Close(fds, src_fd), dst_fd)
  /\ IF cmd.op = "mv" THEN Go("mv_unlink") ELSE Done
  /\ UNCHANGED <<keep, disk, errors, unseen, status>>

\* cmd_mv does not look at what vfs_unlink returns.
mv_unlink ==
  /\ pc = "mv_unlink"
  /\ UnlinkOk(Src) \/ UnlinkFails(Src)
  /\ Done
  /\ UNCHANGED <<keep, fds, status>>

Next ==
  \/ \E c \in Commands : enter(c)
  \/ refuse \/ open \/ cat_read \/ write_text \/ close \/ rm
  \/ copy_open_src \/ copy_open_dst \/ copy_read \/ copy_write
  \/ copy_undo \/ copy_close \/ mv_unlink

Spec == Init /\ [][Next]_vars

\* The mainline goes on with a command; the user need not type.
FairSpec == Spec /\ WF_vars(pc # "prompt" /\ Next)

-----------------------------------------------------------------------------
(* Properties.                                                             *)

Dst == IF cmd.dst \in Folders THEN Place[Join[cmd.dst][cmd.src]]
       ELSE Place[cmd.dst]
\* A copy of a file with something in it to another file.
RealCopy == /\ cmd.op \in {"cp", "mv"} /\ cmd.src \notin Folders
            /\ Src # Dst
            /\ old.files[Src] \notin {None, <<>>}

\* A command leaves the descriptor table as it found it, whichever call
\* failed: also when the table is too full for the second file of a copy.
FilesClosed == pc = "prompt" => fds = old.fds

\* Where cp and mv report nothing, the destination holds what the source
\* held, whatever it held before.  Not so when a read failed, which ends the
\* loop like the end of the file, or the size could not be written.  An empty
\* source is excepted: it leaves the old contents, O_TRUNC having changed
\* only the node in memory.
CopyIsFaithful ==
  RealCopy /\ status = "ok" /\ ~ unseen /\ pc \in {"prompt", "mv_unlink"} =>
    Content(Dst) = old.files[Src]

\* At every point of a cp or mv, so also if the machine stops there, what the
\* source held is in the source's place or complete in the destination's,
\* unless the two are one file or an error went unnoticed.  A command changes
\* no file that it does not name, and cp not its source.
NothingLost ==
  /\ RealCopy /\ ~ unseen => old.files[Src] \in {Content(Src), Content(Dst)}
  /\ \A p \in Places :
       \/ Content(p) = old.files[p]
       \/ cmd.op \in {"touch", "write", "rm", "mv"} /\ p = Src
       \/ cmd.op \in {"cp", "mv"} /\ p = Dst

\* Every command comes back to the prompt: a copy of a file to itself too,
\* the source's node keeping the size it had.
CommandsReturn == pc # "prompt" ~> pc = "prompt"
============================================================================
