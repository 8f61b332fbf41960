-------------------------------- MODULE Vfs --------------------------------
(***************************************************************************)
(* Names and nodes: the virtual file system (fs/vfs.c) with its callers,   *)
(* the boot sequence (kernel/kernel.c), the shell and the system calls.    *)
(* The file system below it is the abstract tree of module Directory,      *)
(* which module Fat32 implements.                                          *)
(*                                                                         *)
(* A node is an in-memory copy of a directory entry.  Every lookup mallocs *)
(* one; resolution frees the ones it passed through although the next one  *)
(* points to them as its parent.  Freed memory keeps its contents until a  *)
(* malloc may have taken it; what a later read returns is then the old     *)
(* contents or anything, which ends the behaviour in "wild".               *)
(***************************************************************************)
EXTENDS Naturals, Sequences, FiniteSets, Functions

CONSTANTS
  Ids,            \* names for nodes in memory: a bound, see walk_down
  HeapNodes,      \* the nodes the heap has room for
  Fds,            \* the descriptor table: 0 .. VFS_MAX_OPEN_FILES - 1
  Inodes, Names,  \* of the tree
  Disks,          \* the trees the disk may hold when the machine starts
  BootDirs,       \* the directories create_directory_structure asks for
  Calls           \* the calls that the shell and programs make

\* What a disk holds: every entry is in the root, which is inode 0, or in a
\* directory of the disk, and no two entries have one inode.
IsTree(t) ==
  /\ t \subseteq [dir : Inodes, name : Names, kind : {"dir", "file"},
                 ino : Inodes \ {0}]
  /\ \A e \in t : e.dir = 0 \/ \E f \in t : f.ino = e.dir /\ f.kind = "dir"
  /\ \A e, f \in t : e.ino = f.ino => e = f
\* No directory holds two entries of one name.
Distinct(t) == \A e, f \in t : e.dir = f.dir /\ e.name = f.name => e = f

ASSUME VfsAssumption ==
  /\ HeapNodes \in Nat \ {0}
  /\ 1 \in Ids /\ Ids \subseteq Nat \ {0}
  /\ IsFiniteSet(Fds)
  /\ \A disk \in Disks : IsTree(disk) /\ Distinct(disk)
  /\ {"home", "user"} \subseteq Names /\ {".", ".."} \intersect Names = {}
  /\ \A k \in 1 .. Len(BootDirs) : BootDirs[k].names \in Seq(Names)
  /\ \A c \in Calls : /\ c.op \in {"open", "close", "stat", "mkdir", "rmdir",
                                 "unlink", "cd", "pwd", "look"}
                      /\ c.path.names \in Seq(Names \union {".", ".."})
                      /\ c.fd \in Fds

VARIABLES
  tree,           \* the directory entries on the disk
  mem,            \* the node structures, Nil where there is none
  live,           \* the ones that are allocated
  stale,          \* the freed ones that a malloc may have taken since
  gone,           \* the ones whose inode was removed from the tree
  leaked,         \* allocated nodes that nothing points to any more
  cwd,            \* current_working_dir, 0 before a file system is mounted
  fds,            \* fd_table
  files,          \* vfs_file structures allocated
  made,           \* directories of BootDirs dealt with
  init_complete,  \* vfs_system_init_complete
  short,          \* a lookup has found no memory for its node
  pc, call, walk, \* the mainline: where it is, the call it makes, and its
                  \* path resolution
  ret,            \* what the call returns
  wild            \* memory or a cluster was read after it was given back

memory == <<mem, live, stale, gone, leaked, short>>
table == <<fds, files>>
boot == <<init_complete, made>>
vars == <<tree, memory, cwd, table, boot, pc, call, walk, ret, wild>>

RootIno == 0
RootId == 1
Nil == [name |-> "", kind |-> "none", ino |-> 0, parent |-> 0]
Closed == [node |-> 0, flags |-> {}, refcount |-> 0]

Dir == INSTANCE Directory WITH Root <- RootIno, Kinds <- {"dir", "file"}

\* A path is absolute or not, and a sequence of names, "." and "..".
Path(abs, names) == [abs |-> abs, names |-> names]
Home == Path(TRUE, <<"home", "user">>)

Call(op, path, flags, fd) ==
  [op |-> op, path |-> path, flags |-> flags, fd |-> fd]
NoCall == Call("none", Path(TRUE, <<>>), {}, 0)
NoWalk == [then |-> "none", path |-> Path(TRUE, <<>>), at |-> 1, from |-> 0,
           cur |-> 0, owned |-> FALSE, nomem |-> FALSE, before |-> {}]

Init ==
  /\ tree \in Disks
  /\ mem = [i \in Ids |-> IF i = RootId
                          THEN [Nil EXCEPT !.name = "/", !.kind = "dir"]
                          ELSE Nil]
  /\ live = {RootId} /\ stale = {} /\ gone = {} /\ leaked = 0
  /\ cwd = 0
  /\ fds = [f \in Fds |-> Closed] /\ files = 0
  /\ init_complete = FALSE /\ made = 0
  /\ short = FALSE
  /\ pc = "mount" /\ call = NoCall /\ walk = NoWalk
  /\ ret = "none" /\ wild = FALSE

-----------------------------------------------------------------------------
(* Memory.                                                                 *)

Known == {i \in Ids : mem[i] # Nil}
Freed == Known \ live

\* malloc finds no room for a node.
Full == Cardinality(live) + leaked >= HeapNodes

\* Whatever had been freed may now be overwritten.
Malloc == stale' = Freed

NewId == CHOOSE i \in Ids \ Known : \A j \in Ids \ Known : i <= j

\* The step reads some nodes, of which a stale one may hold anything, and
\* uses others after a malloc of its own, with the clusters they stand for.
Touches(read, used) ==
  wild' \in IF read \intersect stale = {} /\ used \subseteq live \ gone
            THEN {FALSE} ELSE BOOLEAN
Reads(nodes) == Touches(nodes, {})

\* The node, its parent, and so on to the root.
Lineage[n \in Ids] ==
  IF mem[n].parent = 0 THEN <<n>> ELSE <<n>> \o Lineage[mem[n].parent]

Referenced ==
  UNION {Range(Lineage[n]) :
           n \in ({RootId, cwd} \union {fds[f].node : f \in Fds}) \ {0}}

-----------------------------------------------------------------------------
(* Path resolution, a token at a time.                                     *)

Return(r) == pc' = "return" /\ ret' = r

\* vfs_resolve_path: from the mount's root or from the working directory.
vfs_resolve_path(path, then) ==
  LET from == IF path.abs THEN RootId ELSE cwd
  IN  /\ pc' = IF cwd = 0 THEN then ELSE "walk"
      /\ walk' = [then |-> then, path |-> path, at |-> 1,
                  from |-> from, cur |-> IF cwd = 0 THEN 0 ELSE from,
                  owned |-> FALSE, nomem |-> FALSE, before |-> live]

More == pc = "walk" /\ walk.at <= Len(walk.path.names)
Token == walk.path.names[walk.at]
Owned == IF walk.owned THEN {walk.cur} ELSE {}

calling == <<tree, cwd, table, boot, call, ret, gone, leaked>>

walk_end ==
  /\ pc = "walk" /\ ~ More
  /\ pc' = walk.then
  /\ UNCHANGED <<calling, mem, live, stale, short, walk, wild>>

walk_here ==
  /\ More /\ Token = "."
  /\ walk' = [walk EXCEPT !.at = @ + 1]
  /\ UNCHANGED <<calling, mem, live, stale, short, pc, wild>>

\* Faulty: the node before ".." is kept.
walk_up_Stays ==
  /\ More /\ Token = ".."
  /\ Reads({walk.cur})
  /\ walk' = [walk EXCEPT !.at = @ + 1]
  /\ UNCHANGED <<calling, mem, live, stale, short, pc>>

\* Faulty: the parent is treated as a node this walk allocated.
walk_up_Owned ==
  LET p == mem[walk.cur].parent
  IN  /\ More /\ Token = ".."
      /\ Reads({walk.cur})
      /\ live' = IF p # 0 THEN live \ Owned ELSE live
      /\ walk' = [walk EXCEPT !.at = @ + 1, !.cur = IF p # 0 THEN p ELSE @]
      /\ UNCHANGED <<calling, mem, stale, short, pc>>

\* The parent is read from the node just freed: nothing was allocated since.
walk_up ==
  LET p == mem[walk.cur].parent
  IN  /\ More /\ Token = ".."
      /\ Reads({walk.cur})
      /\ IF p # 0
         THEN /\ live' = live \ Owned
              /\ walk' = [walk EXCEPT !.at = @ + 1, !.cur = p,
                                      !.owned = FALSE]
         ELSE /\ walk' = [walk EXCEPT !.at = @ + 1]
              /\ UNCHANGED live
      /\ UNCHANGED <<calling, mem, stale, short, pc>>

Into == More /\ Token \notin {".", ".."}
\* Faulty: directories are skipped as volume labels are.
Matches_FilesOnly(n, name) ==
  {e \in tree : e.dir = mem[n].ino /\ e.name = name /\ e.kind = "file"}

Matches(n, name) == {e \in tree : e.dir = mem[n].ino /\ e.name = name}

\* NULL: what the walk holds is freed.
WalkFails(nomem) ==
  /\ live' = live \ Owned
  /\ walk' = [walk EXCEPT !.cur = 0, !.owned = FALSE, !.nomem = nomem]
  /\ pc' = walk.then

walk_not_directory ==
  /\ Into /\ mem[walk.cur].kind # "dir"
  /\ Reads({walk.cur})
  /\ WalkFails(FALSE)
  /\ UNCHANGED <<calling, mem, stale, short>>

\* fat32_lookup finds no such entry, or has no memory for the node.
walk_missing ==
  /\ Into /\ mem[walk.cur].kind = "dir"
  /\ Matches(walk.cur, Token) = {} \/ Full
  /\ short' = (short \/ Matches(walk.cur, Token) # {})
  /\ Touches({}, {walk.cur})
  /\ Malloc
  /\ WalkFails(Matches(walk.cur, Token) # {})
  /\ UNCHANGED <<calling, mem>>

\* Faulty: the parent is the node the walk began with.
walk_down_FromStart ==
  /\ Into /\ mem[walk.cur].kind = "dir" /\ ~ Full
  /\ Touches({}, {walk.cur})
  /\ \E e \in Matches(walk.cur, Token) :
       /\ mem' = [mem EXCEPT ![NewId] =
                    [name |-> e.name, kind |-> e.kind, ino |-> e.ino,
                     parent |-> walk.from]]
       /\ live' = (live \ Owned) \union {NewId}
       /\ walk' = [walk EXCEPT !.at = @ + 1, !.cur = NewId, !.owned = TRUE]
  /\ Malloc
  /\ UNCHANGED <<calling, short, pc>>

walk_down ==
  /\ Into /\ mem[walk.cur].kind = "dir" /\ ~ Full
  /\ Known # Ids
  /\ Touches({}, {walk.cur})
  /\ \E e \in Matches(walk.cur, Token) :
       /\ mem' = [mem EXCEPT ![NewId] =
                    [name |-> e.name, kind |-> e.kind, ino |-> e.ino,
                     parent |-> walk.cur]]
       /\ live' = (live \ Owned) \union {NewId}
       /\ walk' = [walk EXCEPT !.at = @ + 1, !.cur = NewId, !.owned = TRUE]
  /\ Malloc
  /\ UNCHANGED <<calling, short, pc>>

-----------------------------------------------------------------------------
(* Permissions.  FAT32 gives every node owner write permission.            *)

\* Faulty: anything from /home down.
IsHomeUser_Home(l) == \E j \in DOMAIN l : mem[l[j]].name = "home"

\* Walking up, a directory named user and above it one named home.
IsHomeUser(l) ==
  \E j \in DOMAIN l : \E i \in 1 .. j - 1 :
    mem[l[i]].name = "user" /\ mem[l[j]].name = "home"

is_path_writable(n) == ~ init_complete \/ IsHomeUser(Lineage[n])

\* The nodes is_path_writable reads: it stops at that home.
ReadByWritable(n) ==
  IF ~ init_complete THEN {}
  ELSE {Lineage[n][j] : j \in {k \in DOMAIN Lineage[n] :
                                 ~ IsHomeUser(SubSeq(Lineage[n], 1, k - 1))}}

Writing == {"WRONLY", "RDWR", "CREAT", "TRUNC", "APPEND"}

vfs_check_permission(n, flags) ==
  flags \intersect Writing # {} => is_path_writable(n)

-----------------------------------------------------------------------------
(* What the calls do with the node they resolved.                          *)

Node == walk.cur
IsDir(n) == n # 0 /\ mem[n].kind = "dir"

\* strrchr(path, '/'): the directory part and the name.
DirPart(p) == Path(p.abs, SubSeq(p.names, 1, Len(p.names) - 1))
NamePart(p) == p.names[Len(p.names)]

\* free(node->fs_data), free(node): a second free of a free block does
\* nothing.
Free(n) == live' = live \ {n} /\ Reads({n})

\* Inode numbers are cluster numbers, and the first free cluster is taken.
Unused == Inodes \ ({RootIno} \union {e.ino : e \in tree})

\* iops->create and iops->mkdir, by fat32_create: it makes sure that there is
\* no such name, which a lookup without memory also reports, and may fail for
\* the disk.  In a directory that was removed it writes to a free cluster.
FsCreate(d, name, kind, then) ==
  /\ Malloc
  /\ short' = (short \/ (Full /\ Matches(d, name) # {}))
  /\ \/ /\ Return("fail")
        /\ UNCHANGED <<tree, walk>>
     \/ /\ Matches(d, name) = {} \/ Full
        /\ \E i \in Unused :
             /\ \A j \in Unused : i <= j
             /\ Dir!Add([dir |-> mem[d].ino, name |-> name, kind |-> kind,
                         ino |-> i])
        /\ then
  /\ UNCHANGED <<mem, live, gone>>

CreatesIn(d) ==
  IF d \in gone THEN wild' = TRUE ELSE Touches(ReadByWritable(d), {d})

\* iops->rmdir and iops->unlink: the entry of this name and kind.
FsRemove(d, name, kind) ==
  /\ Malloc
  /\ \/ /\ Return("fail")
        /\ UNCHANGED <<tree, gone>>
     \/ /\ Return("ok")
        /\ \E e \in Matches(d, name) :
             /\ e.kind = kind
             /\ Dir!Remove(e)
             /\ gone' = gone \union {i \in Known : mem[i].ino = e.ino}
  /\ UNCHANGED <<mem, live, short, walk>>

At(point) == pc = point /\ pc # "walk"
others == <<cwd, table, boot, call, leaked>>

\* vfs_open: a path that is not there, to be created.
open_missing ==
  /\ At("open") /\ Node = 0
  /\ IF "CREAT" \in call.flags
     THEN /\ vfs_resolve_path(DirPart(call.path), "open_dir")
          /\ UNCHANGED ret
     ELSE Return("ENOENT") /\ UNCHANGED walk
  /\ UNCHANGED <<others, tree, mem, live, stale, gone, short, wild>>

open_dir ==
  /\ At("open_dir")
  /\ \/ /\ ~ IsDir(Node)
        /\ Return("fail")
        /\ Reads({Node})
        /\ UNCHANGED <<tree, mem, live, stale, gone, short, walk>>
     \/ /\ IsDir(Node) /\ ~ vfs_check_permission(Node, {"WRONLY"})
        /\ Return("EACCES")
        /\ Reads(ReadByWritable(Node))
        /\ UNCHANGED <<tree, mem, live, stale, gone, short, walk>>
     \/ /\ IsDir(Node) /\ vfs_check_permission(Node, {"WRONLY"})
        /\ CreatesIn(Node)
        /\ FsCreate(Node, NamePart(call.path), "file",
                    /\ vfs_resolve_path(call.path, "open_again")
                    /\ UNCHANGED ret)
  /\ UNCHANGED others

\* vfs_open: the checks on the node, and the descriptor.
open_node ==
  /\ At("open") \/ At("open_again")
  /\ Node # 0
  /\ LET dir_refused == IsDir(Node) /\ "DIRECTORY" \notin call.flags
         allowed == vfs_check_permission(Node, call.flags)
         free_fds == {f \in Fds : fds[f] = Closed}
     IN  \/ /\ dir_refused
            /\ Return("fail")
            /\ Reads({Node})
            /\ UNCHANGED <<table, stale>>
         \/ /\ ~ dir_refused /\ ~ allowed
            /\ Return("EACCES")
            /\ Reads(ReadByWritable(Node))
            /\ UNCHANGED <<table, stale>>
         \/ /\ ~ dir_refused /\ allowed
            /\ Malloc
            /\ Touches({Node} \union IF call.flags \intersect Writing # {}
                                     THEN ReadByWritable(Node) ELSE {},
                       {Node} \ gone)
            /\ \/ /\ Full \/ free_fds = {}
                  /\ Return("fail")
                  /\ UNCHANGED table
               \/ \E fd \in free_fds :
                    /\ \A f \in free_fds : fd <= f
                    /\ fds' = [fds EXCEPT ![fd] =
                                 [node |-> Node, flags |-> call.flags,
                                  refcount |-> 1]]
                    /\ files' = files + 1
                    /\ Return("ok")
  /\ UNCHANGED <<tree, cwd, boot, mem, live, gone, leaked, short, call, walk>>

open_vanished ==
  /\ At("open_again") /\ Node = 0
  /\ Return("fail")
  /\ UNCHANGED <<others, tree, memory, walk, wild>>

\* vfs_close and vfs_free_fd.
close ==
  /\ At("close")
  /\ LET file == fds[call.fd]
     IN  IF file = Closed
         THEN Return("fail") /\ UNCHANGED <<table, wild>>
         ELSE /\ Return("ok")
              /\ Reads({file.node})
              /\ fds' = [fds EXCEPT ![call.fd] = Closed]
              /\ files' = IF file.refcount = 1 THEN files - 1 ELSE files
  /\ UNCHANGED <<tree, memory, cwd, boot, call, walk>>

\* vfs_stat: "free the node if it was dynamically allocated".
stat ==
  /\ At("stat")
  /\ IF Node = 0
     THEN Return("fail") /\ UNCHANGED <<live, wild>>
     ELSE /\ Return("ok")
          /\ IF Node # cwd THEN Free(Node)
             ELSE Reads({Node}) /\ UNCHANGED live
  /\ UNCHANGED <<others, tree, mem, stale, gone, short, walk>>

\* vfs_mkdir, and the test of create_directory_structure before it.
mkdir_exists ==
  /\ At("mkdir") \/ At("boot_check")
  /\ Node # 0
  /\ Return("EEXIST")
  /\ Free(Node)
  /\ UNCHANGED <<others, tree, mem, stale, gone, short, walk>>

boot_missing ==
  /\ At("boot_check") /\ Node = 0
  /\ vfs_resolve_path(call.path, "mkdir")
  /\ UNCHANGED <<others, tree, memory, ret, wild>>

mkdir_missing ==
  /\ At("mkdir") /\ Node = 0
  /\ vfs_resolve_path(DirPart(call.path), "mkdir_dir")
  /\ UNCHANGED <<others, tree, memory, ret, wild>>

mkdir_dir ==
  /\ At("mkdir_dir")
  /\ \/ /\ ~ IsDir(Node)
        /\ Return("ENOTDIR")
        /\ Reads({Node})
        /\ UNCHANGED <<tree, mem, live, stale, gone, short, walk>>
     \/ /\ IsDir(Node) /\ ~ vfs_check_permission(Node, {"WRONLY"})
        /\ Return("EACCES")
        /\ Reads(ReadByWritable(Node))
        /\ UNCHANGED <<tree, mem, live, stale, gone, short, walk>>
     \/ /\ IsDir(Node) /\ vfs_check_permission(Node, {"WRONLY"})
        /\ CreatesIn(Node)
        /\ FsCreate(Node, NamePart(call.path), "dir",
                    Return("ok") /\ UNCHANGED walk)
  /\ UNCHANGED others

\* vfs_rmdir and vfs_unlink, through the parent the node points to.  Both use
\* the node's name, and rmdir the parent too, after a malloc.
remove(op, kind, wrong, used) ==
  LET p == mem[Node].parent
      allowed == vfs_check_permission(p, {"WRONLY"})
  IN  /\ At(op)
      /\ \/ /\ Node = 0
            /\ Return("ENOENT")
            /\ UNCHANGED <<tree, memory, walk, wild>>
         \/ /\ Node # 0 /\ mem[Node].kind # kind
            /\ Return(wrong)
            /\ Reads({Node})
            /\ UNCHANGED <<tree, memory, walk>>
         \/ /\ Node # 0 /\ mem[Node].kind = kind /\ p = 0
            /\ Return("EPERM")
            /\ Reads({Node})
            /\ UNCHANGED <<tree, memory, walk>>
         \/ /\ Node # 0 /\ mem[Node].kind = kind /\ p # 0 /\ ~ allowed
            /\ Return("EACCES")
            /\ Reads({Node} \union ReadByWritable(p))
            /\ UNCHANGED <<tree, memory, walk>>
         \/ /\ Node # 0 /\ mem[Node].kind = kind /\ p # 0 /\ allowed
            /\ Touches({Node, p} \union ReadByWritable(p),
                       ({Node} \ gone) \union ({p} \intersect used))
            /\ FsRemove(p, mem[Node].name, kind)
            /\ UNCHANGED leaked
      /\ UNCHANGED <<cwd, table, boot, call>>

rmdir == remove("rmdir", "dir", "ENOTDIR", Ids)
unlink == remove("unlink", "file", "EISDIR", gone)

\* cmd_cd and vfs_set_cwd.
cd ==
  /\ At("cd")
  /\ \/ /\ Node = 0
        /\ Return("fail")
        /\ UNCHANGED <<cwd, live, wild>>
     \/ /\ Node # 0 /\ ~ IsDir(Node)
        /\ Return("fail")
        /\ Free(Node)
        /\ UNCHANGED cwd
     \/ /\ IsDir(Node)
        /\ Return("ok")
        /\ Reads({Node})
        /\ cwd' = Node
        /\ UNCHANGED live
  /\ UNCHANGED <<tree, table, boot, call, mem, stale, gone, leaked, short,
                 walk>>

\* cmd_pwd and get_cwd_string.
pwd ==
  /\ At("pwd")
  /\ Return("ok")
  /\ Reads(IF cwd = 0 THEN {} ELSE Range(Lineage[cwd]))
  /\ UNCHANGED <<others, tree, memory, walk>>

\* The commands that first resolve their argument only to look at it: cat,
\* mkdir, touch, write, rm, rmdir, cp and mv never free that node.
look ==
  /\ At("look")
  /\ IF Node = 0
     THEN Return("fail") /\ UNCHANGED wild
     ELSE Return("ok") /\ Reads({Node})
  /\ UNCHANGED <<others, tree, memory, walk>>

\* The end of every call.  Nodes that nothing points to stay allocated.
returns ==
  /\ pc = "return"
  /\ pc' = IF cwd = 0 \/ init_complete THEN "idle" ELSE "boot"
  /\ call' = NoCall /\ walk' = NoWalk /\ ret' = "none"
  /\ mem' = [i \in Ids |-> IF i \in Referenced THEN mem[i] ELSE Nil]
  /\ leaked' = leaked + Cardinality(live \ Referenced)
  /\ live' = live \intersect Referenced
  /\ stale' = stale \intersect Referenced
  /\ gone' = gone \intersect Referenced
  /\ UNCHANGED <<tree, cwd, table, boot, short, wild>>

begin(c) ==
  /\ pc = "idle"
  /\ call' = c
  /\ IF c.op \in {"close", "pwd"}
     THEN pc' = c.op /\ UNCHANGED walk
     ELSE vfs_resolve_path(c.path, c.op)
  /\ UNCHANGED <<tree, memory, cwd, table, boot, ret, wild>>

-----------------------------------------------------------------------------
(* Start-up: kmain and create_directory_structure.                         *)

\* vfs_mount of the disk on "/", which may fail.
mount ==
  /\ pc = "mount"
  /\ \/ cwd' = RootId /\ pc' = "boot"
     \/ pc' = "idle" /\ UNCHANGED cwd
  /\ UNCHANGED <<tree, memory, table, boot, call, walk, ret, wild>>

boot_directory ==
  /\ pc = "boot" /\ made < Len(BootDirs)
  /\ made' = made + 1
  /\ call' = Call("mkdir", BootDirs[made + 1], {}, 0)
  /\ vfs_resolve_path(BootDirs[made + 1], "boot_check")
  /\ UNCHANGED <<tree, memory, cwd, table, init_complete, ret, wild>>

boot_complete ==
  /\ pc = "boot" /\ made = Len(BootDirs)
  /\ init_complete' = TRUE
  /\ vfs_resolve_path(Home, "boot_home")
  /\ UNCHANGED <<tree, memory, cwd, table, made, call, ret, wild>>

boot_home ==
  /\ At("boot_home")
  /\ cwd' = IF IsDir(Node) THEN Node ELSE cwd
  /\ Return("ok")
  /\ UNCHANGED <<tree, memory, table, boot, call, walk, wild>>

Halted == wild /\ UNCHANGED vars

Next ==
  \/ /\ ~ wild
     /\ \/ mount \/ boot_directory \/ boot_missing \/ boot_complete
        \/ boot_home
        \/ \E c \in Calls : begin(c)
        \/ walk_end \/ walk_here \/ walk_up \/ walk_not_directory
        \/ walk_missing \/ walk_down
        \/ open_missing \/ open_dir \/ open_node \/ open_vanished \/ close
        \/ stat \/ mkdir_exists \/ mkdir_missing \/ mkdir_dir
        \/ rmdir \/ unlink \/ cd \/ pwd \/ look
        \/ returns
  \/ Halted

Spec == Init /\ [][Next]_vars

-----------------------------------------------------------------------------
(* Properties.                                                             *)

\* The inodes a path leads to in a tree, from an inode and after each of its
\* names: more than one only where a directory holds two entries of one name.
Hop(t, i, token) ==
  CASE token = "." -> {i}
    [] token = ".." -> IF i = RootIno THEN {i}
                       ELSE {e.dir : e \in {f \in t : f.ino = i}}
    [] OTHER -> {e.ino : e \in {f \in t : f.dir = i /\ f.name = token}}
Steps(t, i, names) ==
  LET at[k \in 0 .. Len(names)] ==
        IF k = 0 THEN {i} ELSE UNION {Hop(t, j, names[k]) : j \in at[k - 1]}
  IN  at
Reach(i, names) == Steps(tree, i, names)[Len(names)]

Resolved == pc = walk.then /\ walk.from # 0 /\ cwd # 0 /\ ~ wild

\* vfs_resolve_path finds what its path names in the tree, and fails only
\* where nothing has that name or there is no memory, by way of ".." and of
\* freed parents too, as long as these still hold what they held and the
\* working directory has not been removed.  Where a directory holds a name
\* twice it may also fail for having followed the one entry and not the other.
ResolveAgrees ==
  Resolved /\ Range(Lineage[walk.from]) \intersect gone = {} =>
    LET found == Reach(mem[walk.from].ino, walk.path.names)
    IN  IF walk.cur = 0 THEN found = {} \/ walk.nomem \/ ~ Distinct(tree)
        ELSE mem[walk.cur].ino \in found

\* Resolution gives back every node it made except the one it returns: after
\* a failure, or when it ends on a node that was there before, the heap holds
\* what it held when the walk began.  Without ".." the result is allocated,
\* if the start was.  The vfs_file structures allocated are those in the
\* descriptor table, each once: an open that finds the table full gives its
\* structure back.
MemoryOwned ==
  /\ files = Cardinality({f \in Fds : fds[f] # Closed})
  /\ \A f \in Fds : fds[f] # Closed => fds[f].refcount = 1
  /\ Resolved =>
       /\ live = walk.before \union Owned
       /\ walk.owned => walk.cur \notin walk.before
       /\ /\ walk.cur # 0 /\ walk.from \in live
          /\ ".." \notin Range(walk.path.names)
          => walk.cur \in live

\* A directory holds no two entries of one name, unless a lookup ran out of
\* memory: fat32_create takes that answer for "no such file".
NamesUnique == ~ short => Distinct(tree)

UserDirs == Reach(RootIno, Home.names)
Above(i) == {j \in Inodes : \E n \in 0 .. Cardinality(Inodes) :
                              j \in Reach(i, [k \in 1 .. n |-> ".."])}

\* Once start-up is complete, only directories from /home/user down get or
\* lose entries, whatever the path and the working directory, if the disk
\* had no other directory named user with one named home above it.
OnlyUserTree ==
  [][init_complete /\ ~ wild' =>
       \A e \in (tree \ tree') \union (tree' \ tree) :
         Above(e.dir) \intersect UserDirs # {}]_vars

\* The path that pwd puts together from the working directory's parents leads
\* to the working directory, unless a directory on it was removed.
PwdIsTrue ==
  LET l == Lineage[cwd]
  IN  pc = "idle" /\ cwd # 0 /\ ~ wild /\ Range(l) \intersect gone = {} =>
        mem[cwd].ino \in
          Reach(RootIno, [i \in 1 .. Len(l) - 1 |-> mem[l[Len(l) - i]].name])

=============================================================================
