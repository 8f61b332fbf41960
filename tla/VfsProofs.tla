----------------------------- MODULE VfsProofs -----------------------------
(***************************************************************************)
(* Proofs about module Vfs, for every disk, every set of calls and every    *)
(* size of the heap and of the descriptor table.                           *)
(***************************************************************************)
EXTENDS Vfs, FiniteSetTheorems, WellFoundedInduction, TLAPS

-----------------------------------------------------------------------------
(* The inductive invariant.                                                *)

Tokens == Names \union {".", ".."}

\* The points at which a resolution hands over its node.
Ops == {"open", "close", "stat", "mkdir", "rmdir", "unlink", "cd", "pwd", "look"}
Thens == (Ops \ {"close", "pwd"}) \union
         {"open_dir", "open_again", "boot_check", "mkdir_dir", "boot_home"}

\* What is allocated has contents.
NodesOK ==
  /\ mem = [i \in Ids |-> mem[i]]
  /\ live \subseteq Known

OpenFds == {f \in Fds : fds[f] # Closed}

TableOK ==
  /\ fds = [f \in Fds |-> fds[f]]
  /\ files = Cardinality(OpenFds)
  /\ \A f \in Fds : fds[f] # Closed => fds[f].refcount = 1
  /\ call.path.names \in Seq(Tokens)
  /\ pc = "close" => call.fd \in Fds

\* The heap holds what it held when the walk began, and the node that the walk
\* has made, if it has; a path without ".." leads to that or nowhere.
WalkOK ==
  /\ walk = [then |-> walk.then, path |-> walk.path, at |-> walk.at,
             from |-> walk.from, cur |-> walk.cur, owned |-> walk.owned,
             nomem |-> walk.nomem, before |-> walk.before]
  /\ walk.then \in Thens \union {"none"} /\ walk.at \in Nat \ {0}
  /\ walk.path.names \in Seq(Tokens)
  /\ pc = "walk" => walk.cur # 0
  /\ pc \in {"walk", walk.then} =>
       /\ live = walk.before \union Owned
       /\ walk.owned => walk.cur # 0 /\ walk.cur \notin walk.before
       /\ ".." \notin Range(walk.path.names) =>
            walk.cur \in {0, walk.from} \/ walk.owned

VfsInv == NodesOK /\ TableOK /\ WalkOK /\ NamesUnique

-----------------------------------------------------------------------------
(* Steps of the calls.                                                     *)

\* A nonempty set of numbers has a least one.
LEMMA LeastIs ==
  ASSUME NEW T \in SUBSET Nat, T # {} PROVE \E x \in T : \A y \in T : x <= y
<1>1. PICK x \in T : \A y \in T : ~ (<<y, x>> \in OpToRel(<, Nat))
  BY NatLessThanWellFounded, WFMin, Zenon
<1>2. ASSUME NEW y \in T PROVE x <= y
  <2>1. x \in Nat /\ y \in Nat /\ ~ (<<y, x>> \in OpToRel(<, Nat))
    BY <1>1, Zenon
  <2> QED BY <2>1 DEF OpToRel
<1> QED BY <1>2, Zenon

\* malloc gives out an address that holds nothing.
LEMMA NewIdIs == ASSUME Known # Ids PROVE NewId \in Ids /\ NewId \notin Known
<1> DEFINE T == Ids \ Known
<1>1. T # {} /\ T \in SUBSET Nat
  BY VfsAssumption, Zenon DEF Known
<1>2. \E x \in T : \A y \in T : x <= y
  BY <1>1, LeastIs, Zenon
<1>3. NewId \in T
  BY <1>2, Zenon DEF NewId
<1> QED BY <1>3, Zenon

\* A call that is over has no walk under way.
LEMMA Leaves ==
  ASSUME WalkOK, walk' = walk, pc' \notin Thens \union {"walk", "none"}
  PROVE  WalkOK'
BY Zenon DEF WalkOK

LEMMA Resolves ==
  ASSUME WalkOK, NEW path, path.names \in Seq(Tokens), NEW then \in Thens,
         vfs_resolve_path(path, then), live' = live
  PROVE  WalkOK'
<1> DEFINE from == IF path.abs THEN RootId ELSE cwd
<1>1. /\ pc' = IF cwd = 0 THEN then ELSE "walk"
      /\ walk' = [then |-> then, path |-> path, at |-> 1,
                  from |-> from, cur |-> IF cwd = 0 THEN 0 ELSE from,
                  owned |-> FALSE, nomem |-> FALSE, before |-> live]
  BY Zenon DEF vfs_resolve_path
<1>2. cwd # 0 => from # 0
  BY DEF RootId
<1> HIDE DEF from
<1>3. /\ walk'.then = then /\ walk'.at = 1 /\ walk'.path = path
      /\ walk'.from = from /\ walk'.cur = (IF cwd = 0 THEN 0 ELSE from)
      /\ walk'.owned = FALSE /\ walk'.before = live
      /\ walk' = [then |-> walk'.then, path |-> walk'.path, at |-> walk'.at,
             from |-> walk'.from, cur |-> walk'.cur, owned |-> walk'.owned,
             nomem |-> walk'.nomem, before |-> walk'.before]
  BY <1>1, Zenon
<1>4. "walk" \notin Thens
  BY Zenon DEF Thens, Ops
<1>5. Owned' = {}
  BY <1>3, Zenon DEF Owned
<1> QED BY <1>1, <1>2, <1>3, <1>4, <1>5 DEF WalkOK

\* A step that neither makes a node nor changes an entry.
LEMMA NodesKept ==
  ASSUME NodesOK, mem' = mem, live' \subseteq live PROVE NodesOK'
BY Zenon DEF NodesOK, Known

LEMMA NamesKept ==
  ASSUME NamesUnique, tree' \subseteq tree, short => short' PROVE NamesUnique'
BY Zenon DEF NamesUnique, Distinct

LEMMA TableKept ==
  ASSUME TableOK, UNCHANGED table, call' = call, pc' # "close" PROVE TableOK'
BY Zenon DEF TableOK, table, OpenFds

-----------------------------------------------------------------------------
(* Path resolution.                                                        *)

LEMMA WalkEndInv == ASSUME VfsInv, walk_end PROVE VfsInv'
<1>1. /\ pc = "walk" /\ pc' = walk.then
      /\ UNCHANGED <<tree, table, call, mem, live, short, walk>>
  BY Zenon DEF walk_end, calling
<1>2. WalkOK'
  BY <1>1, Zenon DEF VfsInv, WalkOK, Owned
<1>3. pc' # "close"
  BY <1>1, Zenon DEF VfsInv, WalkOK, Thens, Ops
<1> QED BY <1>1, <1>2, <1>3, NodesKept, NamesKept, TableKept, Zenon DEF VfsInv

LEMMA WalkHereInv == ASSUME VfsInv, walk_here PROVE VfsInv'
<1>1. /\ pc = "walk" /\ pc' = pc /\ walk' = [walk EXCEPT !.at = @ + 1]
      /\ UNCHANGED <<tree, table, call, mem, live, short>>
  BY Zenon DEF walk_here, calling, More
<1>2. WalkOK'
  BY <1>1 DEF VfsInv, WalkOK, Owned
<1> QED BY <1>1, <1>2, NodesKept, NamesKept, TableKept, Zenon DEF VfsInv

\* A walk that holds no node of its own any more.
LEMMA Drops ==
  ASSUME WalkOK, pc = "walk", pc' \in {"walk", walk.then}, live' = live \ Owned,
         NEW at \in Nat \ {0}, NEW cur, pc' = "walk" => cur # 0, NEW nomem,
         walk' = [walk EXCEPT !.at = at, !.cur = cur, !.owned = FALSE,
                              !.nomem = nomem],
         cur = 0 \/ ".." \in Range(walk.path.names)
  PROVE  WalkOK'
<1>1. /\ walk'.then = walk.then /\ walk'.path = walk.path /\ walk'.at = at
      /\ walk'.from = walk.from /\ walk'.cur = cur /\ walk'.owned = FALSE
      /\ walk'.before = walk.before
      /\ walk' = [then |-> walk'.then, path |-> walk'.path, at |-> walk'.at,
             from |-> walk'.from, cur |-> walk'.cur, owned |-> walk'.owned,
             nomem |-> walk'.nomem, before |-> walk'.before]
  BY Zenon DEF WalkOK
<1>2. live = walk.before \union Owned /\ Owned \intersect walk.before = {}
  BY Zenon DEF WalkOK, Owned
<1>3. live' = walk'.before \union Owned'
  BY <1>1, <1>2, Zenon DEF Owned
<1> QED BY <1>1, <1>3, Zenon DEF WalkOK

LEMMA WalkUpInv == ASSUME VfsInv, walk_up PROVE VfsInv'
<1> DEFINE p == mem[walk.cur].parent
<1>1. /\ pc = "walk" /\ pc' = pc /\ Token = ".." /\ walk.at <= Len(walk.path.names)
      /\ UNCHANGED <<tree, table, call, mem, short>>
  BY Zenon DEF walk_up, calling, More
<1>2. \/ /\ p # 0 /\ live' = live \ Owned
         /\ walk' = [walk EXCEPT !.at = @ + 1, !.cur = p, !.owned = FALSE]
      \/ /\ walk' = [walk EXCEPT !.at = @ + 1]
         /\ live' = live
  BY Zenon DEF walk_up
<1> HIDE DEF p
<1>3. ".." \in Range(walk.path.names)
  BY <1>1 DEF VfsInv, WalkOK, Token, Range
<1>4. WalkOK'
  <2>1. CASE /\ p # 0 /\ live' = live \ Owned
             /\ walk' = [walk EXCEPT !.at = @ + 1, !.cur = p, !.owned = FALSE]
    <3>1. walk.at + 1 \in Nat \ {0}
      BY DEF VfsInv, WalkOK
    <3>2. walk' = [walk EXCEPT !.at = walk.at + 1, !.cur = p, !.owned = FALSE,
                               !.nomem = walk.nomem]
      BY <2>1, Zenon DEF VfsInv, WalkOK
    <3>3. /\ WalkOK /\ pc = "walk" /\ pc' \in {"walk", walk.then}
          /\ live' = live \ Owned /\ p # 0
      BY <1>1, <2>1, Zenon DEF VfsInv
    <3> QED BY <1>3, <3>1, <3>2, <3>3, Drops, Zenon
  <2>2. CASE walk' = [walk EXCEPT !.at = @ + 1] /\ live' = live
    BY <1>1, <2>2 DEF VfsInv, WalkOK, Owned
  <2> QED BY <1>2, <2>1, <2>2, Zenon
<1>5. live' \subseteq live
  BY <1>2, Zenon
<1> QED BY <1>1, <1>4, <1>5, NodesKept, NamesKept, TableKept, Zenon DEF VfsInv

LEMMA WalkFailsInv ==
  ASSUME VfsInv, pc = "walk", NEW nomem, WalkFails(nomem),
         UNCHANGED <<tree, table, call, mem>>, short => short'
  PROVE  VfsInv'
<1>1. /\ live' = live \ Owned /\ pc' = walk.then
      /\ walk' = [walk EXCEPT !.cur = 0, !.owned = FALSE, !.nomem = nomem]
  BY Zenon DEF WalkFails
<1>2. WalkOK'
  <2>1. walk' = [walk EXCEPT !.at = walk.at, !.cur = 0, !.owned = FALSE,
                             !.nomem = nomem]
    BY <1>1, Zenon DEF VfsInv, WalkOK
  <2>2. walk.at \in Nat \ {0} /\ pc' # "walk"
    BY <1>1, Zenon DEF VfsInv, WalkOK, Thens, Ops
  <2> QED BY <1>1, <2>1, <2>2, Drops, Zenon DEF VfsInv
<1>3. pc' # "close"
  BY <1>1, Zenon DEF VfsInv, WalkOK, Thens, Ops
<1> QED BY <1>1, <1>2, <1>3, NodesKept, NamesKept, TableKept, Zenon DEF VfsInv

LEMMA WalkNotDirectoryInv == ASSUME VfsInv, walk_not_directory PROVE VfsInv'
<1>1. /\ pc = "walk" /\ WalkFails(FALSE)
      /\ UNCHANGED <<tree, table, call, mem>> /\ short' = short
  BY Zenon DEF walk_not_directory, Into, More, calling
<1> QED BY <1>1, WalkFailsInv, Zenon

LEMMA WalkMissingInv == ASSUME VfsInv, walk_missing PROVE VfsInv'
<1>1. /\ pc = "walk" /\ WalkFails(Matches(walk.cur, Token) # {})
      /\ UNCHANGED <<tree, table, call, mem>> /\ (short => short')
  BY Zenon DEF walk_missing, Into, More, calling
<1> QED BY <1>1, WalkFailsInv, Zenon

LEMMA WalkDownInv == ASSUME VfsInv, walk_down PROVE VfsInv'
<1>1. /\ pc = "walk" /\ pc' = pc /\ Known # Ids
      /\ UNCHANGED <<tree, table, call, short>>
  BY Zenon DEF walk_down, Into, More, calling
<1>2. PICK e \in Matches(walk.cur, Token) :
        /\ mem' = [mem EXCEPT ![NewId] =
                    [name |-> e.name, kind |-> e.kind, ino |-> e.ino,
                     parent |-> walk.cur]]
        /\ live' = (live \ Owned) \union {NewId}
        /\ walk' = [walk EXCEPT !.at = @ + 1, !.cur = NewId, !.owned = TRUE]
  BY Zenon DEF walk_down
<1> DEFINE id == NewId
           node == [name |-> e.name, kind |-> e.kind, ino |-> e.ino,
                    parent |-> walk.cur]
<1>3. id \in Ids /\ id \notin Known /\ id # 0
  BY <1>1, NewIdIs, VfsAssumption, Zenon
<1>4. node # Nil
  <2>1. walk.cur # 0
    BY <1>1, Zenon DEF VfsInv, WalkOK
  <2> QED BY <2>1, Zenon DEF Nil
<1>5. mem' = [mem EXCEPT ![id] = node] /\ live' = (live \ Owned) \union {id}
  BY <1>2, Zenon
<1>6. walk' = [walk EXCEPT !.at = @ + 1, !.cur = id, !.owned = TRUE]
  BY <1>2, Zenon
<1> HIDE DEF id, node
<1>7. NodesOK'
  BY <1>3, <1>4, <1>5, Zenon DEF VfsInv, NodesOK, Known
<1>8. WalkOK'
  <2>1. /\ walk'.then = walk.then /\ walk'.path = walk.path /\ walk'.at = walk.at + 1
        /\ walk'.from = walk.from /\ walk'.cur = id /\ walk'.owned = TRUE
        /\ walk'.before = walk.before
        /\ walk' = [then |-> walk'.then, path |-> walk'.path, at |-> walk'.at,
               from |-> walk'.from, cur |-> walk'.cur, owned |-> walk'.owned,
               nomem |-> walk'.nomem, before |-> walk'.before]
    BY <1>6, Zenon DEF VfsInv, WalkOK
  <2>2. live = walk.before \union Owned /\ Owned \intersect walk.before = {}
    BY <1>1, Zenon DEF VfsInv, WalkOK, Owned
  <2>3. live' = walk'.before \union Owned' /\ id \notin walk.before
    BY <1>3, <1>5, <2>1, <2>2, Zenon DEF Owned, VfsInv, NodesOK
  <2>4. walk'.at \in Nat \ {0} /\ walk.then \in Thens \union {"none"}
        /\ walk.path.names \in Seq(Tokens)
    BY <2>1 DEF VfsInv, WalkOK
  <2> QED BY <1>3, <2>1, <2>3, <2>4, Zenon DEF WalkOK
<1> QED BY <1>1, <1>7, <1>8, NamesKept, TableKept, Zenon DEF VfsInv

-----------------------------------------------------------------------------
(* The calls.                                                              *)

\* A call that ends and leaves the table alone.
LEMMA ReturnInv ==
  ASSUME VfsInv, pc' = "return", walk' = walk, mem' = mem, live' \subseteq live,
         UNCHANGED table, call' = call, tree' \subseteq tree, short => short'
  PROVE  VfsInv'
<1>1. pc' \notin Thens \union {"walk", "none"} /\ pc' # "close"
  BY Zenon DEF Thens, Ops
<1> QED BY <1>1, Leaves, NodesKept, NamesKept, TableKept, Zenon DEF VfsInv

\* A call that resolves another path.
LEMMA ResolveInv ==
  ASSUME VfsInv, NEW path, path.names \in Seq(Tokens), NEW then \in Thens,
         vfs_resolve_path(path, then), mem' = mem, live' = live,
         UNCHANGED table, call' = call, tree' = tree, short' = short
  PROVE  VfsInv'
<1>1. pc' # "close"
  BY Zenon DEF vfs_resolve_path, Thens, Ops
<1> QED BY <1>1, Resolves, NodesKept, NamesKept, TableKept, Zenon DEF VfsInv

LEMMA DirPartIs ==
  ASSUME NEW p, p.names \in Seq(Tokens) PROVE DirPart(p).names \in Seq(Tokens)
BY DEF DirPart, Path

LEMMA OpenMissingInv == ASSUME VfsInv, open_missing PROVE VfsInv'
<1>1. UNCHANGED <<tree, table, call, mem, live, short>>
  BY Zenon DEF open_missing, others
<1>2. CASE vfs_resolve_path(DirPart(call.path), "open_dir")
  <2>1. DirPart(call.path).names \in Seq(Tokens)
    BY DirPartIs, Zenon DEF VfsInv, TableOK
  <2>2. "open_dir" \in Thens
    BY Zenon DEF Thens
  <2> QED BY <1>1, <1>2, <2>1, <2>2, ResolveInv, Zenon
<1>3. CASE Return("ENOENT") /\ UNCHANGED walk
  BY <1>1, <1>3, ReturnInv, Zenon DEF Return
<1> QED BY <1>2, <1>3, Zenon DEF open_missing

\* fat32_create: a name that is not there yet, unless a lookup was short of
\* memory.
LEMMA CreateNames ==
  ASSUME NamesUnique, NEW d, NEW name, NEW kind, NEW i,
         Matches(d, name) = {} \/ Full,
         short' = (short \/ (Full /\ Matches(d, name) # {})),
         Dir!Add([dir |-> mem[d].ino, name |-> name, kind |-> kind, ino |-> i])
  PROVE  NamesUnique'
<1> DEFINE e == [dir |-> mem[d].ino, name |-> name, kind |-> kind, ino |-> i]
<1>1. tree' = tree \union {e}
  BY Zenon DEF Dir!Add
<1> SUFFICES ASSUME ~ short',
                    NEW x \in tree', NEW y \in tree', x.dir = y.dir, x.name = y.name
             PROVE  x = y
  BY Zenon DEF NamesUnique, Distinct
<1>2. Matches(d, name) = {} /\ ~ short
  BY Zenon
<1>3. \A z \in tree : ~ (z.dir = mem[d].ino /\ z.name = name)
  BY <1>2, Zenon DEF Matches
<1> QED BY <1>1, <1>2, <1>3 DEF NamesUnique, Distinct

LEMMA CreateInv ==
  ASSUME VfsInv, NEW d, NEW name, NEW kind,
         FsCreate(d, name, kind, TRUE), UNCHANGED table, call' = call,
         \/ pc' = "return" /\ walk' = walk
         \/ vfs_resolve_path(call.path, "open_again")
  PROVE  VfsInv'
<1>1. mem' = mem /\ live' = live
  BY Zenon DEF FsCreate
<1>2. NamesUnique'
  <2>1. CASE UNCHANGED tree
    BY <2>1, NamesKept, Zenon DEF FsCreate, VfsInv
  <2>2. CASE /\ Matches(d, name) = {} \/ Full
             /\ \E i \in Unused :
                  Dir!Add([dir |-> mem[d].ino, name |-> name, kind |-> kind,
                           ino |-> i])
    BY <2>2, CreateNames, Zenon DEF FsCreate, VfsInv
  <2> QED BY <2>1, <2>2, Zenon DEF FsCreate
<1>3. WalkOK' /\ TableOK'
  <2>1. CASE pc' = "return" /\ walk' = walk
    <3>1. pc' \notin Thens \union {"walk", "none"} /\ pc' # "close"
      BY <2>1, Zenon DEF Thens, Ops
    <3> QED BY <2>1, <3>1, Leaves, TableKept, Zenon DEF VfsInv
  <2>2. CASE vfs_resolve_path(call.path, "open_again")
    <3>1. "open_again" \in Thens /\ call.path.names \in Seq(Tokens)
      BY Zenon DEF Thens, VfsInv, TableOK
    <3>2. pc' # "close"
      BY <2>2, Zenon DEF vfs_resolve_path
    <3> QED BY <1>1, <2>2, <3>1, <3>2, Resolves, TableKept, SMTT(30) DEF VfsInv
  <2> QED BY <2>1, <2>2, Zenon
<1> QED BY <1>1, <1>2, <1>3, NodesKept, Zenon DEF VfsInv

LEMMA OpenDirInv == ASSUME VfsInv, open_dir PROVE VfsInv'
<1>1. UNCHANGED table /\ call' = call
  BY Zenon DEF open_dir, others
<1>2. CASE /\ pc' = "return" /\ UNCHANGED <<tree, mem, live, short, walk>>
  BY <1>1, <1>2, ReturnInv, Zenon
<1>3. CASE FsCreate(Node, NamePart(call.path), "file",
                    /\ vfs_resolve_path(call.path, "open_again")
                    /\ UNCHANGED ret)
  <2>1. /\ FsCreate(Node, NamePart(call.path), "file", TRUE)
        /\ \/ pc' = "return" /\ walk' = walk
           \/ vfs_resolve_path(call.path, "open_again")
    BY <1>3, Zenon DEF FsCreate, Return
  <2> QED BY <1>1, <2>1, CreateInv, Zenon
<1> QED BY <1>2, <1>3, Zenon DEF open_dir, Return

LEMMA MkdirDirInv == ASSUME VfsInv, mkdir_dir PROVE VfsInv'
<1>1. UNCHANGED table /\ call' = call
  BY Zenon DEF mkdir_dir, others
<1>2. CASE /\ pc' = "return" /\ UNCHANGED <<tree, mem, live, short, walk>>
  BY <1>1, <1>2, ReturnInv, Zenon
<1>3. CASE FsCreate(Node, NamePart(call.path), "dir",
                    Return("ok") /\ UNCHANGED walk)
  <2>1. /\ FsCreate(Node, NamePart(call.path), "dir", TRUE)
        /\ pc' = "return" /\ walk' = walk
    BY <1>3, Zenon DEF FsCreate, Return
  <2> QED BY <1>1, <2>1, CreateInv, Zenon
<1> QED BY <1>2, <1>3, Zenon DEF mkdir_dir, Return

\* The descriptor table has room: one structure more.
LEMMA OpensOne ==
  ASSUME TableOK, NEW fd \in Fds, fds[fd] = Closed, NEW file, file # Closed,
         file.refcount = 1, fds' = [fds EXCEPT ![fd] = file], files' = files + 1,
         call' = call, pc' # "close"
  PROVE  TableOK'
<1>1. OpenFds' = OpenFds \union {fd} /\ fd \notin OpenFds
  BY Zenon DEF OpenFds, TableOK
<1>2. IsFiniteSet(OpenFds)
  BY FS_Subset, VfsAssumption, Zenon DEF OpenFds
<1>3. files' = Cardinality(OpenFds')
  BY <1>1, <1>2, FS_AddElement, Zenon DEF TableOK
<1> QED BY <1>3, Zenon DEF TableOK

LEMMA OpenNodeInv == ASSUME VfsInv, open_node PROVE VfsInv'
<1>1. /\ Node # 0 /\ pc' = "return"
      /\ UNCHANGED <<tree, mem, live, short, call, walk>>
  BY Zenon DEF open_node, Return
<1>2. CASE UNCHANGED table
  BY <1>1, <1>2, ReturnInv, Zenon
<1>3. ASSUME NEW fd \in Fds, fds[fd] = Closed, files' = files + 1,
             fds' = [fds EXCEPT ![fd] = [node |-> Node, flags |-> call.flags,
                                         refcount |-> 1]]
      PROVE  VfsInv'
  <2> DEFINE file == [node |-> Node, flags |-> call.flags, refcount |-> 1]
  <2>1. file # Closed /\ file.refcount = 1 /\ fds' = [fds EXCEPT ![fd] = file]
    BY <1>1, <1>3, Zenon DEF Closed
  <2> HIDE DEF file
  <2>2. TableOK'
    BY <1>1, <1>3, <2>1, OpensOne, Zenon DEF VfsInv
  <2>3. pc' \notin Thens \union {"walk", "none"}
    BY <1>1, Zenon DEF Thens, Ops
  <2> QED BY <1>1, <2>2, <2>3, Leaves, NodesKept, NamesKept, Zenon DEF VfsInv
<1> QED BY <1>2, <1>3, Zenon DEF open_node

LEMMA OpenVanishedInv == ASSUME VfsInv, open_vanished PROVE VfsInv'
<1>1. /\ pc' = "return" /\ UNCHANGED <<tree, table, call, mem, live, short, walk>>
  BY Zenon DEF open_vanished, Return, others, memory
<1> QED BY <1>1, ReturnInv, Zenon

\* A structure is given back with its descriptor.
LEMMA ClosesOne ==
  ASSUME TableOK, NEW fd \in Fds, fds[fd] # Closed,
         fds' = [fds EXCEPT ![fd] = Closed],
         files' = IF fds[fd].refcount = 1 THEN files - 1 ELSE files,
         call' = call, pc' # "close"
  PROVE  TableOK'
<1>1. OpenFds' = OpenFds \ {fd} /\ fd \in OpenFds
  BY Zenon DEF OpenFds, TableOK
<1>2. IsFiniteSet(OpenFds)
  BY FS_Subset, VfsAssumption, Zenon DEF OpenFds
<1>3. files' = Cardinality(OpenFds')
  BY <1>1, <1>2, FS_RemoveElement, Zenon DEF TableOK
<1> QED BY <1>3, Zenon DEF TableOK

LEMMA CloseInv == ASSUME VfsInv, close PROVE VfsInv'
<1>1. /\ pc' = "return" /\ UNCHANGED <<tree, call, mem, live, short, walk>>
      /\ call.fd \in Fds
  BY Zenon DEF close, At, Return, memory, VfsInv, TableOK
<1>2. CASE UNCHANGED table
  BY <1>1, <1>2, ReturnInv, Zenon
<1>3. CASE /\ fds[call.fd] # Closed /\ fds' = [fds EXCEPT ![call.fd] = Closed]
           /\ files' = IF fds[call.fd].refcount = 1 THEN files - 1 ELSE files
  <2>1. TableOK'
    BY <1>1, <1>3, ClosesOne, Zenon DEF VfsInv
  <2>2. pc' \notin Thens \union {"walk", "none"}
    BY <1>1, Zenon DEF Thens, Ops
  <2> QED BY <1>1, <2>1, <2>2, Leaves, NodesKept, NamesKept, SMTT(30) DEF VfsInv
<1> QED BY <1>2, <1>3, Zenon DEF close

LEMMA StatInv == ASSUME VfsInv, stat PROVE VfsInv'
<1>1. /\ pc' = "return" /\ UNCHANGED <<tree, table, call, mem, short, walk>>
      /\ live' \subseteq live
  BY Zenon DEF stat, Return, others, Free
<1> QED BY <1>1, ReturnInv, Zenon

LEMMA MkdirExistsInv == ASSUME VfsInv, mkdir_exists PROVE VfsInv'
<1>1. /\ pc' = "return" /\ UNCHANGED <<tree, table, call, mem, short, walk>>
      /\ live' \subseteq live
  BY Zenon DEF mkdir_exists, Return, others, Free
<1> QED BY <1>1, ReturnInv, Zenon

LEMMA BootMissingInv == ASSUME VfsInv, boot_missing PROVE VfsInv'
<1>1. /\ vfs_resolve_path(call.path, "mkdir")
      /\ UNCHANGED <<tree, table, call, mem, live, short>>
  BY Zenon DEF boot_missing, others, memory
<1>2. "mkdir" \in Thens /\ call.path.names \in Seq(Tokens)
  BY Zenon DEF Thens, Ops, VfsInv, TableOK
<1> QED BY <1>1, <1>2, ResolveInv, Zenon

LEMMA MkdirMissingInv == ASSUME VfsInv, mkdir_missing PROVE VfsInv'
<1>1. /\ vfs_resolve_path(DirPart(call.path), "mkdir_dir")
      /\ UNCHANGED <<tree, table, call, mem, live, short>>
  BY Zenon DEF mkdir_missing, others, memory
<1>2. "mkdir_dir" \in Thens /\ DirPart(call.path).names \in Seq(Tokens)
  BY DirPartIs, Zenon DEF Thens, VfsInv, TableOK
<1> QED BY <1>1, <1>2, ResolveInv, Zenon

LEMMA RemoveInv ==
  ASSUME VfsInv, NEW op, NEW kind, NEW wrong, NEW used, remove(op, kind, wrong, used)
  PROVE  VfsInv'
<1>1. UNCHANGED table /\ call' = call
  BY Zenon DEF remove
<1>2. CASE pc' = "return" /\ UNCHANGED <<tree, memory, walk>>
  BY <1>1, <1>2, ReturnInv, Zenon DEF memory
<1>3. CASE FsRemove(mem[Node].parent, mem[Node].name, kind)
  <2>1. /\ pc' = "return" /\ UNCHANGED <<mem, live, short, walk>>
        /\ tree' \subseteq tree
    BY <1>3, Zenon DEF FsRemove, Return, Dir!Remove
  <2> QED BY <1>1, <2>1, ReturnInv, Zenon
<1> QED BY <1>2, <1>3, Zenon DEF remove, Return

LEMMA CdInv == ASSUME VfsInv, cd PROVE VfsInv'
<1>1. /\ pc' = "return" /\ UNCHANGED <<tree, table, call, mem, short, walk>>
      /\ live' \subseteq live
  BY Zenon DEF cd, Return, Free
<1> QED BY <1>1, ReturnInv, Zenon

LEMMA PwdInv == ASSUME VfsInv, pwd PROVE VfsInv'
<1>1. pc' = "return" /\ UNCHANGED <<tree, table, call, mem, live, short, walk>>
  BY Zenon DEF pwd, Return, others, memory
<1> QED BY <1>1, ReturnInv, Zenon

LEMMA LookInv == ASSUME VfsInv, look PROVE VfsInv'
<1>1. pc' = "return" /\ UNCHANGED <<tree, table, call, mem, live, short, walk>>
  BY Zenon DEF look, Return, others, memory
<1> QED BY <1>1, ReturnInv, Zenon

\* What nothing points to is no longer kept track of.
LEMMA ReturnsInv == ASSUME VfsInv, returns PROVE VfsInv'
<1>1. /\ pc' \in {"idle", "boot"} /\ call' = NoCall /\ walk' = NoWalk
      /\ mem' = [i \in Ids |-> IF i \in Referenced THEN mem[i] ELSE Nil]
      /\ live' = live \intersect Referenced
      /\ UNCHANGED <<tree, table, short>>
  BY Zenon DEF returns
<1>2. NodesOK'
  BY <1>1, Zenon DEF VfsInv, NodesOK, Known
<1>3. TableOK'
  <2>1. call'.path.names \in Seq(Tokens)
    <3>1. call'.path.names = <<>>
      BY <1>1, Zenon DEF NoCall, Call, Path
    <3> QED BY <3>1
  <2> QED BY <1>1, <2>1, Zenon DEF VfsInv, TableOK, table, OpenFds
<1>4. WalkOK'
  <2>1. /\ walk'.then = "none" /\ walk'.at = 1 /\ walk'.path.names = <<>>
        /\ walk' = [then |-> walk'.then, path |-> walk'.path, at |-> walk'.at,
               from |-> walk'.from, cur |-> walk'.cur, owned |-> walk'.owned,
               nomem |-> walk'.nomem, before |-> walk'.before]
    BY <1>1, Zenon DEF NoWalk, Path
  <2>2. <<>> \in Seq(Tokens) /\ 1 \in Nat \ {0} /\ pc' \notin {"walk", "none"}
    BY <1>1
  <2> QED BY <2>1, <2>2, Zenon DEF WalkOK
<1> QED BY <1>1, <1>2, <1>3, <1>4, NamesKept, Zenon DEF VfsInv

\* A new call.
LEMMA CallInv ==
  ASSUME VfsInv, call'.path.names \in Seq(Tokens), UNCHANGED <<tree, memory, table>>,
         pc' = "close" => call'.fd \in Fds,
         \/ pc' \in {"close", "pwd"} /\ walk' = walk
         \/ \E path, then : /\ path.names \in Seq(Tokens) /\ then \in Thens
                            /\ vfs_resolve_path(path, then)
  PROVE  VfsInv'
<1>1. UNCHANGED <<mem, live, short>>
  BY Zenon DEF memory
<1>2. WalkOK'
  <2>1. CASE pc' \in {"close", "pwd"} /\ walk' = walk
    <3>1. pc' \notin Thens \union {"walk", "none"}
      BY <2>1, Zenon DEF Thens, Ops
    <3> QED BY <2>1, <3>1, Leaves, Zenon DEF VfsInv
  <2>2. ASSUME NEW path, NEW then, path.names \in Seq(Tokens), then \in Thens,
               vfs_resolve_path(path, then)
        PROVE  WalkOK'
    BY <1>1, <2>2, Resolves, Zenon DEF VfsInv
  <2> QED BY <2>1, <2>2, Zenon
<1>3. TableOK'
  BY Zenon DEF VfsInv, TableOK, table, OpenFds
<1> QED BY <1>1, <1>2, <1>3, NodesKept, NamesKept, Zenon DEF VfsInv

LEMMA BeginInv == ASSUME VfsInv, NEW c \in Calls, begin(c) PROVE VfsInv'
<1>1. call' = c /\ UNCHANGED <<tree, memory, table>>
  BY Zenon DEF begin
<1>2. c.op \in Ops /\ c.path.names \in Seq(Tokens) /\ c.fd \in Fds
  BY VfsAssumption, Zenon DEF Ops, Tokens
<1>3. \/ pc' \in {"close", "pwd"} /\ walk' = walk
      \/ c.op \in Thens /\ vfs_resolve_path(c.path, c.op)
  BY <1>2, Zenon DEF begin, Thens
<1> QED BY <1>1, <1>2, <1>3, CallInv, Zenon

LEMMA MountInv == ASSUME VfsInv, mount PROVE VfsInv'
<1>1. /\ pc' \in {"boot", "idle"}
      /\ UNCHANGED <<tree, mem, live, short, table, call, walk>>
  BY Zenon DEF mount, memory
<1>2. pc' \notin Thens \union {"walk", "none"} /\ pc' # "close"
  BY <1>1, Zenon DEF Thens, Ops
<1> QED BY <1>1, <1>2, Leaves, NodesKept, NamesKept, TableKept DEF VfsInv

LEMMA BootDirectoryInv == ASSUME VfsInv, made \in Nat, boot_directory PROVE VfsInv'
<1> DEFINE path == BootDirs[made + 1]
<1>1. /\ made < Len(BootDirs) /\ call' = Call("mkdir", path, {}, 0)
      /\ vfs_resolve_path(path, "boot_check")
      /\ UNCHANGED <<tree, memory, table>>
  BY Zenon DEF boot_directory
<1>2. path.names \in Seq(Tokens)
  <2>1. made + 1 \in 1 .. Len(BootDirs)
    BY <1>1
  <2>2. path.names \in Seq(Names)
    BY <2>1, VfsAssumption, Zenon
  <2> HIDE DEF path
  <2>3. Names \subseteq Tokens
    BY Zenon DEF Tokens
  <2> QED BY <2>2, <2>3
<1> HIDE DEF path
<1>3. call'.path = path /\ "boot_check" \in Thens /\ pc' # "close"
  BY <1>1, Zenon DEF Call, Thens, vfs_resolve_path
<1> QED BY <1>1, <1>2, <1>3, CallInv, Zenon

LEMMA HomeNames == Home.names \in Seq(Tokens)
<1>1. Home.names = <<"home", "user">>
  BY Zenon DEF Home, Path
<1>2. ASSUME NEW a \in Tokens, NEW b \in Tokens PROVE <<a, b>> \in Seq(Tokens)
  OBVIOUS
<1>3. "home" \in Tokens /\ "user" \in Tokens
  BY VfsAssumption, Zenon DEF Tokens
<1> QED BY <1>1, <1>2, <1>3, Zenon

LEMMA BootCompleteInv == ASSUME VfsInv, boot_complete PROVE VfsInv'
<1>1. /\ vfs_resolve_path(Home, "boot_home")
      /\ UNCHANGED <<tree, mem, live, short, table, call>>
  BY Zenon DEF boot_complete, memory
<1>2. Home.names \in Seq(Tokens) /\ "boot_home" \in Thens
  BY HomeNames, Zenon DEF Thens
<1> QED BY <1>1, <1>2, ResolveInv, Zenon

LEMMA BootHomeInv == ASSUME VfsInv, boot_home PROVE VfsInv'
<1>1. pc' = "return" /\ UNCHANGED <<tree, table, call, mem, live, short, walk>>
  BY Zenon DEF boot_home, Return, memory
<1> QED BY <1>1, ReturnInv, Zenon

LEMMA StutterInv == ASSUME VfsInv, UNCHANGED vars PROVE VfsInv'
<1>1. UNCHANGED <<tree, mem, live, short, table, call, walk, pc>>
  BY Zenon DEF vars, memory
<1>2. WalkOK'
  BY <1>1, Zenon DEF VfsInv, WalkOK, Owned
<1>3. TableOK'
  BY <1>1, Zenon DEF VfsInv, TableOK, table, OpenFds
<1> QED BY <1>1, <1>2, <1>3, NodesKept, NamesKept, Zenon DEF VfsInv

\* The count of boot directories.
LEMMA MadeNext == ASSUME made \in Nat, [Next]_vars PROVE made' \in Nat
<1>1. made' = made \/ made' = made + 1
  BY Zenon DEF Next, vars, boot, calling, others, mount, boot_directory, boot_missing,
     boot_complete, boot_home, begin, walk_end, walk_here, walk_up,
     walk_not_directory, walk_missing, walk_down, open_missing, open_dir, open_node,
     open_vanished, close, stat, mkdir_exists, mkdir_missing, mkdir_dir, rmdir,
     unlink, remove, cd, pwd, look, returns, Halted
<1> QED BY <1>1

LEMMA NextInv == ASSUME VfsInv, made \in Nat, [Next]_vars PROVE VfsInv'
BY MountInv, BootDirectoryInv, BootMissingInv, BootCompleteInv, BootHomeInv, BeginInv,
   WalkEndInv, WalkHereInv, WalkUpInv, WalkNotDirectoryInv, WalkMissingInv,
   WalkDownInv, OpenMissingInv, OpenDirInv, OpenNodeInv, OpenVanishedInv, CloseInv,
   StatInv, MkdirExistsInv, MkdirMissingInv, MkdirDirInv, RemoveInv, CdInv, PwdInv,
   LookInv, ReturnsInv, StutterInv, Zenon DEF Next, Halted, rmdir, unlink

LEMMA InitInv == ASSUME Init PROVE VfsInv /\ made \in Nat
<1>1. NodesOK
  <2>1. mem = [i \in Ids |-> mem[i]]
    BY Zenon DEF Init
  <2>2. mem[RootId].kind = "dir" /\ RootId \in Ids
    BY VfsAssumption, Zenon DEF Init, Nil, RootId
  <2> QED BY <2>1, <2>2, Zenon DEF Init, NodesOK, Known, Nil
<1>2. TableOK
  <2>1. OpenFds = {}
    BY Zenon DEF Init, OpenFds
  <2>2. Cardinality(OpenFds) = 0
    BY <2>1, FS_EmptySet, Zenon
  <2>3. call.path.names = <<>>
    BY Zenon DEF Init, NoCall, Call, Path
  <2>4. \A f \in Fds : fds[f] = Closed
    BY Zenon DEF Init
  <2> QED BY <2>2, <2>3, <2>4 DEF Init, TableOK
<1>3. WalkOK
  <2>1. /\ walk.then = "none" /\ walk.at = 1 /\ walk.path.names = <<>>
        /\ walk = [then |-> walk.then, path |-> walk.path, at |-> walk.at,
               from |-> walk.from, cur |-> walk.cur, owned |-> walk.owned,
               nomem |-> walk.nomem, before |-> walk.before]
    BY Zenon DEF Init, NoWalk, Path
  <2>2. <<>> \in Seq(Tokens) /\ 1 \in Nat \ {0} /\ pc \notin {"walk", "none"}
    BY DEF Init
  <2> QED BY <2>1, <2>2, Zenon DEF WalkOK
<1>4. NamesUnique
  BY VfsAssumption, Zenon DEF Init, NamesUnique
<1> QED BY <1>1, <1>2, <1>3, <1>4, Zenon DEF VfsInv, Init

LEMMA VfsInvariant == Spec => [](VfsInv /\ made \in Nat)
<1>1. Init => VfsInv /\ made \in Nat
  BY InitInv, Zenon
<1>2. (VfsInv /\ made \in Nat) /\ [Next]_vars => (VfsInv /\ made \in Nat)'
  BY NextInv, MadeNext, Zenon
<1> QED BY <1>1, <1>2, PTL DEF Spec

-----------------------------------------------------------------------------
(* Where paths lead, by induction along the path.                          *)

\* Steps is what its definition says: the inodes after no name and after one more.
LEMMA StepsIs ==
  ASSUME NEW t, NEW i, NEW names, Len(names) \in Nat
  PROVE  /\ Steps(t, i, names)[0] = {i}
         /\ \A k \in 1 .. Len(names) :
              Steps(t, i, names)[k] =
                UNION {Hop(t, j, names[k]) : j \in Steps(t, i, names)[k - 1]}
<1> DEFINE After(S, k) == UNION {Hop(t, j, names[k]) : j \in S}
           Is(f, n) == f = [k \in 0 .. n |-> IF k = 0 THEN {i} ELSE After(f[k - 1], k)]
           T == {n \in Nat : ~ \E f : Is(f, n)}
           L == Len(names)
<1>1. T = {}
  <2> SUFFICES ASSUME T # {} PROVE FALSE
    BY Zenon
  <2>1. PICK n \in T : \A y \in T : n <= y
    BY LeastIs, Zenon
  <2>2. n # 0
    <3>1. Is([k \in 0 .. 0 |-> {i}], 0)
      <4> HIDE DEF After
      <4> QED OBVIOUS
    <3> QED BY <2>1, <3>1, Zenon
  <2>3. n - 1 \in Nat /\ n - 1 \notin T
    <3>1. n \in Nat
      BY <2>1, Zenon
    <3> HIDE DEF T
    <3>2. n - 1 \in Nat /\ ~ (n <= n - 1)
      BY <2>2, <3>1
    <3> QED BY <2>1, <3>2, Zenon
  <2>4. PICK f : Is(f, n - 1)
    BY <2>3, Zenon
  <2> DEFINE g == [k \in 0 .. n |-> IF k = n THEN After(f[n - 1], n) ELSE f[k]]
  <2>5. Is(g, n)
    <3> HIDE DEF After
    <3>1. ASSUME NEW k \in 0 .. n
          PROVE  g[k] = IF k = 0 THEN {i} ELSE After(g[k - 1], k)
      <4>1. CASE k = n
        BY <2>1, <2>2, <2>3, <4>1
      <4>2. CASE k # n
        <5>1. k \in 0 .. n - 1 /\ g[k] = f[k]
          BY <2>1, <2>2, <4>2
        <5>2. f[k] = IF k = 0 THEN {i} ELSE After(f[k - 1], k)
          BY <2>4, <5>1, Zenon
        <5>3. k # 0 => g[k - 1] = f[k - 1]
          BY <2>1, <4>2
        <5> QED BY <5>1, <5>2, <5>3, Zenon
      <4> QED BY <4>1, <4>2, Zenon
    <3> HIDE DEF g
    <3>2. g = [k \in 0 .. n |-> g[k]]
      BY Zenon DEF g
    <3> QED BY <3>1, <3>2, Zenon
  <2> QED BY <2>1, <2>5, Zenon
<1>2. PICK f : Is(f, L)
  BY <1>1, Zenon
<1> DEFINE at == Steps(t, i, names)
<1>3. Is(at, L)
  BY <1>2, Zenon DEF Steps
<1>4. L \in Nat
  BY Zenon
<1> HIDE DEF After, at, L
<1>5. \A k \in 0 .. L : at[k] = IF k = 0 THEN {i} ELSE After(at[k - 1], k)
  BY <1>3, Zenon
<1>6. at[0] = {i}
  <2>1. 0 \in 0 .. L
    BY <1>4
  <2> QED BY <1>5, <2>1, Zenon
<1>7. ASSUME NEW k \in 1 .. L PROVE at[k] = After(at[k - 1], k)
  <2>1. k \in 0 .. L /\ k # 0
    BY <1>4
  <2> QED BY <1>5, <2>1, Zenon
<1> QED BY <1>6, <1>7, Zenon DEF After, at, L

\* Names that lead nowhere go on leading nowhere.
LEMMA StepsEnd ==
  ASSUME NEW t, NEW i, NEW names, Len(names) \in Nat, NEW k \in 0 .. Len(names),
         Steps(t, i, names)[k] = {}
  PROVE  Steps(t, i, names)[Len(names)] = {}
<1> DEFINE at == Steps(t, i, names)
           T == {n \in k .. Len(names) : at[n] # {}}
<1>1. \A n \in 1 .. Len(names) : at[n - 1] = {} => at[n] = {}
  <2>1. \A n \in 1 .. Len(names) :
          at[n] = UNION {Hop(t, j, names[n]) : j \in at[n - 1]}
    BY StepsIs
  <2> QED BY <2>1
<1> HIDE DEF at
<1>2. T = {}
  <2> SUFFICES ASSUME T # {} PROVE FALSE
    BY Zenon
  <2>1. T \in SUBSET Nat
    OBVIOUS
  <2>2. PICK n \in T : \A y \in T : n <= y
    BY <2>1, LeastIs, Zenon
  <2>3. n # k
    BY Zenon DEF at
  <2>4. n - 1 \in k .. Len(names) /\ n \in 1 .. Len(names)
    BY <2>3
  <2>5. at[n - 1] = {}
    BY <2>2, <2>4
  <2> QED BY <1>1, <2>4, <2>5, Zenon
<1> QED BY <1>2 DEF at

\* What a path leads to depends on the names up to there.
LEMMA StepsPrefix ==
  ASSUME NEW t, NEW i, NEW a, NEW b, Len(a) \in Nat, Len(b) \in Nat,
         NEW n \in 0 .. Len(a), n <= Len(b), \A k \in 1 .. n : a[k] = b[k]
  PROVE  Steps(t, i, a)[n] = Steps(t, i, b)[n]
<1> DEFINE A == Steps(t, i, a)
           B == Steps(t, i, b)
           T == {k \in 0 .. n : A[k] # B[k]}
<1>1. A[0] = B[0]
  <2>1. A[0] = {i}
    BY StepsIs
  <2>2. B[0] = {i}
    BY StepsIs
  <2> QED BY <2>1, <2>2, Zenon
<1>2. ASSUME NEW k \in 1 .. n, A[k - 1] = B[k - 1] PROVE A[k] = B[k]
  <2>1. k \in 1 .. Len(a) /\ k \in 1 .. Len(b)
    OBVIOUS
  <2>2. a[k] = b[k]
    BY Zenon
  <2>3. /\ A[k] = UNION {Hop(t, j, a[k]) : j \in A[k - 1]}
        /\ B[k] = UNION {Hop(t, j, b[k]) : j \in B[k - 1]}
    BY <2>1, StepsIs
  <2> QED BY <1>2, <2>2, <2>3, Zenon
<1> HIDE DEF A, B
<1>3. T = {}
  <2> SUFFICES ASSUME T # {} PROVE FALSE
    BY Zenon
  <2>1. T \in SUBSET Nat
    OBVIOUS
  <2>2. PICK k \in T : \A y \in T : k <= y
    BY <2>1, LeastIs, Zenon
  <2>3. k # 0
    BY <1>1, Zenon
  <2>4. k - 1 \in 0 .. n /\ k \in 1 .. n
    BY <2>3
  <2>5. A[k - 1] = B[k - 1]
    BY <2>2, <2>4
  <2> QED BY <1>2, <2>4, <2>5, Zenon
<1> QED BY <1>3 DEF A, B

-----------------------------------------------------------------------------
(* Parents, by induction from the root down.                               *)

\* Where parents never lead in a circle, the list of a node's ancestors exists.
LEMMA AncestryExists ==
  ASSUME NEW K, NEW P \in [K -> K \union {0}], 0 \notin K,
         \A S \in SUBSET K : S # {} => \E n \in S : P[n] \notin S
  PROVE  \E f : f = [n \in K |-> IF P[n] = 0 THEN <<n>> ELSE <<n>> \o f[P[n]]]
<1> DEFINE On(n, s) == <<n>> \o s
           Up(f, n) == IF P[n] = 0 THEN <<n>> ELSE On(n, f[P[n]])
           Is(f, C) == f = [n \in C |-> Up(f, n)]
           Shut(C) == \A n \in C : P[n] \in C \union {0}
           D == {C \in SUBSET K : Shut(C) /\ \E f : Is(f, C)}
           F(C) == CHOOSE f : Is(f, C)
           U == UNION D
           g == [n \in U |-> F(CHOOSE C \in D : n \in C)[n]]
<1> HIDE DEF On
<1>1. \A C \in D : Is(F(C), C)
  BY Zenon
<1>2. \A C \in D : \A n \in C : F(C)[n] = Up(F(C), n)
  <2> SUFFICES ASSUME NEW C \in D, NEW n \in C PROVE F(C)[n] = Up(F(C), n)
    BY Zenon
  <2> DEFINE h == F(C)
  <2>1. h = [m \in C |-> Up(h, m)]
    BY <1>1, Zenon
  <2> HIDE DEF h, Up
  <2>2. h[n] = Up(h, n)
    BY <2>1, Zenon
  <2> QED BY <2>2, Zenon DEF h
<1>3. \A C \in D : C \subseteq K /\ Shut(C)
  BY Zenon
<1> HIDE DEF F, D
\* Two lists agree where both are defined.
<1>4. ASSUME NEW B \in D, NEW C \in D PROVE \A n \in B \intersect C : F(B)[n] = F(C)[n]
  <2> DEFINE S == {n \in B \intersect C : F(B)[n] # F(C)[n]}
  <2> SUFFICES ASSUME S # {} PROVE FALSE
    BY Zenon
  <2>1. S \in SUBSET K
    BY <1>3, Zenon
  <2>2. PICK n \in S : P[n] \notin S
    BY <2>1, Zenon
  <2>3. n \in B /\ n \in C /\ F(B)[n] # F(C)[n]
    BY Zenon
  <2>4. F(B)[n] = Up(F(B), n) /\ F(C)[n] = Up(F(C), n)
    BY <1>2, <2>3, Zenon
  <2>5. P[n] # 0 => P[n] \in B \intersect C
    BY <1>3, <2>3, Zenon
  <2>6. P[n] # 0 => F(B)[P[n]] = F(C)[P[n]]
    BY <2>2, <2>5, Zenon
  <2> QED BY <2>3, <2>4, <2>6, Zenon
\* So they are parts of one list.
<1>5. Shut(U) /\ U \subseteq K
  BY <1>3, Zenon
<1>6. \A C \in D : \A n \in C : g[n] = F(C)[n]
  <2> SUFFICES ASSUME NEW C \in D, NEW n \in C PROVE g[n] = F(C)[n]
    BY Zenon
  <2> DEFINE B == CHOOSE B \in D : n \in B
  <2>1. B \in D /\ n \in B
    BY Zenon
  <2>2. n \in U /\ g[n] = F(B)[n]
    BY Zenon
  <2> HIDE DEF B, g
  <2>3. n \in B \intersect C
    BY <2>1, Zenon
  <2>4. F(B)[n] = F(C)[n]
    BY <1>4, <2>1, <2>3
  <2> QED BY <2>2, <2>4, Zenon
<1>7. g = [n \in U |-> g[n]]
  BY Zenon
<1> HIDE DEF g
<1>8. \A n \in U : g[n] = Up(g, n)
  <2> SUFFICES ASSUME NEW n \in U PROVE g[n] = Up(g, n)
    BY Zenon
  <2>1. PICK C \in D : n \in C
    BY Zenon
  <2>2. g[n] = Up(F(C), n)
    <3>1. g[n] = F(C)[n]
      BY <1>6, <2>1, Zenon
    <3>2. F(C)[n] = Up(F(C), n)
      BY <1>2, <2>1, Zenon
    <3> QED BY <3>1, <3>2, Zenon
  <2>3. P[n] # 0 => P[n] \in C
    BY <1>3, <2>1, Zenon
  <2>4. P[n] # 0 => g[P[n]] = F(C)[P[n]]
    BY <1>6, <2>1, <2>3, Zenon
  <2> QED BY <2>2, <2>4, Zenon
<1> HIDE DEF U
\* And that list leaves nobody out.
<1>9. U = K
  <2> SUFFICES ASSUME K \ U # {} PROVE FALSE
    BY <1>5, Zenon
  <2>1. PICK m \in K \ U : P[m] \notin K \ U
    BY Zenon
  <2>2. P[m] \in U \union {0}
    BY <2>1, Zenon
  <2> DEFINE V == U \union {m}
             h == [n \in V |-> IF n = m THEN Up(g, m) ELSE g[n]]
  <2>3. \A n \in U : h[n] = g[n]
    BY <2>1, Zenon
  <2>4. h[m] = Up(g, m) /\ h = [n \in V |-> h[n]]
    BY Zenon
  <2> HIDE DEF h
  <2>5. \A n \in V : P[n] \in U \union {0}
    BY <1>5, <2>2, Zenon
  <2>6. \A n \in V : Up(h, n) = Up(g, n)
    BY <2>3, <2>5, Zenon
  <2>7. \A n \in V : h[n] = Up(h, n)
    <3> HIDE DEF Up
    <3> QED BY <1>8, <2>3, <2>4, <2>6, Zenon
  <2>8. Is(h, V)
    <3> HIDE DEF Up, V
    <3> QED BY <2>4, <2>7, Zenon
  <2>9. V \in SUBSET K /\ Shut(V)
    BY <1>5, <2>1, <2>5, Zenon
  <2>10. V \in D
    BY <2>8, <2>9, Zenon DEF D
  <2> QED BY <2>1, <2>10 DEF U
<1>10. Is(g, K)
  <2> HIDE DEF Up
  <2> QED BY <1>7, <1>8, <1>9, Zenon
<1> QED BY <1>10, Zenon DEF On

-----------------------------------------------------------------------------
(* The invariant about the tree: what nodes stand for, and where a walk is. *)

\* A set of nodes that has the parents of its members.
HasParents(m, C) == \A n \in C : m[n].parent \in C \union {0}

\* The node and those above it belong to a set of nodes.
Within(m, K, n) == \E C \in SUBSET K : n \in C /\ HasParents(m, C)

\* Going from parent to parent one comes to an end.
NoCircle(m, K) == \A S \in SUBSET K : S # {} => \E n \in S : m[n].parent \notin S

\* A node is a copy of an entry in the directory that its parent stands for.
IsCopy(t, m, n) ==
  \E e \in t : /\ e.dir = m[m[n].parent].ino /\ e.name = m[n].name
               /\ e.kind = m[n].kind /\ e.ino = m[n].ino

IsRoot(m, n) == m[n].parent = 0 /\ m[n].ino = RootIno /\ m[n].kind = "dir"

NodesTied ==
  /\ HasParents(mem, Known) /\ NoCircle(mem, Known)
  /\ gone \subseteq Known
  /\ RootId \in Known /\ IsRoot(mem, RootId)
  /\ \A n \in Known : \/ IsRoot(mem, n)
                      \/ mem[n].parent # 0 /\ (n \in gone \/ IsCopy(tree, mem, n))

\* What the kernel points to is there.
PointersOK ==
  /\ cwd \in Known \union {0}
  /\ \A f \in Fds : fds[f].node \in Known \union {0}
  /\ walk.cur \in Known \union {0} /\ walk.from \in Known \union {0}

\* A walk from a directory that is still in the tree stands where its names
\* so far lead, and nowhere else unless there are two entries of one name.
OnTheWay(t, m, K, w, point, at, n) ==
  /\ w.cur # 0 =>
       /\ w.at <= n + 1 /\ (point = w.then => w.at = n + 1)
       /\ Within(m, K, w.cur)
       /\ m[w.cur].ino \in at[w.at - 1]
       /\ Distinct(t) => \A i \in at[w.at - 1] : i = m[w.cur].ino
  /\ w.cur = 0 =>
       w.nomem \/ ~ Distinct(t) \/ (w.at <= n /\ at[w.at] = {})

Walking ==
  /\ pc \in {"walk", walk.then} /\ walk.from # 0 /\ cwd # 0
  /\ Within(mem, Known \ gone, walk.from)

WalkAgrees ==
  Walking => OnTheWay(tree, mem, Known \ gone, walk, pc,
                      Steps(tree, mem[walk.from].ino, walk.path.names),
                      Len(walk.path.names))

TreeInv == IsTree(tree) /\ NodesTied /\ PointersOK /\ WalkAgrees

-----------------------------------------------------------------------------
(* Lineages.                                                               *)

\* Lineage is what its definition says.
LEMMA LineageIs ==
  ASSUME NodesOK, NodesTied, NEW n \in Ids
  PROVE  Lineage[n] = IF mem[n].parent = 0 THEN <<n>>
                      ELSE <<n>> \o Lineage[mem[n].parent]
<1> DEFINE P == [i \in Ids |-> mem[i].parent]
<1>1. \A i \in Known : mem[i].parent \in Known \union {0}
  BY Zenon DEF NodesTied, HasParents
<1>2. \A i \in Ids \ Known : mem[i].parent = 0
  <2>1. Nil.parent = 0
    BY Zenon DEF Nil
  <2> QED BY <2>1, Zenon DEF Known
<1>3. 0 \notin Ids
  BY VfsAssumption, Zenon
<1>4. P \in [Ids -> Ids \union {0}]
  BY <1>1, <1>2, Zenon DEF Known
<1>5. ASSUME NEW S \in SUBSET Ids, S # {} PROVE \E i \in S : P[i] \notin S
  <2>1. CASE S \intersect Known = {}
    BY <1>2, <1>3, <1>5, <2>1
  <2>2. CASE S \intersect Known # {}
    <3>1. S \intersect Known \in SUBSET Known
      BY Zenon
    <3>2. PICK i \in S \intersect Known : mem[i].parent \notin S \intersect Known
      BY <2>2, <3>1, Zenon DEF NodesTied, NoCircle
    <3> QED BY <1>1, <1>3, <3>2, Zenon
  <2> QED BY <2>1, <2>2, Zenon
<1>6. PICK f : f = [i \in Ids |-> IF P[i] = 0 THEN <<i>> ELSE <<i>> \o f[P[i]]]
  <2>1. \A S \in SUBSET Ids : S # {} => \E i \in S : P[i] \notin S
    BY <1>5, Zenon
  <2> HIDE DEF P
  <2> QED BY <1>3, <1>4, <2>1, AncestryExists
<1>7. f = [i \in Ids |-> IF mem[i].parent = 0 THEN <<i>>
                         ELSE <<i>> \o f[mem[i].parent]]
  <2>1. \A i \in Ids : P[i] = mem[i].parent
    BY Zenon
  <2> HIDE DEF P
  <2> QED BY <1>6, <2>1, Zenon
<1>8. Lineage = [i \in Ids |-> IF mem[i].parent = 0 THEN <<i>>
                               ELSE <<i>> \o Lineage[mem[i].parent]]
  BY <1>7, Zenon DEF Lineage
<1> QED BY <1>8, Zenon

\* A lineage begins with its node, and has the parent of everyone on it.
IsLineage(l, n) ==
  /\ l \in Seq(Ids) /\ Len(l) >= 1 /\ l[1] = n
  /\ Range(l) \subseteq Known /\ HasParents(mem, Range(l))

LEMMA LineageHas ==
  ASSUME NodesOK, NodesTied, NEW n \in Known PROVE IsLineage(Lineage[n], n)
<1> DEFINE S == {i \in Known : ~ IsLineage(Lineage[i], i)}
<1>1. S = {}
  <2> SUFFICES ASSUME S # {} PROVE FALSE
    BY Zenon
  <2>1. S \in SUBSET Known
    BY Zenon
  <2>2. PICK i \in S : mem[i].parent \notin S
    BY <2>1, Zenon DEF NodesTied, NoCircle
  <2> DEFINE p == mem[i].parent
             l == Lineage[p]
  <2>3. i \in Known /\ i \in Ids /\ p \in Known \union {0}
    BY Zenon DEF NodesTied, HasParents, Known
  <2>4. Lineage[i] = IF p = 0 THEN <<i>> ELSE <<i>> \o l
    BY <2>3, LineageIs, Zenon
  <2>5. CASE p = 0
    <3>1. Lineage[i] = <<i>>
      BY <2>4, <2>5, Zenon
    <3>2. Range(<<i>>) = {i}
      BY DEF Range
    <3>3. IsLineage(<<i>>, i)
      BY <2>3, <2>5, <3>2 DEF IsLineage, HasParents
    <3> QED BY <3>1, <3>3, Zenon
  <2>6. CASE p # 0
    <3>1. IsLineage(l, p)
      BY <2>2, <2>3, <2>6, Zenon
    <3>2. Lineage[i] = <<i>> \o l
      BY <2>4, <2>6, Zenon
    <3> HIDE DEF p, l
    <3>3. /\ l \in Seq(Ids) /\ Len(l) >= 1 /\ l[1] = p
          /\ Range(l) \subseteq Known /\ HasParents(mem, Range(l))
      BY <3>1, Zenon DEF IsLineage
    <3>4. /\ <<i>> \o l \in Seq(Ids) /\ Len(<<i>> \o l) = Len(l) + 1
          /\ (<<i>> \o l)[1] = i
          /\ \A k \in 1 .. Len(l) : (<<i>> \o l)[k + 1] = l[k]
      BY <2>3, <3>3
    <3>5. Range(<<i>> \o l) = {i} \union Range(l)
      <4> DEFINE s == <<i>> \o l
      <4>1. /\ DOMAIN s = 1 .. Len(l) + 1 /\ DOMAIN l = 1 .. Len(l) /\ Len(l) \in Nat
        BY <3>3, <3>4
      <4> HIDE DEF s
      <4>2. ASSUME NEW k \in DOMAIN s PROVE s[k] \in {i} \union {l[j] : j \in DOMAIN l}
        <5>1. CASE k = 1
          BY <3>4, <5>1, Zenon DEF s
        <5>2. CASE k # 1
          <6>1. k - 1 \in 1 .. Len(l) /\ (k - 1) + 1 = k
            BY <4>1, <5>2
          <6>2. s[k] = l[k - 1]
            BY <3>4, <6>1, Zenon DEF s
          <6> QED BY <4>1, <6>1, <6>2, Zenon
        <5> QED BY <5>1, <5>2, Zenon
      <4>3. i \in {s[k] : k \in DOMAIN s}
        BY <3>4, <4>1 DEF s
      <4>4. ASSUME NEW j \in DOMAIN l PROVE l[j] \in {s[k] : k \in DOMAIN s}
        <5>1. j + 1 \in DOMAIN s /\ s[j + 1] = l[j]
          BY <3>4, <4>1 DEF s
        <5> QED BY <5>1, Zenon
      <4> QED BY <4>2, <4>3, <4>4, Zenon DEF Range, s
    <3>6. p \in Range(l)
      BY <3>3 DEF Range
    <3>7. Range(<<i>> \o l) \subseteq Known /\ HasParents(mem, Range(<<i>> \o l))
      <4> HIDE DEF p
      <4>1. p = mem[i].parent
        BY Zenon DEF p
      <4> QED BY <2>3, <3>3, <3>5, <3>6, <4>1, Zenon DEF HasParents
    <3>8. Len(<<i>> \o l) >= 1
      BY <3>3, <3>4
    <3>9. IsLineage(<<i>> \o l, i)
      BY <3>4, <3>7, <3>8, Zenon DEF IsLineage
    <3> QED BY <3>2, <3>9, Zenon
  <2> QED BY <2>5, <2>6, Zenon
<1> QED BY <1>1, Zenon

-----------------------------------------------------------------------------
(* Nodes and pointers.                                                     *)

\* Entries that are added take nothing from the nodes.
LEMMA TiedKept ==
  ASSUME NodesTied, mem' = mem, gone' = gone, tree \subseteq tree' PROVE NodesTied'
<1>1. Known' = Known
  BY Zenon DEF Known
<1>2. \A n : IsCopy(tree, mem, n) => IsCopy(tree', mem, n)
  BY Zenon DEF IsCopy
<1> QED BY <1>1, <1>2, Zenon DEF NodesTied

\* The nodes of an entry that is removed are gone.
LEMMA TiedRemoved ==
  ASSUME NodesTied, mem' = mem, NEW e \in tree, tree' = tree \ {e},
         gone' = gone \union {i \in Known : mem[i].ino = e.ino}
  PROVE  NodesTied'
<1>1. Known' = Known
  BY Zenon DEF Known
<1>2. \A n \in Known \ gone' : IsCopy(tree, mem, n) => IsCopy(tree', mem, n)
  BY Zenon DEF IsCopy
<1>3. gone' \subseteq Known /\ gone \subseteq gone'
  BY Zenon DEF NodesTied
<1> QED BY <1>1, <1>2, <1>3, Zenon DEF NodesTied

\* A call that ends.
LEMMA EndsTree ==
  ASSUME WalkOK, PointersOK, IsTree(tree'), NodesTied', mem' = mem, walk' = walk,
         cwd' \in Known \union {0}, \A f \in Fds : fds'[f].node \in Known \union {0},
         pc' \notin Thens \union {"walk", "none"}
  PROVE  TreeInv'
<1>1. Known' = Known
  BY Zenon DEF Known
<1>2. PointersOK'
  BY <1>1, Zenon DEF PointersOK
<1>3. ~ Walking'
  BY Zenon DEF Walking, WalkOK
<1> QED BY <1>2, <1>3, Zenon DEF TreeInv, WalkAgrees

\* A walk that begins.
LEMMA ResolvesTree ==
  ASSUME PointersOK, IsTree(tree'), NodesTied', mem' = mem, cwd' = cwd, fds' = fds,
         NEW path, path.names \in Seq(Tokens), NEW then \in Thens,
         vfs_resolve_path(path, then)
  PROVE  TreeInv'
<1> DEFINE from == IF path.abs THEN RootId ELSE cwd
<1>1. /\ pc' = IF cwd = 0 THEN then ELSE "walk"
      /\ walk' = [then |-> then, path |-> path, at |-> 1,
                  from |-> from, cur |-> IF cwd = 0 THEN 0 ELSE from,
                  owned |-> FALSE, nomem |-> FALSE, before |-> live]
  BY Zenon DEF vfs_resolve_path
<1>2. Known' = Known
  BY Zenon DEF Known
<1>3. from \in Known \union {0}
  BY <1>2, Zenon DEF PointersOK, NodesTied
<1> HIDE DEF from
<1>4. /\ walk'.then = then /\ walk'.at = 1 /\ walk'.path = path
      /\ walk'.from = from /\ walk'.cur = (IF cwd = 0 THEN 0 ELSE from)
  BY <1>1, Zenon
<1>5. PointersOK'
  BY <1>2, <1>3, <1>4, Zenon DEF PointersOK
<1>6. ASSUME Walking'
      PROVE  OnTheWay(tree', mem', Known' \ gone', walk', pc',
                      Steps(tree', mem'[walk'.from].ino, walk'.path.names),
                      Len(walk'.path.names))
  <2> DEFINE at == Steps(tree', mem'[walk'.from].ino, walk'.path.names)
             n == Len(walk'.path.names)
  <2>1. cwd # 0 /\ walk'.cur = walk'.from /\ walk'.cur # 0 /\ pc' = "walk"
    BY <1>1, <1>4, <1>6, Zenon DEF Walking
  <2>2. n \in Nat
    BY <1>4
  <2>3. at[0] = {mem'[walk'.from].ino}
    <3> HIDE DEF n
    <3>1. Len(walk'.path.names) \in Nat
      BY <2>2, Zenon DEF n
    <3> QED BY <3>1, StepsIs
  <2>4. walk'.then # "walk" /\ walk'.at = 1
    BY <1>4, Zenon DEF Thens, Ops
  <2>5. Within(mem', Known' \ gone', walk'.cur)
    BY <1>6, <2>1, Zenon DEF Walking
  <2> HIDE DEF at, n
  <2>6. walk'.at - 1 = 0 /\ walk'.at <= n + 1
    BY <2>2, <2>4
  <2> QED BY <2>1, <2>3, <2>4, <2>5, <2>6, Zenon DEF OnTheWay, at, n
<1> QED BY <1>5, <1>6, Zenon DEF TreeInv, WalkAgrees

-----------------------------------------------------------------------------
(* The steps of a walk.                                                    *)

LEMMA Advance ==
  ASSUME NEW t, NEW i, NEW names, Len(names) \in Nat, NEW k \in 1 .. Len(names),
         NEW x \in Steps(t, i, names)[k - 1], NEW y \in Hop(t, x, names[k])
  PROVE  y \in Steps(t, i, names)[k]
<1> DEFINE A == Steps(t, i, names)[k - 1]
           B == Steps(t, i, names)[k]
<1>1. B = UNION {Hop(t, j, names[k]) : j \in A}
  BY StepsIs
<1>2. x \in A
  BY Zenon
<1> HIDE DEF A, B
<1>3. y \in B
  BY <1>1, <1>2, Zenon
<1> QED BY <1>3, Zenon DEF B

LEMMA AdvancedFrom ==
  ASSUME NEW t, NEW i, NEW names, Len(names) \in Nat, NEW k \in 1 .. Len(names),
         NEW y \in Steps(t, i, names)[k]
  PROVE  \E x \in Steps(t, i, names)[k - 1] : y \in Hop(t, x, names[k])
<1> DEFINE A == Steps(t, i, names)[k - 1]
           B == Steps(t, i, names)[k]
<1>1. B = UNION {Hop(t, j, names[k]) : j \in A}
  BY StepsIs
<1>2. y \in B
  BY Zenon
<1> HIDE DEF A, B
<1>3. \E x \in A : y \in Hop(t, x, names[k])
  BY <1>1, <1>2, Zenon
<1> QED BY <1>3, Zenon DEF A

\* In the tree a directory has one parent, the root itself.
LEMMA HopUp ==
  ASSUME NEW t, IsTree(t)
  PROVE  /\ Hop(t, RootIno, "..") = {RootIno}
         /\ \A e \in t : Hop(t, e.ino, "..") = {e.dir}
<1>1. Hop(t, RootIno, "..") = {RootIno}
  BY Zenon DEF Hop
<1>2. ASSUME NEW e \in t PROVE Hop(t, e.ino, "..") = {e.dir}
  <2>1. e.ino # RootIno /\ \A f \in t : f.ino = e.ino => f = e
    BY Zenon DEF IsTree, RootIno
  <2>2. Hop(t, e.ino, "..") = {x.dir : x \in {f \in t : f.ino = e.ino}}
    BY <2>1, Zenon DEF Hop
  <2>3. {f \in t : f.ino = e.ino} = {e}
    BY <2>1, Zenon
  <2> QED BY <2>2, <2>3, Zenon
<1> QED BY <1>1, <1>2, Zenon

\* A file has nothing below it.
LEMMA HopFile ==
  ASSUME NEW t, IsTree(t), NEW e \in t, e.kind # "dir", NEW token,
         token \notin {".", ".."}
  PROVE  Hop(t, e.ino, token) = {}
<1>1. Hop(t, e.ino, token) = {x.ino : x \in {f \in t : f.dir = e.ino /\ f.name = token}}
  BY Zenon DEF Hop
<1>2. \A f \in t : f.dir # e.ino
  BY DEF IsTree
<1> QED BY <1>1, <1>2, Zenon

\* A step of a walk that makes no node: it suffices to look at the walk.
LEMMA WalkStep ==
  ASSUME TreeInv, pc = "walk", UNCHANGED <<tree, mem, gone, cwd, fds>>,
         walk'.from = walk.from, walk'.path = walk.path,
         walk'.cur \in Known \union {0},
         Walking =>
           OnTheWay(tree, mem, Known \ gone, walk', pc',
                    Steps(tree, mem[walk.from].ino, walk.path.names),
                    Len(walk.path.names))
  PROVE  TreeInv'
<1>1. Known' = Known
  BY Zenon DEF Known
<1>2. NodesTied'
  BY TiedKept, Zenon DEF TreeInv
<1>3. PointersOK'
  BY <1>1, Zenon DEF TreeInv, PointersOK
<1>4. Walking' => Walking
  BY <1>1, Zenon DEF Walking
<1>5. WalkAgrees'
  BY <1>1, <1>4, Zenon DEF WalkAgrees
<1>6. IsTree(tree')
  BY Zenon DEF TreeInv
<1> QED BY <1>2, <1>3, <1>5, <1>6, Zenon DEF TreeInv

LEMMA WalkEndTree == ASSUME VfsInv, TreeInv, walk_end PROVE TreeInv'
<1> DEFINE at == Steps(tree, mem[walk.from].ino, walk.path.names)
           n == Len(walk.path.names)
<1>1. /\ pc = "walk" /\ ~ (walk.at <= n) /\ walk' = walk
      /\ UNCHANGED <<tree, mem, gone, cwd, fds>>
  BY Zenon DEF walk_end, More, calling, table
<1>2. walk.cur # 0 /\ walk.at \in Nat /\ n \in Nat
  BY <1>1 DEF VfsInv, WalkOK
<1>3. walk.cur \in Known \union {0}
  BY Zenon DEF TreeInv, PointersOK
<1>4. ASSUME Walking PROVE OnTheWay(tree, mem, Known \ gone, walk', pc', at, n)
  <2>1. OnTheWay(tree, mem, Known \ gone, walk, pc, at, n)
    BY <1>4, Zenon DEF TreeInv, WalkAgrees
  <2> HIDE DEF at, n
  <2> QED BY <1>1, <1>2, <2>1 DEF OnTheWay
<1> QED BY <1>1, <1>3, <1>4, WalkStep, Zenon

\* What a walk with a token left knows.
LEMMA WalkNow ==
  ASSUME VfsInv, TreeInv, More, Walking
  PROVE  LET at == Steps(tree, mem[walk.from].ino, walk.path.names)
         IN  /\ walk.at \in 1 .. Len(walk.path.names)
             /\ Within(mem, Known \ gone, walk.cur)
             /\ mem[walk.cur].ino \in at[walk.at - 1]
             /\ Distinct(tree) => \A i \in at[walk.at - 1] : i = mem[walk.cur].ino
<1> DEFINE at == Steps(tree, mem[walk.from].ino, walk.path.names)
           n == Len(walk.path.names)
<1>1. pc = "walk" /\ walk.at <= n
  BY Zenon DEF More
<1>2. walk.cur # 0 /\ walk.at \in Nat \ {0} /\ n \in Nat
  BY <1>1 DEF VfsInv, WalkOK
<1>3. OnTheWay(tree, mem, Known \ gone, walk, pc, at, n)
  BY Zenon DEF TreeInv, WalkAgrees
<1> HIDE DEF at
<1>4. walk.at \in 1 .. n
  BY <1>1, <1>2
<1>5. /\ Within(mem, Known \ gone, walk.cur)
      /\ mem[walk.cur].ino \in at[walk.at - 1]
      /\ Distinct(tree) => \A i \in at[walk.at - 1] : i = mem[walk.cur].ino
  BY <1>2, <1>3, Zenon DEF OnTheWay
<1> QED BY <1>4, <1>5, Zenon DEF at

\* The walk goes one name further, to a node it knows.
LEMMA WalkOn ==
  ASSUME VfsInv, TreeInv, More, Walking, NEW m, NEW K, NEW w, NEW y,
         m[walk.from].ino = mem[walk.from].ino, m[w.cur].ino = y, w.cur # 0,
         w.at = walk.at + 1, w.then = walk.then, Within(m, K, w.cur),
         y \in Hop(tree, mem[walk.cur].ino, Token),
         Distinct(tree) => \A z \in Hop(tree, mem[walk.cur].ino, Token) : z = y
  PROVE  OnTheWay(tree, m, K, w, "walk",
                  Steps(tree, m[walk.from].ino, walk.path.names),
                  Len(walk.path.names))
<1> DEFINE i == mem[walk.from].ino
           names == walk.path.names
           x == mem[walk.cur].ino
           at == Steps(tree, i, names)
<1>1. /\ walk.at \in 1 .. Len(names) /\ x \in at[walk.at - 1]
      /\ Distinct(tree) => \A z \in at[walk.at - 1] : z = x
  BY WalkNow, Zenon
<1>2. Len(names) \in Nat
  BY DEF VfsInv, WalkOK
<1>3. /\ y \in Hop(tree, x, names[walk.at])
      /\ Distinct(tree) => \A z \in Hop(tree, x, names[walk.at]) : z = y
  BY Zenon DEF Token
<1> HIDE DEF i, names, x
<1>4. /\ y \in at[walk.at]
      /\ Distinct(tree) => \A z \in at[walk.at] : z = y
  <2>1. y \in at[walk.at]
    BY <1>1, <1>2, <1>3, Advance, Zenon
  <2>2. ASSUME Distinct(tree), NEW z \in at[walk.at] PROVE z = y
    <3>1. PICK v \in at[walk.at - 1] : z \in Hop(tree, v, names[walk.at])
      BY <1>1, <1>2, <2>2, AdvancedFrom, Zenon
    <3> HIDE DEF at
    <3> QED BY <1>1, <1>3, <2>2, <3>1, Zenon
  <2> QED BY <2>1, <2>2, Zenon
<1>5. walk.then # "walk"
  BY Zenon DEF VfsInv, WalkOK, Thens, Ops
<1> HIDE DEF at
<1>6. w.at <= Len(names) + 1 /\ w.at - 1 = walk.at
  <2>1. walk.at \in 1 .. Len(names) /\ w.at = walk.at + 1 /\ Len(names) \in Nat
    BY <1>1, <1>2, Zenon
  <2> HIDE DEF names
  <2> QED BY <2>1
<1>7. OnTheWay(tree, m, K, w, "walk", at, Len(names))
  BY <1>4, <1>5, <1>6, Zenon DEF OnTheWay
<1> QED BY <1>7, Zenon DEF at, i, names

LEMMA WalkHereTree == ASSUME VfsInv, TreeInv, walk_here PROVE TreeInv'
<1>1. /\ More /\ pc = "walk" /\ pc' = "walk" /\ Token = "."
      /\ walk' = [walk EXCEPT !.at = @ + 1]
      /\ UNCHANGED <<tree, mem, gone, cwd, fds>>
  BY Zenon DEF walk_here, More, calling, table
<1>2. /\ walk'.from = walk.from /\ walk'.path = walk.path /\ walk'.cur = walk.cur
      /\ walk'.then = walk.then /\ walk'.at = walk.at + 1 /\ walk.cur # 0
  BY <1>1, Zenon DEF VfsInv, WalkOK
<1>3. walk.cur \in Known \union {0}
  BY Zenon DEF TreeInv, PointersOK
<1>4. Hop(tree, mem[walk.cur].ino, Token) = {mem[walk.cur].ino}
  BY <1>1, Zenon DEF Hop
<1>5. ASSUME Walking
      PROVE  OnTheWay(tree, mem, Known \ gone, walk', pc',
                      Steps(tree, mem[walk.from].ino, walk.path.names),
                      Len(walk.path.names))
  <2>1. Within(mem, Known \ gone, walk'.cur)
    BY <1>1, <1>2, <1>5, WalkNow, Zenon
  <2>2. /\ mem[walk'.cur].ino = mem[walk.cur].ino
        /\ mem[walk.cur].ino \in Hop(tree, mem[walk.cur].ino, Token)
    BY <1>2, <1>4, Zenon
  <2> QED BY <1>1, <1>2, <1>4, <1>5, <2>1, <2>2, WalkOn, Zenon
<1> QED BY <1>1, <1>2, <1>3, <1>5, WalkStep

\* Where a node that is still in the tree stands: its parent is one too, and is
\* the directory its entry is in.
LEMMA ParentIs ==
  ASSUME TreeInv, NEW n, Within(mem, Known \ gone, n)
  PROVE  /\ n \in Known /\ mem[n].parent \in Known \union {0}
         /\ mem[n].parent = 0 => mem[n].ino = RootIno /\ mem[n].kind = "dir"
         /\ mem[n].parent # 0 =>
              /\ Within(mem, Known \ gone, mem[n].parent)
              /\ \E e \in tree : /\ e.ino = mem[n].ino /\ e.kind = mem[n].kind
                                 /\ e.dir = mem[mem[n].parent].ino
                                 /\ e.name = mem[n].name
<1>1. PICK C \in SUBSET (Known \ gone) : n \in C /\ HasParents(mem, C)
  BY Zenon DEF Within
<1>2. n \in Known /\ n \notin gone /\ mem[n].parent \in C \union {0}
  BY <1>1, Zenon DEF HasParents
<1>3. mem[n].parent \in Known \union {0}
  BY <1>2, Zenon
<1>4. \/ IsRoot(mem, n)
      \/ mem[n].parent # 0 /\ IsCopy(tree, mem, n)
  BY <1>2, Zenon DEF TreeInv, NodesTied
<1>5. mem[n].parent = 0 => mem[n].ino = RootIno /\ mem[n].kind = "dir"
  BY <1>4, Zenon DEF IsRoot
<1>6. ASSUME mem[n].parent # 0
      PROVE  /\ Within(mem, Known \ gone, mem[n].parent)
             /\ \E e \in tree : /\ e.ino = mem[n].ino /\ e.kind = mem[n].kind
                                /\ e.dir = mem[mem[n].parent].ino
                                /\ e.name = mem[n].name
  <2>1. mem[n].parent \in C
    BY <1>2, <1>6, Zenon
  <2>2. IsCopy(tree, mem, n)
    BY <1>4, <1>6, Zenon DEF IsRoot
  <2> QED BY <1>1, <2>1, <2>2, Zenon DEF Within, IsCopy
<1> QED BY <1>2, <1>3, <1>5, <1>6, Zenon

LEMMA WalkUpTree == ASSUME VfsInv, TreeInv, walk_up PROVE TreeInv'
<1> DEFINE p == mem[walk.cur].parent
           c == IF p # 0 THEN p ELSE walk.cur
<1>1. /\ More /\ pc = "walk" /\ pc' = "walk" /\ Token = ".."
      /\ UNCHANGED <<tree, mem, gone, cwd, fds>>
  BY Zenon DEF walk_up, More, calling, table
<1>2. \/ p # 0 /\ walk' = [walk EXCEPT !.at = @ + 1, !.cur = p, !.owned = FALSE]
      \/ p = 0 /\ walk' = [walk EXCEPT !.at = @ + 1]
  BY Zenon DEF walk_up
<1> HIDE DEF p
<1>3. /\ walk'.from = walk.from /\ walk'.path = walk.path /\ walk'.cur = c
      /\ walk'.then = walk.then /\ walk'.at = walk.at + 1 /\ walk.cur # 0
  BY <1>1, <1>2, Zenon DEF VfsInv, WalkOK
<1>4. walk.cur \in Known /\ p \in Known \union {0}
  BY <1>3, Zenon DEF TreeInv, PointersOK, NodesTied, HasParents, p
<1>5. ASSUME Walking
      PROVE  OnTheWay(tree, mem, Known \ gone, walk', pc',
                      Steps(tree, mem[walk.from].ino, walk.path.names),
                      Len(walk.path.names))
  <2>1. Within(mem, Known \ gone, walk.cur)
    BY <1>1, <1>5, WalkNow, Zenon
  <2>2. /\ Within(mem, Known \ gone, c)
        /\ Hop(tree, mem[walk.cur].ino, Token) = {mem[c].ino}
    <3>1. CASE p = 0
      <4>1. mem[walk.cur].ino = RootIno
        BY <2>1, <3>1, ParentIs, Zenon DEF p
      <4>2. Hop(tree, RootIno, "..") = {RootIno}
        BY HopUp, Zenon DEF TreeInv
      <4> QED BY <1>1, <2>1, <3>1, <4>1, <4>2
    <3>2. CASE p # 0
      <4>1. PICK e \in tree : /\ e.ino = mem[walk.cur].ino /\ e.dir = mem[p].ino
        BY <2>1, <3>2, ParentIs, Zenon DEF p
      <4>2. Hop(tree, e.ino, "..") = {e.dir}
        BY HopUp, Zenon DEF TreeInv
      <4>3. Within(mem, Known \ gone, p)
        BY <2>1, <3>2, ParentIs, Zenon DEF p
      <4> QED BY <1>1, <3>2, <4>1, <4>2, <4>3
    <3> QED BY <3>1, <3>2, Zenon
  <2>3. mem[c].ino \in Hop(tree, mem[walk.cur].ino, Token) /\ c # 0
    BY <1>3, <2>2, Zenon
  <2> HIDE DEF c
  <2> QED BY <1>1, <1>3, <1>5, <2>2, <2>3, WalkOn, Zenon
<1>6. walk'.cur \in Known \union {0}
  BY <1>3, <1>4, Zenon
<1> QED BY <1>1, <1>3, <1>5, <1>6, WalkStep

\* A walk that fails where nothing has the next name.
LEMMA WalkFailsTree ==
  ASSUME VfsInv, TreeInv, More, NEW nomem, WalkFails(nomem),
         UNCHANGED <<tree, mem, gone, cwd, fds>>,
         nomem \/ (Walking => Hop(tree, mem[walk.cur].ino, Token) = {})
  PROVE  TreeInv'
<1> DEFINE i == mem[walk.from].ino
           names == walk.path.names
           at == Steps(tree, i, names)
<1>1. /\ pc = "walk" /\ walk.at <= Len(names) /\ pc' = walk.then
      /\ walk' = [walk EXCEPT !.cur = 0, !.owned = FALSE, !.nomem = nomem]
  BY Zenon DEF WalkFails, More
<1>2. /\ walk'.from = walk.from /\ walk'.path = walk.path /\ walk'.cur = 0
      /\ walk'.nomem = nomem /\ walk'.at = walk.at
  BY <1>1, Zenon DEF VfsInv, WalkOK
<1>3. ASSUME Walking
      PROVE  OnTheWay(tree, mem, Known \ gone, walk', pc', at, Len(names))
  <2>1. CASE nomem
    BY <1>2, <2>1, Zenon DEF OnTheWay
  <2>2. CASE Hop(tree, mem[walk.cur].ino, Token) = {}
    <3>1. /\ walk.at \in 1 .. Len(names)
          /\ Distinct(tree) => \A x \in at[walk.at - 1] : x = mem[walk.cur].ino
      BY <1>3, WalkNow, Zenon
    <3>2. Len(names) \in Nat /\ Token = names[walk.at]
      BY DEF VfsInv, WalkOK, Token
    <3>3. ASSUME Distinct(tree) PROVE at[walk.at] = {}
      <4> SUFFICES ASSUME NEW y \in at[walk.at] PROVE FALSE
        BY Zenon
      <4> HIDE DEF i, names
      <4>1. PICK x \in at[walk.at - 1] : y \in Hop(tree, x, names[walk.at])
        BY <3>1, <3>2, AdvancedFrom, Zenon
      <4> HIDE DEF at
      <4> QED BY <2>2, <3>1, <3>2, <3>3, <4>1, Zenon
    <3> HIDE DEF at
    <3> QED BY <1>1, <1>2, <3>3, Zenon DEF OnTheWay
  <2> QED BY <1>3, <2>1, <2>2, Zenon
<1>4. walk'.cur \in Known \union {0}
  BY <1>2, Zenon
<1> QED BY <1>1, <1>2, <1>3, <1>4, WalkStep, Zenon

LEMMA HopInto ==
  ASSUME NEW n, NEW token, token \notin {".", ".."}
  PROVE  Hop(tree, mem[n].ino, token) = {e.ino : e \in Matches(n, token)}
BY Zenon DEF Hop, Matches

LEMMA WalkNotDirectoryTree == ASSUME VfsInv, TreeInv, walk_not_directory PROVE TreeInv'
<1>1. /\ More /\ Token \notin {".", ".."} /\ mem[walk.cur].kind # "dir"
      /\ WalkFails(FALSE) /\ UNCHANGED <<tree, mem, gone, cwd, fds>>
  BY Zenon DEF walk_not_directory, Into, calling, table
<1>2. ASSUME Walking PROVE Hop(tree, mem[walk.cur].ino, Token) = {}
  <2>1. Within(mem, Known \ gone, walk.cur)
    BY <1>1, <1>2, WalkNow, Zenon
  <2>2. PICK e \in tree : e.ino = mem[walk.cur].ino /\ e.kind = mem[walk.cur].kind
    BY <1>1, <2>1, ParentIs, Zenon
  <2>3. Hop(tree, e.ino, Token) = {}
    BY <1>1, <2>2, HopFile, Zenon DEF TreeInv
  <2> QED BY <2>2, <2>3, Zenon
<1> QED BY <1>1, <1>2, WalkFailsTree, Zenon

LEMMA WalkMissingTree == ASSUME VfsInv, TreeInv, walk_missing PROVE TreeInv'
<1> DEFINE found == Matches(walk.cur, Token) # {}
<1>1. /\ More /\ Token \notin {".", ".."}
      /\ WalkFails(found) /\ UNCHANGED <<tree, mem, gone, cwd, fds>>
  BY Zenon DEF walk_missing, Into, calling, table
<1>2. ~ found => Hop(tree, mem[walk.cur].ino, Token) = {}
  BY <1>1, HopInto
<1> QED BY <1>1, <1>2, WalkFailsTree, Zenon

\* A lookup makes a copy of an entry: what was there is as it was.
MakesNode(id, c, e) ==
  /\ id \in Ids /\ id \notin Known /\ id # 0
  /\ c \in Known /\ e \in tree /\ e.dir = mem[c].ino
  /\ mem' = [mem EXCEPT ![id] = [name |-> e.name, kind |-> e.kind, ino |-> e.ino,
                                 parent |-> c]]

LEMMA TiedDown ==
  ASSUME NodesOK, NodesTied, tree' = tree, gone' = gone,
         NEW id, NEW c, NEW e, MakesNode(id, c, e)
  PROVE  /\ NodesTied' /\ Known' = Known \union {id}
         /\ \A n \in Known : mem'[n] = mem[n]
         /\ mem'[id].parent = c /\ mem'[id].ino = e.ino
<1> DEFINE node == [name |-> e.name, kind |-> e.kind, ino |-> e.ino, parent |-> c]
<1> USE DEF MakesNode
<1>1. c # 0 /\ c # id /\ Known \subseteq Ids
  BY VfsAssumption, Zenon DEF Known
<1>2. /\ node.name = e.name /\ node.kind = e.kind /\ node.ino = e.ino
      /\ node.parent = c
  BY Zenon
<1>3. node # Nil
  <2>1. Nil.parent = 0
    BY Zenon DEF Nil
  <2> QED BY <1>1, <1>2, <2>1, Zenon
<1>4. /\ mem' = [mem EXCEPT ![id] = node] /\ id \in Ids /\ id \notin Known /\ id # 0
      /\ c \in Known /\ e \in tree /\ e.dir = mem[c].ino
  BY Zenon
<1> HIDE DEF node, MakesNode
<1>5. mem'[id] = node /\ \A n \in Ids : n # id => mem'[n] = mem[n]
  BY <1>4, Zenon DEF NodesOK
<1>6. Known' = Known \union {id}
  BY <1>3, <1>4, <1>5, Zenon DEF Known
<1>7. \A n \in Known : mem'[n] = mem[n]
  BY <1>1, <1>4, <1>5, Zenon
<1>8. \A n \in Known : mem[n].parent \in Known \union {0}
  BY Zenon DEF NodesTied, HasParents
<1>9. HasParents(mem', Known')
  BY <1>2, <1>4, <1>5, <1>6, <1>7, <1>8 DEF HasParents
<1>10. NoCircle(mem', Known')
  <2> SUFFICES ASSUME NEW S \in SUBSET Known', S # {}
               PROVE  \E n \in S : mem'[n].parent \notin S
    BY Zenon DEF NoCircle
  <2>1. CASE S \ {id} = {}
    <3>1. S = {id}
      BY <2>1, Zenon
    <3> QED BY <1>1, <1>2, <1>5, <3>1, Zenon
  <2>2. CASE S \ {id} # {}
    <3>1. S \ {id} \in SUBSET Known
      BY <1>6, Zenon
    <3>2. PICK n \in S \ {id} : mem[n].parent \notin S \ {id}
      BY <2>2, <3>1, Zenon DEF NodesTied, NoCircle
    <3>3. n \in Known /\ mem[n].parent # id
      BY <1>4, <1>8, <3>1, <3>2
    <3> QED BY <1>7, <3>2, <3>3, Zenon
  <2> QED BY <2>1, <2>2, Zenon
<1>11. gone' \subseteq Known' /\ RootId \in Known' /\ IsRoot(mem', RootId)
  BY <1>6, <1>7, Zenon DEF NodesTied, IsRoot
<1>12. IsCopy(tree', mem', id) /\ mem'[id].parent # 0
  <2>1. mem'[mem'[id].parent].ino = mem[c].ino
    BY <1>2, <1>4, <1>5, <1>7, Zenon
  <2> QED BY <1>1, <1>2, <1>4, <1>5, <2>1 DEF IsCopy
<1>13. ASSUME NEW n \in Known
       PROVE  \/ IsRoot(mem', n)
              \/ mem'[n].parent # 0 /\ (n \in gone' \/ IsCopy(tree', mem', n))
  <2>1. CASE IsRoot(mem, n)
    BY <1>7, <2>1, Zenon DEF IsRoot
  <2>2. CASE mem[n].parent # 0 /\ (n \in gone \/ IsCopy(tree, mem, n))
    <3>1. mem'[n] = mem[n] /\ mem'[mem[n].parent] = mem[mem[n].parent]
      BY <1>7, <1>8, <2>2, Zenon
    <3>2. IsCopy(tree, mem, n) => IsCopy(tree', mem', n)
      BY <3>1, Zenon DEF IsCopy
    <3> QED BY <2>2, <3>1, <3>2, Zenon
  <2> QED BY <2>1, <2>2, Zenon DEF NodesTied
<1> QED BY <1>2, <1>5, <1>6, <1>7, <1>9, <1>10, <1>11, <1>12, <1>13, Zenon
        DEF NodesTied

\* What belonged to the tree still does, and so does the copy.
LEMMA WithinDown ==
  ASSUME NodesTied, NEW id, id \notin Known, NEW c \in Known,
         Known' = Known \union {id}, gone' = gone, \A n \in Known : mem'[n] = mem[n],
         mem'[id].parent = c
  PROVE  /\ \A n \in Known : Within(mem', Known' \ gone', n) =>
                             Within(mem, Known \ gone, n)
         /\ Within(mem, Known \ gone, c) => Within(mem', Known' \ gone', id)
<1>1. \A n \in Known : mem[n].parent \in Known \union {0}
  BY Zenon DEF NodesTied, HasParents
<1>2. gone \subseteq Known
  BY Zenon DEF NodesTied
<1>3. ASSUME NEW n \in Known, Within(mem', Known' \ gone', n)
      PROVE  Within(mem, Known \ gone, n)
  <2>1. PICK C \in SUBSET (Known' \ gone') : n \in C /\ HasParents(mem', C)
    BY <1>3, Zenon DEF Within
  <2> DEFINE B == C \ {id}
  <2>2. B \in SUBSET (Known \ gone) /\ n \in B
    BY <1>3, <2>1, Zenon
  <2>3. HasParents(mem, B)
    <3> SUFFICES ASSUME NEW k \in B PROVE mem[k].parent \in B \union {0}
      BY Zenon DEF HasParents
    <3>1. k \in Known /\ mem'[k] = mem[k] /\ mem'[k].parent \in C \union {0}
      BY <2>1, <2>2, Zenon DEF HasParents
    <3>2. id # 0 => mem[k].parent # id
      BY <1>1, <3>1, Zenon
    <3> QED BY <3>1, <3>2, Zenon
  <2> QED BY <2>2, <2>3, Zenon DEF Within
<1>4. ASSUME Within(mem, Known \ gone, c) PROVE Within(mem', Known' \ gone', id)
  <2>1. PICK C \in SUBSET (Known \ gone) : c \in C /\ HasParents(mem, C)
    BY <1>4, Zenon DEF Within
  <2> DEFINE B == C \union {id}
  <2>2. B \in SUBSET (Known' \ gone') /\ id \in B
    BY <1>2, <2>1, Zenon
  <2>3. HasParents(mem', B)
    BY <2>1, Zenon DEF HasParents
  <2> QED BY <2>2, <2>3, Zenon DEF Within
<1> QED BY <1>3, <1>4, Zenon

LEMMA WalkDownTree == ASSUME VfsInv, TreeInv, walk_down PROVE TreeInv'
<1>1. /\ More /\ pc = "walk" /\ pc' = "walk" /\ Token \notin {".", ".."} /\ Known # Ids
      /\ UNCHANGED <<tree, gone, cwd, fds>>
  BY Zenon DEF walk_down, Into, More, calling, table
<1>2. PICK e \in Matches(walk.cur, Token) :
        /\ mem' = [mem EXCEPT ![NewId] =
                    [name |-> e.name, kind |-> e.kind, ino |-> e.ino,
                     parent |-> walk.cur]]
        /\ walk' = [walk EXCEPT !.at = @ + 1, !.cur = NewId, !.owned = TRUE]
  BY Zenon DEF walk_down
<1> DEFINE id == NewId
           c == walk.cur
<1>3. id \in Ids /\ id \notin Known /\ id # 0
  BY <1>1, NewIdIs, VfsAssumption, Zenon
<1>4. e \in tree /\ e.dir = mem[c].ino
  BY <1>2, Zenon DEF Matches
<1>5. c \in Known /\ walk.from \in Known \union {0}
  BY <1>1, Zenon DEF VfsInv, WalkOK, TreeInv, PointersOK
<1>6. MakesNode(id, c, e)
  BY <1>2, <1>3, <1>4, <1>5, Zenon DEF MakesNode
<1>7. /\ walk'.from = walk.from /\ walk'.path = walk.path /\ walk'.cur = id
      /\ walk'.then = walk.then /\ walk'.at = walk.at + 1
  BY <1>2, Zenon DEF VfsInv, WalkOK
<1> HIDE DEF id, c
<1>8. /\ NodesTied' /\ Known' = Known \union {id}
      /\ \A n \in Known : mem'[n] = mem[n]
      /\ mem'[id].parent = c /\ mem'[id].ino = e.ino
  <2>1. NodesOK /\ NodesTied /\ tree' = tree /\ gone' = gone
    BY <1>1, Zenon DEF VfsInv, TreeInv
  <2> QED BY <1>6, <2>1, TiedDown, Zenon
<1>9. PointersOK'
  BY <1>1, <1>7, <1>8, Zenon DEF TreeInv, PointersOK
<1>10. ASSUME Walking'
       PROVE  OnTheWay(tree, mem', Known' \ gone', walk', "walk",
                       Steps(tree, mem'[walk.from].ino, walk.path.names),
                       Len(walk.path.names))
  <2>1. walk.from \in Known /\ cwd # 0 /\ Within(mem', Known' \ gone', walk.from)
    BY <1>1, <1>5, <1>7, <1>10, Zenon DEF Walking
  <2>2. Walking
    <3>1. Within(mem, Known \ gone, walk.from)
      BY <1>1, <1>3, <1>5, <1>8, <2>1, WithinDown, Zenon DEF TreeInv
    <3> QED BY <1>1, <1>10, <1>7, <2>1, <3>1, Zenon DEF Walking
  <2>3. Within(mem, Known \ gone, c)
    BY <1>1, <2>2, WalkNow, Zenon DEF c
  <2>4. Within(mem', Known' \ gone', id)
    BY <1>1, <1>3, <1>5, <1>8, <2>3, WithinDown, Zenon DEF TreeInv
  <2>5. Hop(tree, mem[c].ino, Token) = {f.ino : f \in Matches(c, Token)}
    BY <1>1, HopInto, Zenon
  <2>6. e.ino \in Hop(tree, mem[c].ino, Token)
    BY <1>2, <2>5, Zenon DEF c
  <2>7. ASSUME Distinct(tree), NEW z \in Hop(tree, mem[c].ino, Token) PROVE z = e.ino
    <3>1. PICK f \in Matches(c, Token) : z = f.ino
      BY <2>5, <2>7, Zenon
    <3>2. f = e
      BY <1>2, <2>7, <3>1, Zenon DEF Matches, Distinct, c
    <3> QED BY <3>1, <3>2, Zenon
  <2>8. mem'[walk.from].ino = mem[walk.from].ino /\ mem'[walk'.cur].ino = e.ino
    BY <1>7, <1>8, <2>1, Zenon
  <2> QED BY <1>1, <1>3, <1>7, <2>2, <2>4, <2>6, <2>7, <2>8, WalkOn, Zenon DEF c
<1>11. WalkAgrees'
  BY <1>1, <1>7, <1>10, Zenon DEF WalkAgrees
<1>12. IsTree(tree')
  BY <1>1, Zenon DEF TreeInv
<1> QED BY <1>8, <1>9, <1>11, <1>12 DEF TreeInv

-----------------------------------------------------------------------------
(* The calls, and the tree.                                                *)

\* fat32_create's entry is in a directory and has a number of its own.
LEMMA AddTree ==
  ASSUME IsTree(tree), NEW e, Dir!Add(e) PROVE IsTree(tree') /\ tree \subseteq tree'
<1>1. /\ e \in [dir : Inodes, name : Names, kind : {"dir", "file"}, ino : Inodes]
      /\ e.dir = RootIno \/ \E f \in tree : f.ino = e.dir /\ f.kind = "dir"
      /\ e.ino # RootIno /\ \A f \in tree : f.ino # e.ino
      /\ tree' = tree \union {e}
  BY Zenon DEF Dir!Add, Dir!Entry, Dir!Folders
<1>2. e \in [dir : Inodes, name : Names, kind : {"dir", "file"}, ino : Inodes \ {0}]
  BY <1>1, Zenon DEF RootIno
<1>3. \A x \in tree' : x.dir = 0 \/ \E f \in tree' : f.ino = x.dir /\ f.kind = "dir"
  BY <1>1, Zenon DEF IsTree, RootIno
<1>4. \A x, y \in tree' : x.ino = y.ino => x = y
  BY <1>1, Zenon DEF IsTree
<1> QED BY <1>1, <1>2, <1>3, <1>4, Zenon DEF IsTree

\* What is removed has nothing in it.
LEMMA RemoveTree ==
  ASSUME IsTree(tree), NEW e \in tree, Dir!Remove(e)
  PROVE  IsTree(tree') /\ tree' = tree \ {e}
<1>1. tree' = tree \ {e} /\ \A f \in tree : f.dir # e.ino
  BY Zenon DEF Dir!Remove, Dir!Below
<1>2. \A x \in tree' : x.dir = 0 \/ \E f \in tree' : f.ino = x.dir /\ f.kind = "dir"
  BY <1>1 DEF IsTree
<1> QED BY <1>1, <1>2, Zenon DEF IsTree

\* A call that ends and changes neither tree nor nodes.
LEMMA ReturnTree ==
  ASSUME VfsInv, TreeInv, pc' = "return", walk' = walk,
         UNCHANGED <<tree, mem, gone, cwd, fds>>
  PROVE  TreeInv'
<1>1. pc' \notin Thens \union {"walk", "none"}
  BY Zenon DEF Thens, Ops
<1>2. NodesTied'
  BY TiedKept, Zenon DEF TreeInv
<1>3. /\ cwd' \in Known \union {0} /\ \A f \in Fds : fds'[f].node \in Known \union {0}
      /\ IsTree(tree') /\ PointersOK /\ WalkOK
  BY Zenon DEF TreeInv, PointersOK, VfsInv
<1> QED BY <1>1, <1>2, <1>3, EndsTree, Zenon

\* A call that resolves another path.
LEMMA ResolveTree ==
  ASSUME TreeInv, NEW path, path.names \in Seq(Tokens), NEW then \in Thens,
         vfs_resolve_path(path, then), UNCHANGED <<tree, mem, gone, cwd, fds>>
  PROVE  TreeInv'
<1>1. NodesTied'
  BY TiedKept, Zenon DEF TreeInv
<1>2. IsTree(tree') /\ PointersOK
  BY Zenon DEF TreeInv
<1> QED BY <1>1, <1>2, ResolvesTree, Zenon

LEMMA OpenMissingTree == ASSUME VfsInv, TreeInv, open_missing PROVE TreeInv'
<1>1. UNCHANGED <<tree, mem, gone, cwd, fds>>
  BY Zenon DEF open_missing, others, table
<1>2. CASE vfs_resolve_path(DirPart(call.path), "open_dir")
  <2>1. DirPart(call.path).names \in Seq(Tokens)
    BY DirPartIs, Zenon DEF VfsInv, TableOK
  <2>2. "open_dir" \in Thens
    BY Zenon DEF Thens
  <2> QED BY <1>1, <1>2, <2>1, <2>2, ResolveTree, Zenon
<1>3. CASE Return("ENOENT") /\ UNCHANGED walk
  BY <1>1, <1>3, ReturnTree, Zenon DEF Return
<1> QED BY <1>2, <1>3, Zenon DEF open_missing

LEMMA CreateTree ==
  ASSUME VfsInv, TreeInv, NEW d, NEW name, NEW kind,
         FsCreate(d, name, kind, TRUE), UNCHANGED <<cwd, fds>>, call' = call,
         \/ pc' = "return" /\ walk' = walk
         \/ vfs_resolve_path(call.path, "open_again")
  PROVE  TreeInv'
<1>1. mem' = mem /\ gone' = gone
  BY Zenon DEF FsCreate
<1>2. IsTree(tree') /\ tree \subseteq tree'
  <2>1. CASE UNCHANGED tree
    BY <2>1, Zenon DEF TreeInv
  <2>2. CASE \E e : Dir!Add(e)
    BY <2>2, AddTree, Zenon DEF TreeInv
  <2> QED BY <2>1, <2>2, Zenon DEF FsCreate
<1>3. NodesTied' /\ PointersOK
  BY <1>1, <1>2, TiedKept, Zenon DEF TreeInv
<1>4. CASE pc' = "return" /\ walk' = walk
  <2>1. pc' \notin Thens \union {"walk", "none"}
    BY <1>4, Zenon DEF Thens, Ops
  <2>2. /\ cwd' \in Known \union {0}
        /\ \A f \in Fds : fds'[f].node \in Known \union {0}
        /\ WalkOK
    BY <1>3, Zenon DEF PointersOK, VfsInv
  <2> QED BY <1>1, <1>2, <1>3, <1>4, <2>1, <2>2, EndsTree
<1>5. CASE vfs_resolve_path(call.path, "open_again")
  <2>1. "open_again" \in Thens /\ call.path.names \in Seq(Tokens)
    BY Zenon DEF Thens, VfsInv, TableOK
  <2> QED BY <1>1, <1>2, <1>3, <1>5, <2>1, ResolvesTree, Zenon
<1> QED BY <1>4, <1>5, Zenon

LEMMA OpenDirTree == ASSUME VfsInv, TreeInv, open_dir PROVE TreeInv'
<1>1. UNCHANGED <<cwd, fds>> /\ call' = call
  BY Zenon DEF open_dir, others, table
<1>2. CASE pc' = "return" /\ UNCHANGED <<tree, mem, gone, walk>>
  BY <1>1, <1>2, ReturnTree, Zenon
<1>3. CASE FsCreate(Node, NamePart(call.path), "file",
                    /\ vfs_resolve_path(call.path, "open_again")
                    /\ UNCHANGED ret)
  <2>1. /\ FsCreate(Node, NamePart(call.path), "file", TRUE)
        /\ \/ pc' = "return" /\ walk' = walk
           \/ vfs_resolve_path(call.path, "open_again")
    BY <1>3, Zenon DEF FsCreate, Return
  <2> QED BY <1>1, <2>1, CreateTree, Zenon
<1> QED BY <1>2, <1>3, Zenon DEF open_dir, Return

LEMMA MkdirDirTree == ASSUME VfsInv, TreeInv, mkdir_dir PROVE TreeInv'
<1>1. UNCHANGED <<cwd, fds>> /\ call' = call
  BY Zenon DEF mkdir_dir, others, table
<1>2. CASE pc' = "return" /\ UNCHANGED <<tree, mem, gone, walk>>
  BY <1>1, <1>2, ReturnTree, Zenon
<1>3. CASE FsCreate(Node, NamePart(call.path), "dir",
                    Return("ok") /\ UNCHANGED walk)
  <2>1. /\ FsCreate(Node, NamePart(call.path), "dir", TRUE)
        /\ pc' = "return" /\ walk' = walk
    BY <1>3, Zenon DEF FsCreate, Return
  <2> QED BY <1>1, <2>1, CreateTree, Zenon
<1> QED BY <1>2, <1>3, Zenon DEF mkdir_dir, Return

\* A call that ends with another descriptor table or working directory.
LEMMA PointsTree ==
  ASSUME VfsInv, TreeInv, pc' = "return", walk' = walk, UNCHANGED <<tree, mem, gone>>,
         cwd' \in Known \union {0}, \A f \in Fds : fds'[f].node \in Known \union {0}
  PROVE  TreeInv'
<1>1. pc' \notin Thens \union {"walk", "none"}
  BY Zenon DEF Thens, Ops
<1>2. NodesTied'
  BY TiedKept, Zenon DEF TreeInv
<1>3. IsTree(tree') /\ PointersOK /\ WalkOK
  BY Zenon DEF TreeInv, VfsInv
<1> QED BY <1>1, <1>2, <1>3, EndsTree, Zenon

LEMMA OpenNodeTree == ASSUME VfsInv, TreeInv, open_node PROVE TreeInv'
<1>1. pc' = "return" /\ UNCHANGED <<tree, mem, gone, cwd, walk>>
  BY Zenon DEF open_node, Return
<1>2. CASE UNCHANGED table
  BY <1>1, <1>2, ReturnTree, Zenon DEF table
<1>3. ASSUME NEW fd \in Fds,
             fds' = [fds EXCEPT ![fd] = [node |-> Node, flags |-> call.flags,
                                         refcount |-> 1]]
      PROVE  TreeInv'
  <2>1. \A f \in Fds : fds'[f].node = IF f = fd THEN Node ELSE fds[f].node
    BY <1>3, Zenon DEF VfsInv, TableOK
  <2>2. /\ cwd' \in Known \union {0}
        /\ \A f \in Fds : fds'[f].node \in Known \union {0}
    BY <1>1, <2>1, Zenon DEF TreeInv, PointersOK, Node
  <2> QED BY <1>1, <2>2, PointsTree, Zenon
<1> QED BY <1>2, <1>3, Zenon DEF open_node

LEMMA OpenVanishedTree == ASSUME VfsInv, TreeInv, open_vanished PROVE TreeInv'
<1>1. pc' = "return" /\ UNCHANGED <<tree, mem, gone, cwd, fds, walk>>
  BY Zenon DEF open_vanished, Return, others, memory, table
<1> QED BY <1>1, ReturnTree, Zenon

LEMMA CloseTree == ASSUME VfsInv, TreeInv, close PROVE TreeInv'
<1>1. pc' = "return" /\ UNCHANGED <<tree, mem, gone, cwd, walk>>
  BY Zenon DEF close, Return, memory
<1>2. CASE UNCHANGED table
  BY <1>1, <1>2, ReturnTree, Zenon DEF table
<1>3. CASE fds' = [fds EXCEPT ![call.fd] = Closed]
  <2>1. \A f \in Fds : fds'[f] \in {fds[f], Closed}
    BY <1>3, Zenon DEF VfsInv, TableOK
  <2>2. Closed.node = 0
    BY Zenon DEF Closed
  <2>3. /\ cwd' \in Known \union {0}
        /\ \A f \in Fds : fds'[f].node \in Known \union {0}
    BY <1>1, <2>1, <2>2, Zenon DEF TreeInv, PointersOK
  <2> QED BY <1>1, <2>3, PointsTree
<1> QED BY <1>2, <1>3, Zenon DEF close

LEMMA StatTree == ASSUME VfsInv, TreeInv, stat PROVE TreeInv'
<1>1. pc' = "return" /\ UNCHANGED <<tree, mem, gone, cwd, fds, walk>>
  BY Zenon DEF stat, Return, others, table
<1> QED BY <1>1, ReturnTree, Zenon

LEMMA MkdirExistsTree == ASSUME VfsInv, TreeInv, mkdir_exists PROVE TreeInv'
<1>1. pc' = "return" /\ UNCHANGED <<tree, mem, gone, cwd, fds, walk>>
  BY Zenon DEF mkdir_exists, Return, others, table
<1> QED BY <1>1, ReturnTree, Zenon

LEMMA BootMissingTree == ASSUME VfsInv, TreeInv, boot_missing PROVE TreeInv'
<1>1. /\ vfs_resolve_path(call.path, "mkdir")
      /\ UNCHANGED <<tree, mem, gone, cwd, fds>>
  BY Zenon DEF boot_missing, others, memory, table
<1>2. "mkdir" \in Thens /\ call.path.names \in Seq(Tokens)
  BY Zenon DEF Thens, Ops, VfsInv, TableOK
<1> QED BY <1>1, <1>2, ResolveTree, Zenon

LEMMA MkdirMissingTree == ASSUME VfsInv, TreeInv, mkdir_missing PROVE TreeInv'
<1>1. /\ vfs_resolve_path(DirPart(call.path), "mkdir_dir")
      /\ UNCHANGED <<tree, mem, gone, cwd, fds>>
  BY Zenon DEF mkdir_missing, others, memory, table
<1>2. "mkdir_dir" \in Thens /\ DirPart(call.path).names \in Seq(Tokens)
  BY DirPartIs, Zenon DEF Thens, VfsInv, TableOK
<1> QED BY <1>1, <1>2, ResolveTree, Zenon

LEMMA RemoveNodesTree ==
  ASSUME VfsInv, TreeInv, NEW op, NEW kind, NEW wrong, NEW used,
         remove(op, kind, wrong, used)
  PROVE  TreeInv'
<1>1. UNCHANGED <<cwd, fds>>
  BY Zenon DEF remove, table
<1>2. CASE pc' = "return" /\ UNCHANGED <<tree, memory, walk>>
  BY <1>1, <1>2, ReturnTree DEF memory
<1>3. CASE FsRemove(mem[Node].parent, mem[Node].name, kind)
  <2>1. pc' = "return" /\ UNCHANGED <<mem, walk>>
    BY <1>3, Zenon DEF FsRemove, Return
  <2>2. CASE UNCHANGED <<tree, gone>>
    BY <1>1, <2>1, <2>2, ReturnTree
  <2>3. ASSUME NEW e \in tree, Dir!Remove(e),
               gone' = gone \union {i \in Known : mem[i].ino = e.ino}
        PROVE  TreeInv'
    <3>1. IsTree(tree') /\ tree' = tree \ {e}
      BY <2>3, RemoveTree, Zenon DEF TreeInv
    <3>2. NodesTied'
      BY <2>1, <2>3, <3>1, TiedRemoved DEF TreeInv
    <3>3. pc' \notin Thens \union {"walk", "none"}
      BY <2>1, Zenon DEF Thens, Ops
    <3>4. /\ cwd' \in Known \union {0}
          /\ \A f \in Fds : fds'[f].node \in Known \union {0}
          /\ PointersOK /\ WalkOK
      BY <1>1, Zenon DEF TreeInv, PointersOK, VfsInv
    <3> QED BY <2>1, <3>1, <3>2, <3>3, <3>4, EndsTree
  <2> QED BY <1>3, <2>2, <2>3, Zenon DEF FsRemove, Matches
<1> QED BY <1>2, <1>3, Zenon DEF remove, Return

LEMMA CdTree == ASSUME VfsInv, TreeInv, cd PROVE TreeInv'
<1>1. pc' = "return" /\ UNCHANGED <<tree, mem, gone, fds, walk>>
  BY Zenon DEF cd, Return, table
<1>2. cwd' \in {cwd, Node}
  BY Zenon DEF cd
<1>3. /\ cwd' \in Known \union {0}
      /\ \A f \in Fds : fds'[f].node \in Known \union {0}
  BY <1>1, <1>2, Zenon DEF TreeInv, PointersOK, Node
<1> QED BY <1>1, <1>3, PointsTree, Zenon

LEMMA BootHomeTree == ASSUME VfsInv, TreeInv, boot_home PROVE TreeInv'
<1>1. pc' = "return" /\ UNCHANGED <<tree, mem, gone, fds, walk>>
  BY Zenon DEF boot_home, Return, memory, table
<1>2. cwd' \in {cwd, Node}
  BY Zenon DEF boot_home
<1>3. /\ cwd' \in Known \union {0}
      /\ \A f \in Fds : fds'[f].node \in Known \union {0}
  BY <1>1, <1>2, Zenon DEF TreeInv, PointersOK, Node
<1> QED BY <1>1, <1>3, PointsTree, Zenon

LEMMA PwdTree == ASSUME VfsInv, TreeInv, pwd PROVE TreeInv'
<1>1. pc' = "return" /\ UNCHANGED <<tree, mem, gone, cwd, fds, walk>>
  BY Zenon DEF pwd, Return, others, memory, table
<1> QED BY <1>1, ReturnTree, Zenon

LEMMA LookTree == ASSUME VfsInv, TreeInv, look PROVE TreeInv'
<1>1. pc' = "return" /\ UNCHANGED <<tree, mem, gone, cwd, fds, walk>>
  BY Zenon DEF look, Return, others, memory, table
<1> QED BY <1>1, ReturnTree, Zenon

\* What is kept track of is there, with all the parents.
LEMMA ReferencedIs ==
  ASSUME NodesOK, NodesTied, PointersOK
  PROVE  /\ Referenced \subseteq Known /\ HasParents(mem, Referenced)
         /\ RootId \in Referenced /\ cwd \in Referenced \union {0}
         /\ \A f \in Fds : fds[f].node \in Referenced \union {0}
<1> DEFINE R == ({RootId, cwd} \union {fds[f].node : f \in Fds}) \ {0}
<1>1. R \subseteq Known
  BY Zenon DEF NodesTied, PointersOK
<1>2. Referenced = UNION {Range(Lineage[n]) : n \in R}
  BY Zenon DEF Referenced
<1>3. ASSUME NEW n \in R
      PROVE  /\ Range(Lineage[n]) \subseteq Known /\ n \in Range(Lineage[n])
             /\ HasParents(mem, Range(Lineage[n]))
  <2>1. IsLineage(Lineage[n], n)
    BY <1>1, LineageHas, Zenon
  <2> DEFINE l == Lineage[n]
  <2> HIDE DEF l
  <2>2. /\ l \in Seq(Ids) /\ Len(l) >= 1 /\ l[1] = n
        /\ Range(l) \subseteq Known /\ HasParents(mem, Range(l))
    BY <2>1, Zenon DEF IsLineage, l
  <2>3. n \in Range(l)
    BY <2>2 DEF Range
  <2> QED BY <2>2, <2>3, Zenon DEF l
<1>4. /\ RootId \in R /\ cwd \in R \union {0}
      /\ \A f \in Fds : fds[f].node \in R \union {0}
  BY DEF RootId
<1> HIDE DEF R
<1>5. HasParents(mem, Referenced)
  <2> SUFFICES ASSUME NEW k \in Referenced PROVE mem[k].parent \in Referenced \union {0}
    BY Zenon DEF HasParents
  <2>1. PICK n \in R : k \in Range(Lineage[n])
    BY <1>2, Zenon
  <2>2. mem[k].parent \in Range(Lineage[n]) \union {0}
    BY <1>3, <2>1, Zenon DEF HasParents
  <2> QED BY <1>2, <2>2, Zenon
<1>6. R \subseteq Referenced /\ Referenced \subseteq Known
  BY <1>2, <1>3, Zenon
<1> QED BY <1>4, <1>5, <1>6, Zenon

LEMMA ReturnsTree == ASSUME VfsInv, TreeInv, returns PROVE TreeInv'
<1> DEFINE R == Referenced
<1>1. /\ walk' = NoWalk /\ gone' = gone \intersect R
      /\ mem' = [i \in Ids |-> IF i \in R THEN mem[i] ELSE Nil]
      /\ UNCHANGED <<tree, cwd, fds>>
  BY Zenon DEF returns, table
<1>2. /\ R \subseteq Known /\ HasParents(mem, R) /\ RootId \in R
      /\ cwd \in R \union {0} /\ \A f \in Fds : fds[f].node \in R \union {0}
  BY ReferencedIs, Zenon DEF VfsInv, TreeInv
<1> HIDE DEF R
<1>3. \A n \in R : mem'[n] = mem[n]
  BY <1>1, <1>2, Zenon DEF Known
<1>4. Known' = R
  BY <1>1, <1>2, Zenon DEF Known
<1>5. HasParents(mem', Known') /\ \A n \in R : mem[n].parent \in R \union {0}
  BY <1>2, <1>3, <1>4 DEF HasParents
<1>6. NoCircle(mem', Known')
  <2> SUFFICES ASSUME NEW S \in SUBSET R, S # {}
               PROVE  \E n \in S : mem'[n].parent \notin S
    BY <1>4, Zenon DEF NoCircle
  <2>1. S \in SUBSET Known
    BY <1>2, Zenon
  <2>2. PICK n \in S : mem[n].parent \notin S
    BY <2>1, Zenon DEF TreeInv, NodesTied, NoCircle
  <2> QED BY <1>3, <2>2, Zenon
<1>7. IsRoot(mem', RootId)
  BY <1>2, <1>3, Zenon DEF TreeInv, NodesTied, IsRoot
<1>8. ASSUME NEW n \in R
      PROVE  \/ IsRoot(mem', n)
             \/ mem'[n].parent # 0 /\ (n \in gone' \/ IsCopy(tree', mem', n))
  <2>1. n \in Known /\ mem'[n] = mem[n]
    BY <1>2, <1>3, Zenon
  <2>2. CASE IsRoot(mem, n)
    BY <2>1, <2>2, Zenon DEF IsRoot
  <2>3. CASE mem[n].parent # 0 /\ (n \in gone \/ IsCopy(tree, mem, n))
    <3>1. mem'[mem[n].parent] = mem[mem[n].parent]
      BY <1>3, <1>5, <2>3
    <3>2. IsCopy(tree, mem, n) => IsCopy(tree', mem', n)
      BY <1>1, <2>1, <3>1, Zenon DEF IsCopy
    <3> QED BY <1>1, <2>1, <2>3, <3>2
  <2> QED BY <2>1, <2>2, <2>3 DEF TreeInv, NodesTied
<1>9. NodesTied'
  BY <1>1, <1>2, <1>4, <1>5, <1>6, <1>7, <1>8 DEF NodesTied
<1>10. walk'.cur = 0 /\ walk'.from = 0
  BY <1>1, Zenon DEF NoWalk
<1>11. PointersOK'
  BY <1>1, <1>2, <1>4, <1>10 DEF PointersOK
<1>12. WalkAgrees'
  BY <1>10, Zenon DEF WalkAgrees, Walking
<1>13. IsTree(tree')
  BY <1>1, Zenon DEF TreeInv
<1> QED BY <1>9, <1>11, <1>12, <1>13 DEF TreeInv

LEMMA BeginTree == ASSUME VfsInv, TreeInv, NEW c \in Calls, begin(c) PROVE TreeInv'
<1>1. UNCHANGED <<tree, mem, gone, cwd, fds>>
  BY Zenon DEF begin, memory, table
<1>2. c.op \in Ops /\ c.path.names \in Seq(Tokens)
  BY VfsAssumption, Zenon DEF Ops, Tokens
<1>3. CASE pc' \in {"close", "pwd"} /\ walk' = walk
  <2>1. pc' \notin Thens \union {"walk", "none"}
    BY <1>3, Zenon DEF Thens, Ops
  <2>2. NodesTied'
    BY <1>1, TiedKept, Zenon DEF TreeInv
  <2>3. /\ cwd' \in Known \union {0}
        /\ \A f \in Fds : fds'[f].node \in Known \union {0}
        /\ IsTree(tree') /\ PointersOK /\ WalkOK
    BY <1>1, Zenon DEF TreeInv, PointersOK, VfsInv
  <2> QED BY <1>1, <1>3, <2>1, <2>2, <2>3, EndsTree
<1>4. CASE c.op \in Thens /\ vfs_resolve_path(c.path, c.op)
  BY <1>1, <1>2, <1>4, ResolveTree, Zenon
<1> QED BY <1>2, <1>3, <1>4, Zenon DEF begin, Thens

LEMMA MountTree == ASSUME VfsInv, TreeInv, mount PROVE TreeInv'
<1>1. /\ pc' \in {"boot", "idle"} /\ cwd' \in {RootId, cwd}
      /\ UNCHANGED <<tree, mem, gone, fds, walk>>
  BY Zenon DEF mount, memory, table
<1>2. pc' \notin Thens \union {"walk", "none"}
  BY <1>1, Zenon DEF Thens, Ops
<1>3. NodesTied'
  BY <1>1, TiedKept, Zenon DEF TreeInv
<1>4. /\ cwd' \in Known \union {0} /\ \A f \in Fds : fds'[f].node \in Known \union {0}
      /\ PointersOK /\ WalkOK
  BY <1>1, Zenon DEF TreeInv, NodesTied, PointersOK, VfsInv
<1>5. IsTree(tree')
  BY <1>1, Zenon DEF TreeInv
<1> QED BY <1>1, <1>2, <1>3, <1>4, <1>5, EndsTree

LEMMA BootDirectoryTree ==
  ASSUME VfsInv, TreeInv, made \in Nat, boot_directory PROVE TreeInv'
<1> DEFINE path == BootDirs[made + 1]
<1>1. /\ made < Len(BootDirs) /\ vfs_resolve_path(path, "boot_check")
      /\ UNCHANGED <<tree, mem, gone, cwd, fds>>
  BY Zenon DEF boot_directory, memory, table
<1>2. path.names \in Seq(Tokens)
  <2>1. made + 1 \in 1 .. Len(BootDirs)
    BY <1>1
  <2>2. path.names \in Seq(Names)
    BY <2>1, VfsAssumption, Zenon
  <2> HIDE DEF path
  <2>3. Names \subseteq Tokens
    BY Zenon DEF Tokens
  <2> QED BY <2>2, <2>3
<1> HIDE DEF path
<1>3. "boot_check" \in Thens
  BY Zenon DEF Thens
<1> QED BY <1>1, <1>2, <1>3, ResolveTree, Zenon

LEMMA BootCompleteTree == ASSUME VfsInv, TreeInv, boot_complete PROVE TreeInv'
<1>1. /\ vfs_resolve_path(Home, "boot_home")
      /\ UNCHANGED <<tree, mem, gone, cwd, fds>>
  BY Zenon DEF boot_complete, memory, table
<1>2. Home.names \in Seq(Tokens) /\ "boot_home" \in Thens
  BY HomeNames, Zenon DEF Thens
<1> QED BY <1>1, <1>2, ResolveTree, Zenon

LEMMA StutterTree == ASSUME TreeInv, UNCHANGED vars PROVE TreeInv'
<1>1. UNCHANGED <<tree, mem, gone, cwd, fds, walk, pc>>
  BY Zenon DEF vars, memory, table
<1>2. Known' = Known
  BY <1>1, Zenon DEF Known
<1>3. NodesTied'
  BY <1>1, TiedKept, Zenon DEF TreeInv
<1>4. PointersOK'
  BY <1>1, <1>2, Zenon DEF TreeInv, PointersOK
<1>5. WalkAgrees'
  BY <1>1, <1>2, Zenon DEF TreeInv, WalkAgrees, Walking
<1> QED BY <1>1, <1>3, <1>4, <1>5, Zenon DEF TreeInv

LEMMA NextTree == ASSUME VfsInv, TreeInv, made \in Nat, [Next]_vars PROVE TreeInv'
BY MountTree, BootDirectoryTree, BootMissingTree, BootCompleteTree, BootHomeTree,
   BeginTree, WalkEndTree, WalkHereTree, WalkUpTree, WalkNotDirectoryTree,
   WalkMissingTree, WalkDownTree, OpenMissingTree, OpenDirTree, OpenNodeTree,
   OpenVanishedTree, CloseTree, StatTree, MkdirExistsTree, MkdirMissingTree,
   MkdirDirTree, RemoveNodesTree, CdTree, PwdTree, LookTree, ReturnsTree, StutterTree,
   Zenon DEF Next, Halted, rmdir, unlink

LEMMA InitTree == ASSUME Init PROVE TreeInv
<1>1. IsTree(tree)
  BY VfsAssumption, Zenon DEF Init
<1>2. /\ mem = [i \in Ids |-> IF i = RootId
                              THEN [Nil EXCEPT !.name = "/", !.kind = "dir"]
                              ELSE Nil]
      /\ gone = {} /\ cwd = 0 /\ walk = NoWalk /\ fds = [f \in Fds |-> Closed]
  BY Zenon DEF Init
<1>3. RootId \in Ids /\ 0 \notin Ids
  BY VfsAssumption, Zenon DEF RootId
<1>4. /\ mem[RootId].kind = "dir" /\ mem[RootId].parent = 0 /\ mem[RootId].ino = 0
      /\ Nil.kind = "none"
  BY <1>2, <1>3, Zenon DEF Nil
<1>5. Known = {RootId}
  <2>1. mem[RootId] # Nil
    BY <1>4, Zenon
  <2>2. \A i \in Ids : i # RootId => mem[i] = Nil
    BY <1>2, Zenon
  <2> QED BY <1>3, <2>1, <2>2, Zenon DEF Known
<1>6. IsRoot(mem, RootId)
  BY <1>4, Zenon DEF IsRoot, RootIno
<1>7. HasParents(mem, Known) /\ NoCircle(mem, Known)
  <2>1. ASSUME NEW S \in SUBSET Known, S # {} PROVE \E n \in S : mem[n].parent \notin S
    <3>1. S = {RootId}
      BY <1>5, <2>1, Zenon
    <3> QED BY <1>3, <1>4, <3>1
  <2> QED BY <1>4, <1>5, <2>1, Zenon DEF HasParents, NoCircle
<1>8. NodesTied
  BY <1>2, <1>5, <1>6, <1>7 DEF NodesTied
<1>9. walk.cur = 0 /\ walk.from = 0 /\ Closed.node = 0
  BY <1>2, Zenon DEF NoWalk, Closed
<1>10. PointersOK
  BY <1>2, <1>9, Zenon DEF PointersOK
<1>11. WalkAgrees
  BY <1>9, Zenon DEF WalkAgrees, Walking
<1> QED BY <1>1, <1>8, <1>10, <1>11 DEF TreeInv

LEMMA TreeInvariant == Spec => [](VfsInv /\ TreeInv)
<1>1. Init => TreeInv
  BY InitTree, Zenon
<1>2. VfsInv /\ made \in Nat /\ TreeInv /\ [Next]_vars => TreeInv'
  BY NextTree, Zenon
<1> QED BY <1>1, <1>2, VfsInvariant, PTL DEF Spec

\* A node whose lineage is in the tree belongs to a set of such nodes.
LEMMA LineageWithin ==
  ASSUME NodesOK, NodesTied, NEW n \in Known, Range(Lineage[n]) \intersect gone = {}
  PROVE  Within(mem, Known \ gone, n)
<1> DEFINE l == Lineage[n]
<1>1. IsLineage(l, n)
  BY LineageHas, Zenon
<1>2. Range(l) \intersect gone = {}
  BY Zenon
<1> HIDE DEF l
<1>3. /\ l \in Seq(Ids) /\ Len(l) >= 1 /\ l[1] = n
      /\ Range(l) \subseteq Known /\ HasParents(mem, Range(l))
  BY <1>1, Zenon DEF IsLineage
<1>4. n \in Range(l)
  BY <1>3 DEF Range
<1>5. Range(l) \in SUBSET (Known \ gone)
  BY <1>2, <1>3, Zenon
<1> QED BY <1>3, <1>4, <1>5, Zenon DEF Within

\* The names on the way down to a node, put together on the way up.
NamesDown(l) == [i \in 1 .. Len(l) - 1 |-> mem[l[Len(l) - i]].name]

LEMMA NamesDownIs ==
  ASSUME NEW l \in Seq(Ids), Len(l) >= 1
  PROVE  /\ Len(NamesDown(l)) = Len(l) - 1
         /\ \A i \in 1 .. Len(l) - 1 : NamesDown(l)[i] = mem[l[Len(l) - i]].name
BY DEF NamesDown

\* One node further down.
LEMMA NamesDownOn ==
  ASSUME NEW k \in Ids, NEW lp \in Seq(Ids), Len(lp) >= 1
  PROVE  LET a == NamesDown(<<k>> \o lp)
             b == NamesDown(lp)
         IN  /\ Len(a) \in Nat /\ Len(b) \in Nat /\ Len(b) = Len(a) - 1
             /\ Len(a) \in 1 .. Len(a) /\ Len(b) \in 0 .. Len(b) /\ Len(b) <= Len(a)
             /\ \A i \in 1 .. Len(b) : b[i] = a[i]
             /\ a[Len(a)] = mem[k].name
<1> DEFINE l == <<k>> \o lp
           a == NamesDown(l)
           b == NamesDown(lp)
           n == Len(lp)
<1>1. n \in Nat /\ n >= 1
  OBVIOUS
<1>2. l \in Seq(Ids) /\ Len(l) = n + 1 /\ l[1] = k /\ \A j \in 1 .. n : l[j + 1] = lp[j]
  OBVIOUS
<1> HIDE DEF l
<1>3. Len(l) >= 1
  BY <1>1, <1>2
<1>4. /\ Len(a) = Len(l) - 1
      /\ \A i \in 1 .. Len(l) - 1 : a[i] = mem[l[Len(l) - i]].name
  BY <1>2, <1>3, NamesDownIs, Zenon
<1>5. Len(b) = n - 1 /\ \A i \in 1 .. n - 1 : b[i] = mem[lp[n - i]].name
  BY NamesDownIs, Zenon
<1> HIDE DEF a, b, n
<1>6. Len(a) = n /\ \A i \in 1 .. n : a[i] = mem[l[n + 1 - i]].name
  BY <1>1, <1>2, <1>4
<1>7. ASSUME NEW i \in 1 .. n - 1 PROVE b[i] = a[i]
  <2>1. i \in 1 .. n /\ n - i \in 1 .. n /\ n + 1 - i = (n - i) + 1
    BY <1>1
  <2>2. l[n + 1 - i] = lp[n - i]
    BY <1>2, <2>1, Zenon
  <2> QED BY <1>5, <1>6, <2>1, <2>2, Zenon
<1>8. a[n] = mem[k].name
  <2>1. n \in 1 .. n /\ n + 1 - n = 1
    BY <1>1
  <2> QED BY <1>2, <1>6, <2>1
<1>9. /\ n \in Nat /\ n - 1 \in Nat /\ n \in 1 .. n /\ n - 1 \in 0 .. n - 1 /\ n - 1 <= n
  BY <1>1
<1>10. \A i \in 1 .. Len(b) : b[i] = a[i]
  BY <1>5, <1>7, Zenon
<1> QED BY <1>5, <1>6, <1>8, <1>9, <1>10, Zenon DEF a, b, l

LEMMA PathLeads ==
  ASSUME VfsInv, TreeInv, NEW n \in Known, Within(mem, Known \ gone, n)
  PROVE  mem[n].ino \in Reach(RootIno, NamesDown(Lineage[n]))
<1> DEFINE Leads(i) == mem[i].ino \in Reach(RootIno, NamesDown(Lineage[i]))
           S == {i \in Known : Within(mem, Known \ gone, i) /\ ~ Leads(i)}
<1>1. NodesOK /\ NodesTied
  BY Zenon DEF VfsInv, TreeInv
<1>2. S = {}
  <2>1. S \in SUBSET Known
    BY Zenon
  <2>2. ASSUME NEW k \in Known, Within(mem, Known \ gone, k), ~ Leads(k)
        PROVE  mem[k].parent \in S
    <3> DEFINE p == mem[k].parent
               lp == Lineage[p]
               a == NamesDown(Lineage[k])
               b == NamesDown(lp)
    <3> SUFFICES ASSUME p \notin S PROVE Leads(k)
      BY <2>2, Zenon
    <3>1. k \in Ids
      BY Zenon DEF Known
    <3>2. Lineage[k] = IF p = 0 THEN <<k>> ELSE <<k>> \o lp
      BY <1>1, <3>1, LineageIs, Zenon
    <3>3. CASE p = 0
      <4>1. mem[k].ino = RootIno
        BY <2>2, <3>3, ParentIs, Zenon
      <4>2. Lineage[k] = <<k>>
        BY <3>2, <3>3, Zenon
      <4>3. <<k>> \in Seq(Ids) /\ Len(<<k>>) = 1 /\ Len(<<k>>) >= 1 /\ Len(<<k>>) - 1 = 0
        BY <3>1
      <4>4. Len(a) = 0 /\ Len(a) \in Nat
        <5>1. Len(a) = Len(<<k>>) - 1
          BY <4>2, <4>3, NamesDownIs, Zenon
        <5> QED BY <4>3, <5>1
      <4> HIDE DEF a, p, lp, S, Leads
      <4>5. Steps(tree, RootIno, a)[0] = {RootIno}
        BY <4>4, StepsIs
      <4>6. mem[k].ino \in Reach(RootIno, a)
        BY <4>1, <4>4, <4>5, Zenon DEF Reach
      <4> QED BY <4>6, Zenon DEF a, Leads
    <3>4. CASE p # 0
      <4>1. p \in Known /\ Within(mem, Known \ gone, p)
        BY <2>2, <3>4, ParentIs, Zenon
      <4>2. mem[p].ino \in Reach(RootIno, b)
        BY <4>1, Zenon
      <4>3. PICK e \in tree : /\ e.ino = mem[k].ino /\ e.dir = mem[p].ino
                              /\ e.name = mem[k].name
        BY <2>2, <3>4, ParentIs, Zenon
      <4>4. lp \in Seq(Ids) /\ Len(lp) >= 1
        BY <1>1, <4>1, LineageHas, Zenon DEF IsLineage
      <4>5. Lineage[k] = <<k>> \o lp
        BY <3>2, <3>4, Zenon
      <4>6. /\ Len(a) \in Nat /\ Len(b) \in Nat /\ Len(b) = Len(a) - 1
            /\ Len(a) \in 1 .. Len(a) /\ Len(b) \in 0 .. Len(b) /\ Len(b) <= Len(a)
            /\ \A i \in 1 .. Len(b) : b[i] = a[i]
            /\ a[Len(a)] = mem[k].name
        <5> HIDE DEF lp, S, Leads
        <5>1. a = NamesDown(<<k>> \o lp)
          BY <4>5, Zenon
        <5> HIDE DEF a
        <5> QED BY <3>1, <4>4, <5>1, NamesDownOn
      <4> HIDE DEF a, b, p, lp, S, Leads
      <4>7. e.name \notin {".", ".."}
        BY VfsAssumption, Zenon DEF TreeInv, IsTree
      <4>8. mem[k].ino \in Hop(tree, mem[p].ino, mem[k].name)
        BY <4>3, <4>7, Zenon DEF Hop
      <4>9. Steps(tree, RootIno, b)[Len(b)] = Steps(tree, RootIno, a)[Len(b)]
        BY <4>6, StepsPrefix, SMTT(30)
      <4>10. mem[p].ino \in Steps(tree, RootIno, a)[Len(a) - 1]
        BY <4>2, <4>6, <4>9, Zenon DEF Reach
      <4>11. mem[k].ino \in Steps(tree, RootIno, a)[Len(a)]
        BY <4>6, <4>8, <4>10, Advance, Zenon
      <4>12. mem[k].ino \in Reach(RootIno, a)
        BY <4>11, Zenon DEF Reach
      <4> QED BY <4>12, Zenon DEF a, Leads
    <3> QED BY <3>3, <3>4, Zenon
  <2>3. \A k \in S : mem[k].parent \in S
    BY <2>2, Zenon
  <2> HIDE DEF S
  <2> QED BY <1>1, <2>1, <2>3, Zenon DEF NodesTied, NoCircle
<1> QED BY <1>2, Zenon

-----------------------------------------------------------------------------
(* The theorems.                                                           *)

\* Whatever paths are resolved, in whatever order calls come and wherever a
\* lookup finds no memory, a resolution leaves allocated what was allocated before
\* and the node it returns; and the vfs_file structures are those in the table.
THEOREM ResolutionOwnsItsNode == Spec => []MemoryOwned
<1>1. VfsInv => MemoryOwned
  <2> SUFFICES ASSUME VfsInv PROVE MemoryOwned
    BY Zenon
  <2>1. /\ files = Cardinality({f \in Fds : fds[f] # Closed})
        /\ \A f \in Fds : fds[f] # Closed => fds[f].refcount = 1
    BY Zenon DEF VfsInv, TableOK, OpenFds
  <2>2. ASSUME Resolved
        PROVE  /\ live = walk.before \union Owned
               /\ walk.owned => walk.cur \notin walk.before
               /\ /\ walk.cur # 0 /\ walk.from \in live
                  /\ ".." \notin Range(walk.path.names)
                  => walk.cur \in live
    <3>1. /\ live = walk.before \union Owned
          /\ walk.owned => walk.cur \notin walk.before
          /\ ".." \notin Range(walk.path.names) =>
               walk.cur \in {0, walk.from} \/ walk.owned
      BY <2>2, Zenon DEF Resolved, VfsInv, WalkOK
    <3> QED BY <3>1, Zenon DEF Owned
  <2> QED BY <2>1, <2>2, Zenon DEF MemoryOwned
<1> QED BY VfsInvariant, <1>1, PTL

\* As long as no lookup is short of memory, no directory gets a second entry of
\* the same name, by any sequence of calls on any disk without one.
THEOREM NamesStayUnique == Spec => []NamesUnique
<1>1. VfsInv => NamesUnique
  BY Zenon DEF VfsInv
<1> QED BY VfsInvariant, <1>1, PTL

\* Whatever the disk holds, whatever calls came before and whichever parents were
\* freed on the way: a path that resolves leads to what it names in the tree, and
\* one that does not names nothing, or there was no memory, or a name is there twice.
THEOREM PathsLeadWhereTheTreeSays == Spec => []ResolveAgrees
<1>1. VfsInv /\ TreeInv => ResolveAgrees
  <2> SUFFICES ASSUME VfsInv, TreeInv, Resolved,
                      Range(Lineage[walk.from]) \intersect gone = {}
               PROVE  IF walk.cur = 0
                      THEN \/ Reach(mem[walk.from].ino, walk.path.names) = {}
                           \/ walk.nomem \/ ~ Distinct(tree)
                      ELSE mem[walk.cur].ino \in
                             Reach(mem[walk.from].ino, walk.path.names)
    BY Zenon DEF ResolveAgrees
  <2> DEFINE names == walk.path.names
             at == Steps(tree, mem[walk.from].ino, names)
  <2>1. walk.from \in Known
    BY Zenon DEF Resolved, TreeInv, PointersOK
  <2>2. Within(mem, Known \ gone, walk.from)
    BY <2>1, LineageWithin, Zenon DEF VfsInv, TreeInv
  <2>3. Walking
    BY <2>2, Zenon DEF Walking, Resolved
  <2>4. OnTheWay(tree, mem, Known \ gone, walk, pc, at, Len(names))
    BY <2>3, Zenon DEF TreeInv, WalkAgrees
  <2>5. /\ pc = walk.then /\ Len(names) \in Nat /\ walk.at \in Nat \ {0}
    BY DEF Resolved, VfsInv, WalkOK
  <2>6. ASSUME walk.at <= Len(names), at[walk.at] = {} PROVE at[Len(names)] = {}
    <3>1. walk.at \in 0 .. Len(names)
      BY <2>5, <2>6
    <3> HIDE DEF names
    <3> QED BY <2>5, <2>6, <3>1, StepsEnd, Zenon
  <2>7. Reach(mem[walk.from].ino, names) = at[Len(names)]
    BY Zenon DEF Reach
  <2> HIDE DEF at
  <2>8. CASE walk.cur = 0
    BY <2>4, <2>6, <2>7, <2>8, Zenon DEF OnTheWay
  <2>9. CASE walk.cur # 0
    <3>1. walk.at = Len(names) + 1 /\ mem[walk.cur].ino \in at[walk.at - 1]
      BY <2>4, <2>5, <2>9, Zenon DEF OnTheWay
    <3>2. walk.at - 1 = Len(names)
      BY <2>5, <3>1
    <3> QED BY <2>7, <2>9, <3>1, <3>2
  <2> QED BY <2>8, <2>9, Zenon
<1> QED BY <1>1, TreeInvariant, PTL

\* In every state between two calls, the path that get_cwd_string puts together
\* leads to the working directory, if none on it was removed.
THEOREM PwdLeadsToCwd == Spec => []PwdIsTrue
<1>1. VfsInv /\ TreeInv => PwdIsTrue
  <2> SUFFICES ASSUME VfsInv, TreeInv, cwd # 0,
                      Range(Lineage[cwd]) \intersect gone = {}
               PROVE  mem[cwd].ino \in Reach(RootIno, NamesDown(Lineage[cwd]))
    BY Zenon DEF PwdIsTrue, NamesDown
  <2>1. cwd \in Known
    BY Zenon DEF TreeInv, PointersOK
  <2>2. Within(mem, Known \ gone, cwd)
    BY <2>1, LineageWithin, Zenon DEF VfsInv, TreeInv
  <2> QED BY <2>1, <2>2, PathLeads, Zenon
<1> QED BY <1>1, TreeInvariant, PTL

===========================================================================
