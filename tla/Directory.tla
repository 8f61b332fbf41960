------------------------------ MODULE Directory ------------------------------
(***************************************************************************)
(* What a file system promises of its names: a tree of files and           *)
(* directories to which a call adds one, or from which it takes one that   *)
(* has nothing below it.  A file is known by its inode number.             *)
(***************************************************************************)
CONSTANTS
  Root,           \* the inode number of the root directory
  Inodes, Names, Kinds

VARIABLE tree     \* the entries: inode number of the directory they are in,
                  \* name, kind and inode number

Below(i) == {e \in tree : e.dir = i}
Folders == {Root} \union {e.ino : e \in {f \in tree : f.kind = "dir"}}

Init == tree = {}

Entry == [dir : Inodes, name : Names, kind : Kinds, ino : Inodes]

Add(e) ==
  /\ e \in Entry
  /\ e.dir \in Folders
  /\ e.ino # Root /\ \A f \in tree : f.ino # e.ino
  /\ tree' = tree \union {e}

Remove(e) ==
  /\ Below(e.ino) = {}
  /\ tree' = tree \ {e}

Next ==
  \E old \in {tree}, new \in {tree'} :
    \/ \E e \in new \ old : Add(e)
    \/ \E e \in old \ new : Remove(e)

Spec == Init /\ [][Next]_tree

=============================================================================
