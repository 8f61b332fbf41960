------------------------------- MODULE Fat32 -------------------------------
(***************************************************************************)
(* The FAT32 driver (fs/fat32/fat32.c): the allocation table, directories  *)
(* and files on disk.  Every write to the disk is a step, so that each     *)
(* state is one that a loss of power may leave; reads go with the step     *)
(* that uses them, as nothing else writes meanwhile.                       *)
(*                                                                         *)
(* A cluster holds CellsPerCluster cells.  In a directory a cell is an     *)
(* entry, in a file it is a unit of data.  The second copy of the table,   *)
(* which is written and never read, and the time stamps are left out.      *)
(***************************************************************************)
EXTENDS Name83, Integers, FiniteSetsExt

CONSTANTS
  TotalClusters,     \* total_clusters
  CellsPerCluster,   \* cluster_size
  Clients,           \* programs and the volumes they find: [calls, root]
  MaxCrashes         \* bound on losses of power that the model follows

ASSUME Fat32Assumption ==
  /\ BaseWidth \in Nat \ {0} /\ ExtWidth \in Nat
  /\ TotalClusters \in Nat \ {0} /\ CellsPerCluster \in Nat \ {0}
  /\ MaxCrashes \in Nat
  /\ \A k \in Clients : /\ k.root[1] = 2
                        /\ \A c \in k.calls : c.op = "mkdir" => c.path = <<>>

VARIABLES
  fat,               \* the table: FREE, a next cluster or EOC
  disk,              \* the cells of each cluster
  file,              \* the node of the open file, or NoFile
  pc,                \* "idle", or the next disk write or loop of a call
  l,                 \* the call under way: its arguments and locals
  result,            \* of the last call: 0, -1 or a count of cells
  crashes,
  client             \* the program that runs; root is the chain of the root

vars == <<fat, disk, file, pc, l, result, crashes, client>>

Cluster == 2 .. TotalClusters + 1
FREE == 0
EOC == TotalClusters + 2    \* FAT32_EOC_MAX, above every cluster number
ROOT == 2                   \* root_cluster

Index == 0 .. CellsPerCluster - 1

\* A cell: kind is "end" (its first byte is 0), "deleted" (0xE5), "file" and
\* "dir" (an entry), or "data".  A unit of data is told by its size field.
Cell(k, n, f, s) == [kind |-> k, name |-> n, first |-> f, size |-> s]
Zero == Cell("end", <<>>, 0, 0)
Deleted == Cell("deleted", <<>>, 0, 0)
Data(k) == Cell("data", <<>>, 0, k)
ZeroCluster == [x \in Index |-> Zero]

NoFile == [first |-> 0, dir_cluster |-> 0, dir_offset |-> 0, size |-> 0]
NoEntry == <<0, 0>>

Call(op, path, name, offset, count) ==
  [op |-> op, path |-> path, name |-> name, offset |-> offset, count |-> count]

\* The locals: new is new_cluster, prev is prev_cluster or new_dir_cluster, done
\* bytes_read or bytes_written, at the entry to be removed, buf what a read has
\* put in the caller's buffer.
Locals(c, d, first) ==
  [call |-> c, dir |-> d, cluster |-> first, new |-> 0, prev |-> 0, i |-> 0,
   done |-> 0, at |-> NoEntry, buf |-> <<>>]
NoCall == Locals(Call("none", <<>>, <<>>, 0, 0), 0, 0)

Init ==   \* fat32_mount of an empty volume
  /\ client \in Clients
  /\ fat = [c \in Cluster |->
              IF c \notin ToSet(client.root) THEN FREE
              ELSE IF c = Last(client.root) THEN EOC
              ELSE client.root[1 + SelectInSeq(client.root, LAMBDA e : e = c)]]
  /\ disk = [c \in Cluster |-> ZeroCluster]
  /\ file = NoFile
  /\ pc = "idle" /\ l = NoCall
  /\ result = 0 /\ crashes = 0

Return(r) == pc' = "idle" /\ l' = NoCall /\ result' = r
Go(label, locals) == pc' = label /\ l' = locals /\ result' = 0

-----------------------------------------------------------------------------
(* The allocation table.                                                   *)

FreeClusters == {c \in Cluster : fat[c] = FREE}
Lowest == Min(FreeClusters)

\* Faulty: the cluster is not marked in the table.
alloc_cluster_NoMark == FreeClusters # {} /\ UNCHANGED fat

\* fat32_alloc_cluster, when there is a free one: the lowest.
alloc_cluster == FreeClusters # {} /\ fat' = [fat EXCEPT ![Lowest] = EOC]

Next_cluster == [c \in 0 .. EOC |-> IF c \in Cluster THEN fat[c] ELSE c]

\* F(v), with v evaluated once.
Using(v, F(_)) == CHOOSE y \in {F(x) : x \in {v}} : TRUE

\* The clusters the loop "while (cluster >= 2 && cluster < FAT32_EOC_MIN)"
\* visits from c on; of a chain that does not end, as many as there are.
Chain(c) ==
  Using(Next_cluster, LAMBDA next :
    LET g[n \in Nat] == IF n = 0 THEN c ELSE next[g[n - 1]]
    IN  SelectSeq([k \in 1 .. TotalClusters |-> g[k - 1]],
                  LAMBDA x : x \in Cluster))

-----------------------------------------------------------------------------
(* Directories.                                                            *)

\* The places of a directory's cells, in the order in which they are read.
Places(d) ==
  Using(Chain(d), LAMBDA ch :
    [k \in 1 .. Len(ch) * CellsPerCluster |->
       <<ch[(k - 1) \div CellsPerCluster + 1], (k - 1) % CellsPerCluster>>])

At(p) == disk[p[1]][p[2]]
IsEntry(p) == At(p).kind \in {"file", "dir"}

\* The entries in front of the first end mark.
Entries(d) ==
  Using(Places(d), LAMBDA ps :
    LET end == SelectInSeq(ps, LAMBDA p : At(p).kind = "end")
    IN  SelectSeq(IF end = 0 THEN ps ELSE SubSeq(ps, 1, end - 1), IsEntry))

\* The first of them with this name, of these kinds.
Find(d, name, kinds) ==
  Using(Entries(d), LAMBDA es :
    LET k == SelectInSeq(es, LAMBDA p : /\ At(p).kind \in kinds
                                        /\ name_from_83(At(p).name) = name)
    IN  IF k = 0 THEN NoEntry ELSE es[k])

lookup(d, name) == Find(d, name, {"file", "dir"})

\* The directory a path names, if there is one: the root, or one in the root.
Resolve(path) ==
  IF path = <<>> THEN {ROOT}
  ELSE {At(p).first : p \in {q \in {lookup(ROOT, path)} :
                               q # NoEntry /\ At(q).kind = "dir"}}

\* fat32_create and fat32_mkdir: the name is looked up and a cluster taken.
create(c) ==
  /\ c.op \in {"create", "mkdir"}
  /\ pc = "idle"
  /\ \E d \in Resolve(c.path) :
       LET ok == is_valid_name(c.name) /\ lookup(d, c.name) = NoEntry
       IN  \/ /\ ok /\ alloc_cluster
              /\ Go("zero", [Locals(c, d, d) EXCEPT !.new = Lowest])
           \/ /\ ~ ok \/ FreeClusters = {}
              /\ Return(-1)
              /\ UNCHANGED fat
  /\ UNCHANGED <<disk, file, crashes>>

create_zero ==
  /\ pc = "zero"
  /\ disk' = [disk EXCEPT ![l.new] = ZeroCluster]
  /\ Go("slot", l)
  /\ UNCHANGED <<fat, file, crashes>>

FreeSlots == {x \in Index : disk[l.cluster][x].kind \in {"end", "deleted"}}

NewEntry == Cell(IF l.call.op = "mkdir" THEN "dir" ELSE "file",
                 name_to_83(l.call.name), l.new, 0)

\* Faulty: the cluster that was taken for the new file is forgotten.
release_new_Missing == UNCHANGED fat

\* A call that fails gives back the cluster of the new file.
release_new == fat' = [fat EXCEPT ![l.new] = FREE]

\* Faulty: the loop stays where it is.
advance_Missing == l

advance == [l EXCEPT !.cluster = fat[@]]

\* The loop over the directory's clusters: the entry goes into the first free
\* slot; behind the last cluster another one is taken.
create_slot ==
  /\ pc = "slot"
  /\ \/ /\ FreeSlots # {}
        /\ disk' = [disk EXCEPT ![l.cluster][Min(FreeSlots)] = NewEntry]
        /\ Return(0)
        /\ UNCHANGED fat
     \/ /\ FreeSlots = {} /\ fat[l.cluster] \in Cluster
        /\ Go("slot", advance)
        /\ UNCHANGED <<fat, disk>>
     \/ /\ FreeSlots = {} /\ fat[l.cluster] = EOC
        /\ alloc_cluster
        /\ Go("link", [l EXCEPT !.prev = Lowest])
        /\ UNCHANGED disk
     \/ /\ FreeSlots = {} /\ fat[l.cluster] \notin Cluster
        /\ fat[l.cluster] = EOC => FreeClusters = {}
        /\ release_new
        /\ Return(-1)
        /\ UNCHANGED disk
  /\ UNCHANGED <<file, crashes>>

create_link ==
  /\ pc = "link"
  /\ fat' = [fat EXCEPT ![l.cluster] = l.prev]
  /\ Go("clear", [l EXCEPT !.cluster = l.prev])
  /\ UNCHANGED <<disk, file, crashes>>

create_clear ==
  /\ pc = "clear"
  /\ disk' = [disk EXCEPT ![l.cluster] = ZeroCluster]
  /\ Go("slot", l)
  /\ UNCHANGED <<fat, file, crashes>>

\* The client removes nothing that it has open.
Closed(p) == p # <<file.dir_cluster, file.dir_offset>>

\* Faulty: the entries of the directory are not looked at.
is_empty_Unchecked(d) == TRUE

\* What fat32_rmdir asks of a directory.
is_empty(d) == Entries(d) = <<>>

\* The chain of the entry at p is about to be freed.
found(c, d, p) == Go("free", [Locals(c, d, At(p).first) EXCEPT !.at = p])

unlink(c) ==
  /\ c.op = "unlink"
  /\ pc = "idle"
  /\ \E d \in Resolve(c.path) : \E p \in {Find(d, c.name, {"file"})} :
       \/ p # NoEntry /\ Closed(p) /\ found(c, d, p)
       \/ p = NoEntry /\ Return(-1)
  /\ UNCHANGED <<fat, disk, file, crashes>>

rmdir(c) ==
  /\ c.op = "rmdir"
  /\ pc = "idle"
  /\ \E d \in Resolve(c.path) : \E p \in {lookup(d, c.name)} :
       LET ok == p # NoEntry /\ At(p).kind = "dir" /\ is_empty(At(p).first)
       IN  \/ ok /\ found(c, d, p)
           \/ ~ ok /\ Return(-1)
  /\ UNCHANGED <<fat, disk, file, crashes>>

free_chain ==
  /\ pc = "free"
  /\ \/ /\ l.cluster \in Cluster
        /\ fat' = [fat EXCEPT ![l.cluster] = FREE]
        /\ Go("free", advance)
     \/ /\ l.cluster \notin Cluster
        /\ Go("mark", l)
        /\ UNCHANGED fat
  /\ UNCHANGED <<disk, file, crashes>>

\* The entry is marked 0xE5.  fat32_rmdir looks for it again.
mark ==
  /\ pc = "mark"
  /\ \E p \in {IF l.call.op = "rmdir" THEN lookup(l.dir, l.call.name) ELSE l.at} :
       /\ disk' = IF p = NoEntry THEN disk
                  ELSE [disk EXCEPT ![p[1]][p[2]] = Deleted]
       /\ Return(IF p = NoEntry THEN -1 ELSE 0)
  /\ UNCHANGED <<fat, file, crashes>>

-----------------------------------------------------------------------------
(* Listing a directory: ls opens it and calls fat32_readdir until nothing   *)
(* comes.  l.i is the entry index kept in the descriptor's offset.          *)

list(c) ==
  /\ c.op = "ls"
  /\ pc = "idle"
  /\ \E d \in Resolve(c.path) : Go("readdir", Locals(c, d, d))
  /\ UNCHANGED <<fat, disk, file, crashes>>

\* The next entries: as many as the caller's array holds, or those in front of
\* a cluster that cannot be read.
readdir ==
  /\ pc = "readdir"
  /\ \E ps \in {Places(l.dir)} :
       LET end == SelectInSeq(ps, LAMBDA p : At(p).kind = "end")
           ahead == SelectSeq([k \in DOMAIN ps |-> k], LAMBDA k :
                      k > l.i /\ IsEntry(ps[k]) /\ (end # 0 => k < end))
           all == Min({l.call.count, Len(ahead)})
       IN  \/ ahead = <<>> /\ Return(l.done)
           \/ \E n \in 1 .. all :
                /\ n < all => ps[ahead[n]][1] # ps[ahead[n + 1]][1]
                /\ Go("readdir", [l EXCEPT !.i = ahead[n], !.done = @ + n,
                        !.buf = @ \o [k \in 1 .. n |-> At(ps[ahead[k]])]])
  /\ UNCHANGED <<fat, disk, file, crashes>>

-----------------------------------------------------------------------------
(* Files.  The VFS opens one by a lookup, which copies what the entry says *)
(* of the file into a node; with O_TRUNC it sets the node's size to 0.     *)

open(c) ==
  /\ c.op \in {"open", "truncate"}
  /\ pc = "idle"
  /\ \E d \in Resolve(c.path) : \E p \in {lookup(d, c.name)} :
       /\ p # NoEntry /\ At(p).kind = "file"
       /\ file' = [first |-> At(p).first, dir_cluster |-> p[1],
                   dir_offset |-> p[2],
                   size |-> IF c.op = "truncate" THEN 0 ELSE At(p).size]
  /\ UNCHANGED <<fat, disk, pc, l, result, crashes>>

close ==
  /\ pc = "idle" /\ file # NoFile
  /\ file' = NoFile
  /\ UNCHANGED <<fat, disk, pc, l, result, crashes>>

\* fat32_read and fat32_write begin.
transfer(c) ==
  /\ c.op \in {"read", "write"}
  /\ pc = "idle" /\ file # NoFile
  /\ Go(IF c.op = "read" THEN "read_seek" ELSE "write_seek",
        Locals(c, 0, file.first))
  /\ UNCHANGED <<fat, disk, file, crashes>>

cluster_offset == l.call.offset \div CellsPerCluster
byte_offset == IF l.done = 0 THEN l.call.offset % CellsPerCluster ELSE 0

\* Faulty: not cut at the end of the file.
Readable_PastEnd == l.call.count

\* The count of a read, cut at the end of the file.
Readable == IF l.call.offset >= file.size THEN 0
            ELSE Min({l.call.count, file.size - l.call.offset})

\* As much as the current cluster has room for.
Portion(count) == Min({CellsPerCluster - byte_offset, count - l.done})

read_seek ==
  LET more == /\ Readable > 0 /\ l.i < cluster_offset
              /\ l.cluster \in Cluster
  IN  /\ pc = "read_seek"
      /\ \/ /\ more
            /\ Go("read_seek", [l EXCEPT !.cluster = fat[@], !.i = @ + 1])
         \/ ~ more /\ Go("read_copy", l)
      /\ UNCHANGED <<fat, disk, file, crashes>>

read_copy ==
  LET more == l.done < Readable /\ l.cluster \in Cluster
      n == Portion(Readable)
  IN  /\ pc = "read_copy"
      /\ \/ /\ more
            /\ Go("read_copy", [l EXCEPT !.cluster = fat[@], !.done = @ + n,
                   !.buf = @ \o [k \in 1 .. n |->
                                   disk[l.cluster][byte_offset + k - 1]]])
         \/ ~ more /\ Return(l.done)
      /\ UNCHANGED <<fat, disk, file, crashes>>

\* The loop to the cluster of the offset, which extends a file that ends before.
write_seek ==
  /\ pc = "write_seek"
  /\ \/ /\ l.i = cluster_offset
        /\ Go("write_copy", l)
        /\ UNCHANGED fat
     \/ /\ l.i < cluster_offset /\ l.cluster \in Cluster
        /\ Go("write_seek", [l EXCEPT !.prev = l.cluster,
                                      !.cluster = fat[@], !.i = @ + 1])
        /\ UNCHANGED fat
     \/ /\ l.i < cluster_offset /\ l.cluster = EOC
        /\ alloc_cluster
        /\ Go("seek_link", [l EXCEPT !.new = Lowest])
     \/ /\ l.i < cluster_offset /\ l.cluster = EOC /\ FreeClusters = {}
        /\ Return(-1)
        /\ UNCHANGED fat
  /\ UNCHANGED <<disk, file, crashes>>

\* The new cluster is linked to the file.
write_link ==
  /\ pc \in {"seek_link", "copy_link"}
  /\ fat' = [fat EXCEPT ![l.prev] = l.new]
  /\ Go(IF pc = "seek_link" THEN "write_seek" ELSE "write_copy",
        [l EXCEPT !.cluster = l.new])
  /\ UNCHANGED <<disk, file, crashes>>

\* Faulty: the offset within the first cluster is left out.
Written_FromZero(n) == 0 .. n - 1

\* The cells of the cluster that a portion of n overwrites.
Written(n) == byte_offset .. byte_offset + n - 1

\* The loop over the clusters of the data.
write_copy ==
  LET n == Portion(l.call.count)
  IN  /\ pc = "write_copy"
      /\ \/ /\ \/ l.done = l.call.count
               \/ l.cluster = EOC /\ FreeClusters = {}
            /\ Go("update", l)
            /\ UNCHANGED <<fat, disk>>
         \/ /\ l.done < l.call.count /\ l.cluster = EOC
            /\ alloc_cluster
            /\ Go("copy_link", [l EXCEPT !.new = Lowest])
            /\ UNCHANGED disk
         \/ /\ l.done < l.call.count /\ l.cluster \in Cluster
            /\ disk' = [disk EXCEPT ![l.cluster] = [x \in Index |->
                          IF x \in Written(n)
                          THEN Data(l.done + x - byte_offset) ELSE @[x]]]
            /\ Go("write_copy", [l EXCEPT !.done = @ + n, !.prev = l.cluster,
                                          !.cluster = fat[@]])
            /\ UNCHANGED fat
      /\ UNCHANGED <<file, crashes>>

NewSize == Max({file.size, l.call.offset + l.done})

\* The new size, in the node and, by fat32_update_dir_entry, in the entry.
write_update ==
  /\ pc = "update"
  /\ file' = [file EXCEPT !.size = NewSize]
  /\ disk' = [disk EXCEPT ![file.dir_cluster][file.dir_offset] =
                [@ EXCEPT !.size = NewSize, !.first = file.first]]
  /\ Return(l.done)
  /\ UNCHANGED <<fat, crashes>>

\* A transfer of a cluster fails, and stores nothing, in a loop that then gives
\* up.  Failures that the code does not look at are not followed.
io_error ==
  /\ \/ pc = "slot"
     \/ pc = "readdir"
     \/ pc = "read_copy" /\ l.done < Readable /\ l.cluster \in Cluster
     \/ pc = "write_copy" /\ l.done < l.call.count /\ l.cluster \in Cluster
  /\ IF pc = "slot" THEN release_new ELSE UNCHANGED fat
  /\ Return(IF l.done > 0 \/ pc = "readdir" THEN l.done ELSE -1)
  /\ UNCHANGED <<disk, file, crashes>>

\* Power is lost.  Not followed from the states in which a chain is half freed,
\* or a directory has a cluster that is not cleared yet.
crash ==
  /\ crashes < MaxCrashes
  /\ pc \notin {"free", "mark", "clear"}
  /\ Return(-1)
  /\ file' = NoFile
  /\ crashes' = crashes + 1
  /\ UNCHANGED <<fat, disk>>

Step ==
  \/ create_zero \/ create_slot \/ create_link \/ create_clear
  \/ free_chain \/ mark
  \/ readdir \/ read_seek \/ read_copy
  \/ write_seek \/ write_link \/ write_copy \/ write_update

Next ==
  /\ UNCHANGED client
  /\ \/ \E c \in client.calls : \/ create(c) \/ unlink(c) \/ rmdir(c)
                                  \/ open(c) \/ transfer(c) \/ list(c)
     \/ close \/ Step \/ io_error \/ crash

Spec == Init /\ [][Next]_vars

\* A call that has begun runs on.
Fairness == WF_vars(Step /\ UNCHANGED client)

FairSpec == Spec /\ Fairness

-----------------------------------------------------------------------------
(* Properties.                                                             *)

\* The first clusters of all directories.
Folders == {ROOT} \union {At(p).first : p \in {q \in ToSet(Entries(ROOT)) :
                                               At(q).kind = "dir"}}

\* The places of all entries in the tree.
Listed == UNION {ToSet(Entries(d)) : d \in Folders}

\* The entry that is being removed, whose chain is half freed.
Victim == IF pc \in {"free", "mark"} THEN {l.at} ELSE {}

\* The chains of the root and of the entries, each by its first cluster.
Heads == {ROOT} \union {At(p).first : p \in Listed \ Victim}

Files == {At(p) : p \in {q \in Listed \ Victim : At(q).kind = "file"}}

\* In every state, and so after a loss of power in that state: the chain of each
\* entry is whole, ends in the end mark and has no cluster in common with
\* another one; only the entry that is just being removed may dangle.  The size
\* that an entry states is there: at most a part of one cluster is not, which is
\* what a write leaves that finds the disk full at its first cluster.
ChainsIntact ==
  /\ \A c \in Heads : /\ c \in Cluster
                      /\ fat[Last(Chain(c))] = EOC
                      /\ IsInjective(Chain(c))
  /\ \A c, d \in Heads : c # d => ToSet(Chain(c)) \intersect ToSet(Chain(d)) = {}
  /\ \A p, q \in Listed : p # q => At(p).first # At(q).first
  /\ \A f \in Files :
       f.size <= CellsPerCluster * Len(Chain(f.first)) + CellsPerCluster - 1

\* Between calls every cluster is free or belongs to an entry: failures half way
\* through a call, as when the disk is full, give back what they took.  Only a
\* loss of power may cost clusters.
NoLostClusters ==
  pc = "idle" /\ crashes = 0 =>
    Cluster \ FreeClusters = UNION {ToSet(Chain(c)) : c \in Heads}

\* The data of the file that begins at a cluster, its last cluster in full.
Contents(c) == LET ps == Places(c) IN [k \in DOMAIN ps |-> At(ps[k])]

\* What a read asks for, and what there is of it.
Requested ==
  LET data == Contents(file.first)
  IN  SubSeq(data, l.call.offset + 1,
             Min({file.size, l.call.offset + l.call.count, Len(data)}))

Listing(d) == LET es == Entries(d) IN [k \in DOMAIN es |-> At(es[k])]

\* A call ends with this in the caller's buffer, or a part of it and an error.
Returned(stored) ==
  /\ IsPrefix(l.buf, stored)
  /\ result' = Len(l.buf)
  /\ result' = Len(stored) \/ io_error

\* A read returns the cells of the file from its offset on, across clusters: as
\* many as were asked for, are in front of the end of the file and have a
\* cluster.  A listing returns every entry of the directory once, in order,
\* however the entries fall into clusters and calls of readdir.  Both return
\* less only when a transfer fails.
ReadReturnsContents ==
  [][pc' = "idle" /\ result' # -1 =>
       /\ pc = "read_copy" => Returned(Requested)
       /\ pc = "readdir" => Returned(Listing(l.dir))]_vars

\* The cells of a file in front of its end stay the file's, in their order, and
\* change only where a write under way puts its data: neither the extension of
\* another file or of a directory, nor the removal of another entry, nor writing
\* back a whole cluster of which a part is new, touches any other cell.
WritesStayInFile ==
  [][\A f \in Files :
       LET ps == Places(f.first)
       IN  /\ IsPrefix(Chain(f.first), Chain(f.first)')
           /\ \A k \in 1 .. Min({f.size, Len(ps)}) :
                At(ps[k])' # At(ps[k]) =>
                  /\ pc = "write_copy" /\ f.first = file.first
                  /\ k - 1 - l.call.offset \in l.done .. l'.done - 1]_vars

\* The entries as a tree: each directory known by its first cluster.
Tree == UNION {{[dir |-> d, name |-> name_from_83(At(p).name),
                 kind |-> At(p).kind, ino |-> At(p).first] :
                  p \in ToSet(Entries(d))} : d \in Folders}

Names == {Stored(c.name) : c \in UNION {k.calls : k \in Clients}}

Abstract == INSTANCE Directory WITH
  Root <- ROOT, Inodes <- Cluster, Kinds <- {"file", "dir"}, tree <- Tree

\* The calls on directories, each several writes to the disk, are atomic steps
\* on a tree of names: a new entry appears at once and complete, one that is
\* removed disappears alone and has nothing below it, and neither an extension
\* of a directory nor a loss of power changes what is listed.
AtomicOnTree == Abstract!Spec

\* Every call on the file system returns: no chain it follows leads back into
\* itself, and the loops that extend a file or a directory end, on a full disk
\* too.
CallsReturn == pc # "idle" ~> pc = "idle"

=============================================================================
