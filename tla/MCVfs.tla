------------------------------- MODULE MCVfs -------------------------------
(* A volume that is empty and one that was used before, with five inodes;    *)
(* room for five nodes in the heap, so that resolution runs out of memory,   *)
(* and one descriptor, so that the table is full at once.  Fourteen          *)
(* addresses: a freed one is given out again only when that makes no         *)
(* difference.  Paths go through ".", "..", a file used as a directory, the  *)
(* root and the working directory itself.                                   *)
EXTENDS Vfs

Entry(d, n, k, i) == [dir |-> d, name |-> n, kind |-> k, ino |-> i]
MCIds == 1 .. 14
MCFds == {0}
MCInodes == 0 .. 4
MCNames == {"home", "user", "d", "f"}
MCDisks == {{}, {Entry(0, "home", "dir", 1), Entry(1, "user", "dir", 2),
                 Entry(0, "f", "file", 3)}}
MCBootDirs == <<Path(TRUE, <<"home">>), Home>>

Rel(names) == Path(FALSE, names)
Abs(names) == Path(TRUE, names)
Op(op, path) == Call(op, path, {}, 0)
Create == {"CREAT", "WRONLY"}
MCCalls ==
  {Call("open", Rel(<<"f">>), Create, 0),
   Call("open", Rel(<<"f", "f">>), Create, 0),
   Call("open", Abs(<<"f">>), Create, 0),
   Call("open", Rel(<<".">>), {"DIRECTORY"}, 0),
   Op("open", Rel(<<"d", "..", "f">>)), Op("open", Abs(<<>>)),
   Op("close", Rel(<<>>)),
   Op("stat", Rel(<<"f">>)), Op("stat", Abs(<<>>)),
   Op("mkdir", Abs(<<"home", "user", "d">>)), Op("mkdir", Rel(<<".">>)),
   Op("mkdir", Abs(<<"d">>)), Op("mkdir", Rel(<<"f", "f">>)),
   Op("rmdir", Abs(<<"home", "user", "d">>)), Op("rmdir", Abs(<<>>)),
   Op("rmdir", Abs(<<"home">>)), Op("rmdir", Rel(<<"f">>)),
   Op("unlink", Rel(<<"f">>)), Op("unlink", Abs(<<"f">>)),
   Op("unlink", Rel(<<"..">>)),
   Op("cd", Rel(<<"d">>)), Op("cd", Rel(<<"..">>)), Op("cd", Rel(<<"f">>)),
   Op("look", Rel(<<"d">>)), Op("pwd", Rel(<<>>))}
============================================================================
