------------------------------- MODULE MCFat -------------------------------
(* Clusters of two cells, five of them.  One client makes and removes       *)
(* directories and files in them: the root is full with two entries and     *)
(* grows, and "A" and "a" are one name on disk.  The other writes and reads *)
(* two files, beside a root of two clusters: the disk is full while one of  *)
(* them grows.                                                              *)
EXTENDS Fat32

TreeCalls ==
  {Call("create", <<>>, <<"a">>, 0, 0), Call("create", <<>>, <<"A">>, 0, 0),
   Call("mkdir", <<>>, <<"d">>, 0, 0),
   Call("create", <<"d">>, <<"b", ".", "e">>, 0, 0),
   Call("unlink", <<>>, <<"a">>, 0, 0),
   Call("unlink", <<"d">>, <<"b", ".", "e">>, 0, 0),
   Call("rmdir", <<>>, <<"d">>, 0, 0), Call("ls", <<>>, <<>>, 0, 2)}

FileCalls ==
  {Call("create", <<>>, <<"a">>, 0, 0), Call("create", <<>>, <<"b">>, 0, 0),
   Call("unlink", <<>>, <<"b">>, 0, 0),
   Call("open", <<>>, <<"a">>, 0, 0), Call("truncate", <<>>, <<"a">>, 0, 0),
   Call("open", <<>>, <<"b">>, 0, 0),
   Call("write", <<>>, <<>>, 1, 2), Call("write", <<>>, <<>>, 5, 2),
   Call("read", <<>>, <<>>, 1, 4)}

MCClients == {[calls |-> TreeCalls, root |-> <<2>>],
              [calls |-> FileCalls, root |-> <<2, 6>>]}
=============================================================================
