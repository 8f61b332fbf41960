------------------------------ MODULE MCShell ------------------------------
(* Two files, one of them under two names, one in a directory and one that  *)
(* is protected, on a disk that three of them fill.                         *)
EXTENDS Shell

MCPaths == {"a", "./a", "b", "d/a", "/p"}
MCPlace == [p \in MCPaths |-> IF p = "./a" THEN "a" ELSE p]
MCFolders == {"d"}
MCJoin == [d \in MCFolders |-> [p \in MCPaths |-> "d/a"]]
MCFds == {0, 1}
MCDisks == {[p \in {"a", "/p"} |-> IF p = "a" THEN <<1, 2>> ELSE <<2>>],
            [p \in {"b"} |-> <<2>>]}
Two(op, src, dst) == Command(op, src, dst, 0)
One(op, src) == Command(op, src, "", 0)
MCCommands ==
  {One("cat", "a"), One("cat", "d"), One("touch", "a"), One("touch", "d/a"),
   One("rm", "b"), One("rm", "/p"), One("rm", "a"),
   Command("write", "b", "", 1), Command("write", "/p", "", 1),
   Two("cp", "a", "b"), Two("cp", "b", "a"), Two("cp", "a", "./a"),
   Two("mv", "a", "d"), Two("mv", "a", "./a"), Two("mv", "/p", "b"),
   Two("mv", "b", "/p")}
============================================================================
