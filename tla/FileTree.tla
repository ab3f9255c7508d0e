------------------------------ MODULE FileTree ------------------------------
(***************************************************************************)
(* What the file system of sfs.c promises: a tree of files and directories *)
(* to which create and mkdir add one node at a time, in a directory that   *)
(* exists, under a name that is free there.  There are no removals: unlink *)
(* and rmdir of sfs.c do nothing.                                          *)
(***************************************************************************)
EXTENDS Integers, Sequences

CONSTANT Path   \* the paths, sequences of names without the root << >>

VARIABLE tree   \* a set of <<path, "dir" or "file">>

Init == tree = {}

IsDir(path) == path = << >> \/ <<path, "dir">> \in tree

Add(path, kind) ==
  /\ path \in Path /\ kind \in {"dir", "file"}
  /\ IsDir(SubSeq(path, 1, Len(path) - 1))
  /\ \A node \in tree : node[1] # path
  /\ tree' = tree \union {<<path, kind>>}

\* A step adds a node, and nothing but that node.
Next == \E node \in tree' \ tree : Add(node[1], node[2])

Spec == Init /\ [][Next]_tree
=============================================================================
