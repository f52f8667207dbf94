---- MODULE MCShellPipes ----
(* A small instance of ShellPipes: commands of every kind, pipes numbered   *)
(* -1 .. 3, and five descriptors, so that two pending pipes and one open   *)
(* file exhaust the table.                                                 *)
EXTENDS ShellPipes

MCFd == 3 .. 7
MCCommand ==
    [prog : {"noop", "builtin"}, op : {"pipe"}, num : {-1, 0, 1, 2, 3}]
      \cup [prog : {"noop", "builtin", "exit"}, op : {"none"}, num : {0}]
      \cup [prog : {"noop"}, op : {"file"}, num : {0}]
====
