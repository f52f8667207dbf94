---- MODULE MCNpShell ----
(* Small instances of NpShell: lines of one and two commands with pipes to  *)
(* the next command and past it, files, built-ins, and programs that do    *)
(* not read their input.                                                   *)
EXTENDS NpShell

MCFd == 3 .. 8

run(p) == [prog |-> p, op |-> "none", num |-> 0]
pipe(p, n) == [prog |-> p, op |-> "pipe", num |-> n]
file(p) == [prog |-> p, op |-> "file", num |-> 0]

MCLine ==
    { <<run("cat")>>, <<pipe("cat", 1)>>, <<pipe("cat", 2)>>,
      <<pipe("cat", 1), run("cat")>>, <<pipe("cat", 1), run("noop")>>,
      <<pipe("cat", 1), file("cat")>>, <<pipe("cat", 0)>>,
      <<pipe("builtin", 1)>>, <<run("exit")>> }

\* Lines with which pipes fill up.
MCFullLine ==
    { <<run("cat")>>, <<pipe("cat", 1)>>, <<pipe("cat", 2)>>, <<pipe("cat", 3)>>,
      <<pipe("cat", 1), run("cat")>>, <<run("noop")>> }

MCCommand == UNION {{l[i] : i \in 1 .. Len(l)} : l \in MCLine \cup MCFullLine}
====
