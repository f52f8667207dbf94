---- MODULE MCSingleProc ----
(* Small instances of SingleProc.                                          *)
EXTENDS SingleProc, TLC

CONSTANTS c1, c2, c3

MCConn == {c1, c2, c3}
MCSymmetry == Permutations(MCConn)

\* Some descriptors are also ids, as they are with 30 clients.
MCFd == 2 .. 7

cmd(p, r) == [prog |-> p, redir |-> r, arg |-> 0]
tell(n) == [prog |-> "tell", redir |-> <<>>, arg |-> n]
to(n) == [op |-> "to", num |-> n]
from(n) == [op |-> "from", num |-> n]
pipe(n) == [op |-> "pipe", num |-> n]

\* A redirection at most to each side, as long as it cannot fail half-way.
MCLine ==
    { <<cmd("noop", <<to(1)>>)>>, <<cmd("noop", <<to(2)>>)>>,
      <<cmd("noop", <<from(1), pipe(1)>>), tell(2)>>,
      <<cmd("noop", <<from(2), pipe(1)>>), cmd("yell", <<>>)>>,
      <<cmd("who", <<pipe(2)>>)>>,
      <<cmd("exit", <<>>)>> }

\* Lines of a run in which users hang up.
MCHangUpLine ==
    { <<cmd("noop", <<to(1)>>)>>, <<cmd("noop", <<from(2)>>)>>, <<cmd("exit", <<>>)>> }
====
