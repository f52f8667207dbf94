---- MODULE MCUserFifo ----
(* Small instances of UserFifo.                                            *)
EXTENDS UserFifo

CONSTANTS c1, c2, c3

cmd(p, r) == [prog |-> p, redir |-> r]
to(n) == [op |-> "to", num |-> n]
from(n) == [op |-> "from", num |-> n]

MCLine ==
    { cmd("program", <<to(1)>>), cmd("program", <<to(2)>>),
      cmd("program", <<from(1)>>), cmd("exit", <<>>) }

(* Users are called in the order they log in.  The instance is as large as *)
(* it can be in one respect at a time: lines, FIFOs both ways, or users,   *)
(* and then all write to user 2, and leave only if their id is given again.*)
Before(c, d) == sh[d].pc # "away" => sh[c].pc # "away"
BothWays == (\E c \in Conn : sh[c].line.redir = <<to(1)>>) \/ \E k \in DOMAIN made : made[k].to = c1

Bound ==
    /\ Before(c1, c2) /\ Before(c2, c3)
    /\ BothWays => typed <= 3
    /\ sh[c3].pc # "away" =>
          /\ typed <= 3
          /\ ~BothWays
          /\ \A c \in Conn : sh[c].line.redir \in {<<>>, <<IF sh[c].id = 2 THEN from(1) ELSE to(2)>>}
          /\ sh[c3].id = 3 => \A c \in Conn : sh[c].pc # "slot"

ASSUME Plain == PlainLines

MCSpec == Init /\ [][Next /\ Bound']_vars /\ Fairness
====
