------------------------------ MODULE Channel ------------------------------
(***************************************************************************)
(* What a relay promises for one direction: the sink receives what the     *)
(* source sent, in order and without a gap, and is told that it is over    *)
(* only when it has everything.  A channel that is torn (one end reset its *)
(* connection, or the relay was refused) may be over early; after it is    *)
(* spoilt nothing is promised.                                             *)
(***************************************************************************)
EXTENDS Naturals, Sequences

VARIABLES
    sent,     \* what the source has sent
    done,     \* the source has said that it is finished
    got,      \* what the sink has received
    ended,    \* the sink was told that it is over
    torn,     \* the end may come early
    spoilt    \* nothing is promised any more

vars == <<sent, done, got, ended, torn, spoilt>>

Init ==
    /\ sent = <<>> /\ got = <<>>
    /\ done = FALSE /\ ended = FALSE
    /\ torn = FALSE /\ spoilt = FALSE

Prefix(n) == SubSeq(sent, 1, n)

Put ==
    /\ ~done
    /\ Len(sent') = Len(sent) + 1 /\ SubSeq(sent', 1, Len(sent)) = sent
    /\ UNCHANGED <<done, got, ended, torn, spoilt>>

Finish == done' = TRUE /\ UNCHANGED <<sent, got, ended, torn, spoilt>>

Take ==
    /\ ~ended
    /\ \E n \in Len(got) + 1 .. Len(sent) : got' = Prefix(n)
    /\ UNCHANGED <<sent, done, ended, torn, spoilt>>

End ==
    /\ ended' = TRUE
    /\ \/ done /\ got = sent /\ UNCHANGED torn
       \/ torn' = TRUE
    /\ UNCHANGED <<sent, done, got, spoilt>>

Tear == torn' = TRUE /\ UNCHANGED <<sent, done, got, ended, spoilt>>

Spoil == spoilt' = TRUE

Next == Put \/ Finish \/ Take \/ End \/ Tear \/ Spoil

Spec == Init /\ [][Next]_vars
=============================================================================
