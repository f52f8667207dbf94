---- MODULE MCClientShm ----
(* Small instances of ClientShm: more users than slots, or three slots.    *)
EXTENDS ClientShm, TLC

CONSTANTS c1, c2, c3

MCSymmetry == Permutations(Conn)
====
