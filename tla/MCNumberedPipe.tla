---- MODULE MCNumberedPipe ----
(* A small instance of NumberedPipe.                                       *)
EXTENDS NumberedPipe
MCOffset == {-1, 0, 1, 2, 3}
====
