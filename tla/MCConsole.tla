---- MODULE MCConsole ----
(* A small instance of Console: two hosts, output with and without a       *)
(* percent sign.                                                           *)
EXTENDS Console

CONSTANTS h1, h2

MCScript(h) == IF h = h1 THEN <<"cmd", "cmd", "exit">> ELSE <<"cmd", "exit">>
MCOutput == {<<>>, <<"other">>, <<"space">>, <<"other", "percent", "other">>}
====
