---- MODULE MCSocksServer ----
(* A small instance of SocksServer: a client that may be rejected once,    *)
(* arrays of two cells, and up to two cells of data each way.              *)
EXTENDS SocksServer

MCRequest == {<<4, 1, 7>>, <<4, 2, 8>>, <<5, 1, 7>>}

rule(m, a) == [mode |-> m, addrs |-> a]

\* CONNECT to one address, BIND for all; with and without a last newline.
MCConf ==
    { [rules |-> <<rule(1, {7}), rule(2, {7, 8})>>, newline |-> b] : b \in BOOLEAN }
====
