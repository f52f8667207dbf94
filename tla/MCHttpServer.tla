---- MODULE MCHttpServer ----
(* A small instance of HttpServer.                                         *)
EXTENDS HttpServer

CONSTANTS c1, c2
====
