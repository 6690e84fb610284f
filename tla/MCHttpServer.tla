---------------------------- MODULE MCHttpServer ----------------------------
(* Small instances of HttpServer. *)
EXTENDS HttpServer, TLC

Symmetry == Permutations(Conns)
=============================================================================
