------------------------------- MODULE MCOrdo2 -------------------------------
(* A small kernel 2.0: main(), idle(), gc() and one or two user threads.    *)
EXTENDS Ordo2
=============================================================================
