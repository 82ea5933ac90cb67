------------------------------- MODULE MCOrdo3 -------------------------------
(* Small kernels for Ordo3: main(), idle() and two or three workers.        *)
EXTENDS Ordo3, TLC

MCSymmetry == Permutations(Ctx \ {Main, Idle}) \cup Permutations(Data)
=============================================================================
