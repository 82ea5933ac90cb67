------------------------------- MODULE MCMemory -------------------------------
(* Small heaps for Memory.  A unit is one Header of 3 bytes here, and one   *)
(* byte is left over behind the last unit.                                  *)
EXTENDS Memory, TLC

\* base below or above the heap, never touching it.
MCBaseBelow == -2
MCBaseAbove == 9

MCForeign == {NULL, 50}
\* Client data that looks like a header of a chunk: cookie, size and link.
MCJunk == {[ptr |-> 0, size |-> 2, sCode |-> SECRET_CODE]}
MCSymmetry == Permutations(Threads)
=============================================================================
