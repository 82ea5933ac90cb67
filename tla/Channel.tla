-------------------------------- MODULE Channel --------------------------------
(***************************************************************************)
(* What sensorsNetwork.c is there for, whatever the sizes of the calls:    *)
(* messages, numbered as they come, are taken in and given out whole, in   *)
(* their order, each at most once; when the server stops it may lose the   *)
(* one it is giving out.                                                   *)
(***************************************************************************)
EXTENDS Naturals, Sequences

VARIABLES
    taken,     \* how many messages were taken in
    waiting,   \* those not given out yet
    delivered  \* those that were given out

channel == <<taken, waiting, delivered>>

Init == taken = 0 /\ waiting = <<>> /\ delivered = <<>>

TakeIn ==
    /\ taken' = taken + 1
    /\ waiting' = Append(waiting, taken + 1)
    /\ UNCHANGED delivered

GiveOut ==
    /\ waiting # <<>>
    /\ delivered' = Append(delivered, Head(waiting))
    /\ waiting' = Tail(waiting)
    /\ UNCHANGED taken

Lose == waiting # <<>> /\ waiting' = Tail(waiting) /\ UNCHANGED <<taken, delivered>>

Next == TakeIn \/ GiveOut \/ Lose
Spec == Init /\ [][Next]_channel
==============================================================================
