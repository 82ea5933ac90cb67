------------------------------ MODULE Allocator ------------------------------
(***************************************************************************)
(* What kernel/memory/memory.h promises its callers: gMalloc gives a block *)
(* that no other caller has, and NULL only when no room is left for it;    *)
(* gFree gives the block back.  How the free memory is found is left out.  *)
(***************************************************************************)
EXTENDS Integers

CONSTANTS Threads, HeapUnits, Sizes

VARIABLES
    up,       \* initMemory was called and destroyMemory was not
    held,     \* the blocks that callers have
    asked     \* the size each caller waits for, 0 when it waits for none

vars == <<up, held, asked>>

\* Nothing of at .. at+n-1 is in a held block.
Gap(at, n) ==
    /\ at + n <= HeapUnits
    /\ \A b \in held : at + n <= b.at \/ b.at + b.n <= at

Init == up = FALSE /\ held = {} /\ asked = [t \in Threads |-> 0]

Start == ~up /\ held = {} /\ up' = TRUE /\ UNCHANGED <<held, asked>>
Stop == up /\ up' = FALSE /\ UNCHANGED <<held, asked>>

Ask(t, n) ==
    /\ up /\ asked[t] = 0
    /\ asked' = [asked EXCEPT ![t] = n]
    /\ UNCHANGED <<up, held>>

Grant(t, at) ==
    /\ asked[t] > 0 /\ Gap(at, asked[t])
    /\ held' = held \cup {[at |-> at, n |-> asked[t]]}
    /\ asked' = [asked EXCEPT ![t] = 0]
    /\ UNCHANGED up

Refuse(t) ==
    /\ asked[t] > 0 /\ \A at \in 0 .. HeapUnits - 1 : ~Gap(at, asked[t])
    /\ asked' = [asked EXCEPT ![t] = 0]
    /\ UNCHANGED <<up, held>>

Release(b) == held' = held \ {b} /\ UNCHANGED <<up, asked>>

Next ==
    \/ Start \/ Stop
    \/ \E t \in Threads :
        \/ \E n \in Sizes : Ask(t, n)
        \/ \E at \in 0 .. HeapUnits - 1 : Grant(t, at)
        \/ Refuse(t)
    \/ \E b \in held : Release(b)

Spec == Init /\ [][Next]_vars
==============================================================================
