--------------------------------- MODULE Ring ---------------------------------
(***************************************************************************)
(* The ring of ready threads of kernel 3.0: each ctx has the two pointers  *)
(* next and last (context.h:9-11).  A ring is a record of two functions;   *)
(* a ctx that is not chained has NULL in both.                             *)
(***************************************************************************)
CONSTANTS Ctx, NULL

Rings == [next : [Ctx -> Ctx \cup {NULL}], last : [Ctx -> Ctx \cup {NULL}]]
Members(r) == {c \in Ctx : r.next[c] # NULL}

\* new is chained behind c (create_thread, and the wake-ups of yield).
InsertAfter(r, c, new) ==
    [next |-> [r.next EXCEPT ![new] = r.next[c], ![c] = new],
     last |-> [r.last EXCEPT ![r.next[c]] = new, ![new] = c]]

\* sem_give chains the woken thread behind c, with c's own back link.
WakeAfter(r, c, new) ==
    [next |-> [r.next EXCEPT ![new] = r.next[c], ![c] = new],
     last |-> [r.last EXCEPT ![new] = r.last[c], ![r.next[c]] = new]]

\* c leaves the ring (disable_current_thread).
Remove(r, c) ==
    [next |-> [r.next EXCEPT ![r.last[c]] = r.next[c], ![c] = NULL],
     last |-> [r.last EXCEPT ![r.next[c]] = r.last[c], ![c] = NULL]]

\* The two pointers chain the members both ways.
Chained(r) ==
    \A c \in Ctx :
        /\ r.next[c] = NULL <=> r.last[c] = NULL
        /\ r.next[c] # NULL =>
            /\ r.next[r.last[c]] = c /\ r.last[r.next[c]] = c

\* The ring once the back link of c's successor points to c.
Repaired(r, c) == [r EXCEPT !.last[r.next[c]] = c]
===============================================================================
