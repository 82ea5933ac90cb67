-------------------------------- MODULE Memory --------------------------------
(***************************************************************************)
(* The allocator of kernel/memory/memory.c: initMemory, gMalloc, gFree,    *)
(* getGMemFree and destroyMemory, called by concurrent threads.            *)
(*                                                                         *)
(* The heap is an array of units of sizeof(Header) bytes, numbered from 0. *)
(* A chunk is named by the unit of its header and "p+1" is the pointer a   *)
(* caller sees.  `base' is a Header outside the heap, at either side of    *)
(* it.  A locked section touches nothing but the list and its own locals,  *)
(* so one iteration of a loop is one action; the only shared reads outside *)
(* the mutex are those of freep (lines 89, 160 and 234).                   *)
(***************************************************************************)
EXTENDS Integers, FiniteSets

CONSTANTS
    Threads,      \* the callers
    SIZE_ALLOC,   \* bytes of `heap'
    HeaderSize,   \* sizeof(Header)
    Base,         \* where `base' lies, counted in units from `heap'
    Requests,     \* the nbytes that callers ask for
    Foreign,      \* pointers that gMalloc never returned, NULL among them
    Junk,         \* what a client's data looks like when read as a Header
    NULL,
    None          \* the mutex has no holder

HeapUnits == SIZE_ALLOC \div HeaderSize
Units == 0 .. HeapUnits - 1
Addr == Units \cup {Base}
SECRET_CODE == 42

\* The units that a request takes, its header included.
NUnits(nbytes) == (nbytes + HeaderSize - 1) \div HeaderSize + 1

(***************************************************************************)
(* SIZE_ALLOC is 5000000 and sizeof(Header) is 24 (12 on a 32-bit machine):*)
(* the heap does not end at a unit's end, so `base', wherever it is linked,*)
(* never touches the last chunk.                                           *)
(***************************************************************************)
ASSUME MemoryAssumption ==
    /\ HeaderSize \in Nat \ {0} /\ SIZE_ALLOC \in Nat
    /\ HeapUnits \in Nat \ {0}
    /\ HeapUnits * HeaderSize < SIZE_ALLOC
    /\ Base \in Int \ (0 .. HeapUnits)
    /\ Requests \subseteq Nat
    /\ \A nbytes \in Requests : NUnits(nbytes) \in Nat \ {0}
    /\ Foreign \subseteq (Int \ (0 .. HeapUnits)) \cup {NULL}
    /\ Junk \subseteq [ptr : Addr, size : Nat, sCode : 0 .. 255]
    /\ NULL \notin Int
    /\ None \notin Threads

VARIABLES
    freep,              \* static Header *freep
    ptr, size, sCode,   \* the fields of the Header at each address
    myLock,             \* the holder of the mutex
    live,               \* history: the blocks granted and not yet back in the list
    pc, prevp, p, nunits, ap, sum   \* where each caller is, and its locals

shared == <<freep, ptr, size, sCode, myLock, live>>
locals == <<pc, prevp, p, nunits, ap, sum>>
vars == <<freep, ptr, size, sCode, myLock, live, pc, prevp, p, nunits, ap, sum>>

Block == [at : Units, n : Nat]
Extent(b) == b.at .. b.at + b.n - 1

\* The chunk that t hands back, named by its header: bp = (Header *)ap - 1.
bp(t) == ap[t] - 1
Freeing(a) == \E t \in Threads : pc[t] \in {"flock", "fscan"} /\ ap[t] = a + 1

-----------------------------------------------------------------------------
(* Helpers of the list.                                                     *)

\* Mutant: a search that never ends at the place where the circle closes.
FoundInside(q, b) == b > q /\ b < ptr[q]

\* The two tests that end gFree's search: q precedes b in the list.
Found(q, b) ==
    \/ b > q /\ b < ptr[q]
    \/ q >= ptr[q] /\ (b > q \/ b < ptr[q])

\* Mutant: a merge across a gap of one unit.
JoinsAcrossGap(b, q) == b + size[b] + 1 = ptr[q] \/ b + size[b] = ptr[q]
\* Mutant: no merge with the next chunk.
JoinsNever(b, q) == FALSE

\* The freed chunk b ends where the chunk after q begins.
JoinsNext(b, q) == b + size[b] = ptr[q]

\* Mutant: a merge with whatever chunk precedes, adjacent or not.
JoinsAlways(q, b) == q # Base

\* q ends where the freed chunk b begins.
JoinsPrevious(q, b) == q + size[q] = b

\* The links and sizes once b stands behind q, merged with its neighbours.
MergedSize(q, b) == size[b] + IF JoinsNext(b, q) THEN size[ptr[q]] ELSE 0
MergedPtr(q, b) == IF JoinsNext(b, q) THEN ptr[ptr[q]] ELSE ptr[q]
InsertPtr(q, b) ==
    [ptr EXCEPT ![b] = MergedPtr(q, b),
                ![q] = IF JoinsPrevious(q, b) THEN MergedPtr(q, b) ELSE b]
InsertSize(q, b) ==
    IF JoinsPrevious(q, b)
    THEN [size EXCEPT ![b] = MergedSize(q, b), ![q] = @ + MergedSize(q, b)]
    ELSE [size EXCEPT ![b] = MergedSize(q, b)]

\* Mutant: a range test that rejects the last unit of the heap.
InHeapOffByOne(a) == a # NULL /\ a >= 0 /\ a < HeapUnits

\* The range test of gFree, on the address in bytes.
InHeap(a) == a # NULL /\ a >= 0 /\ a * HeaderSize < SIZE_ALLOC
-----------------------------------------------------------------------------
(***************************************************************************)
(* The statics are zero; the first call of initMemory comes before any     *)
(* thread is started (init.c:19) and destroyMemory is the last call of     *)
(* destroy() (init.c:49).                                                  *)
(***************************************************************************)
Init ==
    /\ freep = NULL
    /\ ptr = [a \in Addr |-> NULL]
    /\ size = [a \in Addr |-> 0]
    /\ sCode = [a \in Addr |-> 0]
    /\ myLock = None
    /\ live = {}
    /\ pc = [t \in Threads |-> "idle"]
    /\ prevp = [t \in Threads |-> Base]
    /\ p = [t \in Threads |-> Base]
    /\ nunits = [t \in Threads |-> 0]
    /\ ap = [t \in Threads |-> NULL]
    /\ sum = [t \in Threads |-> 0]

\* One chunk with all of the heap, handed to gFree: base is alone in the list.
InitMemory ==
    /\ freep = NULL /\ live = {}
    /\ \A t \in Threads : pc[t] = "idle"
    /\ freep' = Base
    /\ ptr' = [ptr EXCEPT ![Base] = 0, ![0] = Base]
    /\ size' = [size EXCEPT ![Base] = 0, ![0] = HeapUnits]
    /\ sCode' = [sCode EXCEPT ![0] = SECRET_CODE]
    /\ UNCHANGED <<myLock, live, locals>>

DestroyMemory ==
    /\ freep # NULL
    /\ \A t \in Threads : pc[t] = "idle"
    /\ freep' = NULL
    /\ UNCHANGED <<ptr, size, sCode, myLock, live, locals>>

\* A call ends: its locals are gone.
Return(t) ==
    /\ pc' = [pc EXCEPT ![t] = "idle"]
    /\ prevp' = [prevp EXCEPT ![t] = Base]
    /\ p' = [p EXCEPT ![t] = Base]
    /\ nunits' = [nunits EXCEPT ![t] = 0]
    /\ ap' = [ap EXCEPT ![t] = NULL]
    /\ sum' = [sum EXCEPT ![t] = 0]

Lock(t) == myLock = None /\ myLock' = t
Unlock(t) == myLock' = None
-----------------------------------------------------------------------------
(***************************************************************************)
(* gMalloc.  Line 160 reads freep before the mutex is taken.               *)
(***************************************************************************)
\* A call on an allocator that is not initialised (gMalloc, gFree and
\* getGMemFree), or for more than SIZE_ALLOC bytes, returns at once.
Declined(t) ==
    /\ pc[t] = "idle"
    /\ freep = NULL \/ \E nbytes \in Requests : nbytes > SIZE_ALLOC
    /\ UNCHANGED vars

MallocEnter(t, nbytes) ==
    /\ pc[t] = "idle" /\ freep # NULL /\ nbytes <= SIZE_ALLOC
    /\ prevp' = [prevp EXCEPT ![t] = freep]
    /\ nunits' = [nunits EXCEPT ![t] = NUnits(nbytes)]
    /\ pc' = [pc EXCEPT ![t] = "mlock"]
    /\ UNCHANGED <<shared, p, ap, sum>>

MallocLock(t) ==
    /\ pc[t] = "mlock" /\ Lock(t)
    /\ p' = [p EXCEPT ![t] = ptr[prevp[t]]]
    /\ pc' = [pc EXCEPT ![t] = "mscan"]
    /\ UNCHANGED <<freep, ptr, size, sCode, live, prevp, nunits, ap, sum>>

\* Mutant: a first fit that takes a chunk of one unit too few.
FitsOffByOne(q, n) == size[q] + 1 >= n

\* The chunk at q is big enough.
Fits(q, n) == size[q] >= n

Grant(t, at) == live' = live \cup {[at |-> at, n |-> nunits[t]]}

\* The chunk is exactly as big as the request: it leaves the list.
MallocExact(t) ==
    /\ pc[t] = "mscan" /\ Fits(p[t], nunits[t]) /\ size[p[t]] = nunits[t]
    /\ ptr' = [ptr EXCEPT ![prevp[t]] = ptr[p[t]]]
    /\ freep' = prevp[t]
    /\ Grant(t, p[t])
    /\ Unlock(t) /\ Return(t)
    /\ UNCHANGED <<size, sCode>>

\* A bigger chunk keeps its place in the list and loses its tail.
MallocCut(t) ==
    LET q == p[t] + size[p[t]] - nunits[t]
    IN  /\ pc[t] = "mscan" /\ Fits(p[t], nunits[t]) /\ size[p[t]] # nunits[t]
        /\ size' = [size EXCEPT ![p[t]] = @ - nunits[t], ![q] = nunits[t]]
        /\ sCode' = [sCode EXCEPT ![q] = SECRET_CODE]
        /\ freep' = prevp[t]
        /\ Grant(t, q)
        /\ Unlock(t) /\ Return(t)
        /\ UNCHANGED ptr

\* The walk is back where it began and returns NULL.
MallocFail(t) ==
    /\ pc[t] = "mscan" /\ ~Fits(p[t], nunits[t]) /\ p[t] = freep
    /\ Unlock(t) /\ Return(t)
    /\ UNCHANGED <<freep, ptr, size, sCode, live>>

MallocNext(t) ==
    /\ pc[t] = "mscan" /\ ~Fits(p[t], nunits[t]) /\ p[t] # freep
    /\ prevp' = [prevp EXCEPT ![t] = p[t]]
    /\ p' = [p EXCEPT ![t] = ptr[p[t]]]
    /\ UNCHANGED <<shared, pc, nunits, ap, sum>>

-----------------------------------------------------------------------------
(***************************************************************************)
(* gFree.  Callers hand in blocks they hold, once each, or pointers that   *)
(* were never granted.                                                     *)
(***************************************************************************)
FreeEnter(t, a) ==
    /\ pc[t] = "idle" /\ freep # NULL
    /\ ap' = [ap EXCEPT ![t] = a]
    /\ pc' = [pc EXCEPT ![t] = "flock"]
    /\ UNCHANGED <<shared, prevp, p, nunits, sum>>

Valid(t) == InHeap(ap[t]) /\ sCode[bp(t)] = SECRET_CODE

FreeReject(t) ==
    /\ pc[t] = "flock" /\ myLock = None /\ ~Valid(t)
    /\ Return(t)
    /\ UNCHANGED shared

FreeLock(t) ==
    /\ pc[t] = "flock" /\ Valid(t) /\ Lock(t)
    /\ p' = [p EXCEPT ![t] = freep]
    /\ pc' = [pc EXCEPT ![t] = "fscan"]
    /\ UNCHANGED <<freep, ptr, size, sCode, live, prevp, nunits, ap, sum>>

FreeSearch(t) ==
    /\ pc[t] = "fscan" /\ ~Found(p[t], bp(t))
    /\ p' = [p EXCEPT ![t] = ptr[p[t]]]
    /\ UNCHANGED <<shared, pc, prevp, nunits, ap, sum>>

FreeInsert(t) ==
    /\ pc[t] = "fscan" /\ Found(p[t], bp(t))
    /\ ptr' = InsertPtr(p[t], bp(t))
    /\ size' = InsertSize(p[t], bp(t))
    /\ freep' = p[t]
    /\ live' = {b \in live : b.at # bp(t)}
    /\ Unlock(t) /\ Return(t)
    /\ UNCHANGED sCode

-----------------------------------------------------------------------------
(* getGMemFree, counted in units.                                           *)
SumEnter(t) ==
    /\ pc[t] = "idle" /\ freep # NULL
    /\ pc' = [pc EXCEPT ![t] = "slock"]
    /\ UNCHANGED <<shared, prevp, p, nunits, ap, sum>>

SumLock(t) ==
    /\ pc[t] = "slock" /\ Lock(t)
    /\ p' = [p EXCEPT ![t] = ptr[freep]]
    /\ pc' = [pc EXCEPT ![t] = "sum"]
    /\ UNCHANGED <<freep, ptr, size, sCode, live, prevp, nunits, ap, sum>>

SumNext(t) ==
    /\ pc[t] = "sum" /\ p[t] # freep
    /\ sum' = [sum EXCEPT ![t] = @ + size[p[t]]]
    /\ p' = [p EXCEPT ![t] = ptr[p[t]]]
    /\ UNCHANGED <<shared, pc, prevp, nunits, ap>>

\* Mutant: the chunk at which the walk ends is not counted.
SumWithoutLast(t) == sum[t]

\* What the call returns, in units.
SumResult(t) == sum[t] + size[p[t]]

SumDone(t) ==
    /\ pc[t] = "sum" /\ p[t] = freep
    /\ Unlock(t) /\ Return(t)
    /\ UNCHANGED <<freep, ptr, size, sCode, live>>

-----------------------------------------------------------------------------
(* A client writes into its own block: the units behind the header.        *)
ClientWrites(b, u, j) ==
    /\ \A t \in Threads : ap[t] # b.at + 1
    /\ ptr' = [ptr EXCEPT ![u] = j.ptr]
    /\ size' = [size EXCEPT ![u] = j.size]
    /\ sCode' = [sCode EXCEPT ![u] = j.sCode]
    /\ UNCHANGED <<freep, myLock, live, locals>>

Enter(t) ==
    \/ \E nbytes \in Requests : MallocEnter(t, nbytes)
    \/ \E b \in live : ~Freeing(b.at) /\ FreeEnter(t, b.at + 1)
    \/ \E a \in Foreign : FreeEnter(t, a)
    \/ SumEnter(t)
    \/ Declined(t)

TakeLock(t) == MallocLock(t) \/ FreeReject(t) \/ FreeLock(t) \/ SumLock(t)

\* The steps of a locked section.
Inside(t) ==
    \/ MallocExact(t) \/ MallocCut(t) \/ MallocFail(t) \/ MallocNext(t)
    \/ FreeSearch(t) \/ FreeInsert(t)
    \/ SumNext(t) \/ SumDone(t)

Environment ==
    \/ InitMemory \/ DestroyMemory
    \/ \E b \in live, j \in Junk :
            \E u \in Extent(b) \ {b.at} : ClientWrites(b, u, j)

Next ==
    \/ Environment
    \/ \E t \in Threads : Enter(t) \/ TakeLock(t) \/ Inside(t)

Spec == Init /\ [][Next]_vars

(***************************************************************************)
(* The behaviours in which line 160 and line 166 run as one: a caller      *)
(* reads freep when the mutex is free and nobody else moves until it has   *)
(* the mutex.  Every other interleaving of the callers is kept.  Callers   *)
(* that hold a lock of their own around gMalloc, gFree and getGMemFree     *)
(* give a subset of these behaviours.                                      *)
(***************************************************************************)
Undisturbed(t) == \A u \in Threads \ {t} : pc[u] # "mlock"

OrderedEnter(t) == Enter(t) /\ (pc'[t] = "mlock" => myLock = None)

OrderedNext ==
    \/ (\A u \in Threads : pc[u] # "mlock") /\ Environment
    \/ \E t \in Threads :
            Undisturbed(t) /\ (OrderedEnter(t) \/ TakeLock(t) \/ Inside(t))

OrderedSpec == Init /\ [][OrderedNext]_vars

\* A thread inside a call runs on: the operating system schedules it.
FairOrderedSpec ==
    OrderedSpec /\ \A t \in Threads : WF_vars(Undisturbed(t) /\ Inside(t))

-----------------------------------------------------------------------------
(* Type invariant.                                                          *)
TypeOK ==
    /\ freep \in Addr \cup {NULL}
    /\ ptr \in [Addr -> Addr \cup {NULL}]
    /\ size \in [Addr -> Nat]
    /\ sCode \in [Addr -> 0 .. 255]
    /\ myLock \in Threads \cup {None}
    /\ live \subseteq Block
    /\ pc \in [Threads -> {"idle", "mlock", "mscan", "flock", "fscan", "slock", "sum"}]
    /\ prevp \in [Threads -> Addr]
    /\ p \in [Threads -> Addr]
    /\ nunits \in [Threads -> Nat]
    /\ ap \in [Threads -> Int \cup {NULL}]
    /\ sum \in [Threads -> Nat]

(***************************************************************************)
(* Blocks that callers hold at the same time share no unit and lie within  *)
(* the heap: gMalloc cuts each from a chunk nobody else has (memory.c:     *)
(* 174-197), whatever gFree merged before.                                 *)
(***************************************************************************)
Disjoint(b, c) == b.at + b.n <= c.at \/ c.at + c.n <= b.at
NoOverlap ==
    /\ \A b \in live : b.n >= 1 /\ b.at + b.n <= HeapUnits
    /\ \A b, c \in live : b = c \/ Disjoint(b, c)

(***************************************************************************)
(* The header of a held block keeps its size and its cookie, and its       *)
(* pointer is one that gFree accepts (memory.c:96-112): no block is lost   *)
(* because gFree refuses it, not even the one that ends the heap.          *)
(***************************************************************************)
HeadersIntact ==
    \A b \in live :
        size[b.at] = b.n /\ sCode[b.at] = SECRET_CODE /\ InHeap(b.at + 1)

(***************************************************************************)
(* F is the free list: linked in one circle in the order of the addresses, *)
(* base in it, chunks within the heap with a gap between any two (neither  *)
(* overlap nor neighbours left unmerged), apart from every held block, and *)
(* nothing of the heap is in neither.                                      *)
(***************************************************************************)
Circle(F, next) ==
    \A a \in F :
        /\ next[a] \in F
        /\ \/ a < next[a] /\ \A c \in F : c <= a \/ next[a] <= c
           \/ next[a] <= a /\ \A c \in F : next[a] <= c /\ c <= a
Linked(F) == F \subseteq Addr /\ Base \in F /\ freep \in F /\ Circle(F, ptr)
Chunks(F) ==
    /\ size[Base] = 0
    /\ \A a \in F \ {Base} :
        size[a] >= 1 /\ a + size[a] <= HeapUnits /\ sCode[a] = SECRET_CODE
Coalesced(F) == \A a, c \in F \ {Base} : a < c => a + size[a] < c
ApartFromLive(F) ==
    \A a \in F \ {Base}, b \in live : a + size[a] <= b.at \/ b.at + b.n <= a
Covers(F) ==
    \A u \in Units :
        \/ \E a \in F \ {Base} : a <= u /\ u < a + size[a]
        \/ \E b \in live : b.at <= u /\ u < b.at + b.n
IsFreeList(F) ==
    Linked(F) /\ Chunks(F) /\ Coalesced(F) /\ ApartFromLive(F) /\ Covers(F)

\* What gMalloc and gFree keep of the list (memory.c:114-147 and 173-195).
FreeListOK == freep # NULL => \E F \in SUBSET Addr : IsFreeList(F)

(***************************************************************************)
(* getGMemFree returns exactly the memory no caller holds (memory.c:       *)
(* 239-251); the blocks whose gFree waits for the mutex are still held.    *)
(***************************************************************************)
FreeUnits == Units \ UNION {Extent(b) : b \in live}
SumExact ==
    [][\A t \in Threads :
          pc[t] = "sum" /\ pc'[t] = "idle" => SumResult(t) = Cardinality(FreeUnits)]_vars

\* Every locked section ends: the walks of gMalloc, gFree and getGMemFree
\* come to their exits (memory.c:115-124, 174-205 and 242-249).
SectionsEnd == \A t \in Threads : (myLock = t) ~> (myLock # t)

(***************************************************************************)
(* What a grant may never do: hand out a unit that another block in use    *)
(* has (memory.c:57, 165: the mutex protects the free list).               *)
(***************************************************************************)
GrantIsFresh ==
    [][\A b \in live' \ live : \A c \in live : Disjoint(b, c)]_vars

(***************************************************************************)
(* The list implements the allocator that memory.h describes: each step is *)
(* a step of Allocator or invisible to it.                                 *)
(***************************************************************************)
Abstract == INSTANCE Allocator WITH
    up <- freep # NULL, held <- live, asked <- nunits,
    Sizes <- {NUnits(nbytes) : nbytes \in Requests}
ImplementsAllocator == Abstract!Spec
=============================================================================
