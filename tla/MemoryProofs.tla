----------------------------- MODULE MemoryProofs -----------------------------
(***************************************************************************)
(* Proofs about Memory: whatever the size of the heap, the callers and     *)
(* their requests, the allocator keeps its list and its blocks apart as    *)
(* long as the unlocked read of freep and the locking run as one.          *)
(***************************************************************************)
EXTENDS Memory, FiniteSetTheorems, TLAPS

(* The inductive invariant.                                                 *)

\* Who holds the mutex, and what a caller read before it took the mutex.
LockInv ==
    /\ \A t \in Threads : pc[t] \in {"mscan", "fscan", "sum"} <=> myLock = t
    /\ \A t \in Threads : pc[t] = "mlock" => myLock = None /\ prevp[t] = freep
    /\ \A t, u \in Threads : pc[t] = "mlock" /\ pc[u] = "mlock" => t = u
    /\ \A t \in Threads : pc[t] \in {"mlock", "mscan"} => nunits[t] >= 1
    /\ freep = NULL => \A t \in Threads : pc[t] = "idle"

\* A block whose gFree is under way is held, and by no second call of gFree.
FreeInv ==
    /\ \A t \in Threads :
        pc[t] = "flock" => ap[t] \in Foreign \/ \E b \in live : ap[t] = b.at + 1
    /\ \A t \in Threads : pc[t] = "fscan" => \E b \in live : ap[t] = b.at + 1
    /\ \A t, u \in Threads, b \in live :
        ap[t] = b.at + 1 /\ ap[u] = b.at + 1 => t = u
    /\ \A t \in Threads : pc[t] \notin {"flock", "fscan"} => ap[t] = NULL

\* A walk stands on the list F.
WalkInv(F) ==
    \A t \in Threads :
        /\ pc[t] = "mscan" => prevp[t] \in F /\ p[t] = ptr[prevp[t]]
        /\ pc[t] \in {"fscan", "sum"} => p[t] \in F

ListInv == freep # NULL => \E F \in SUBSET Addr : IsFreeList(F) /\ WalkInv(F)

IInv == TypeOK /\ NoOverlap /\ HeadersIntact /\ LockInv /\ FreeInv /\ ListInv

-----------------------------------------------------------------------------
(* Lemmas about addresses.                                                  *)

\* The constants as the provers see them: HeapUnits stays a name.
LEMMA Constants ==
    /\ HeapUnits \in Nat /\ HeapUnits >= 1
    /\ Base \in Int /\ (Base < 0 \/ Base > HeapUnits)
    /\ Base \notin Units /\ Base \in Addr /\ 0 \in Units
    /\ Units \subseteq Addr /\ Addr \subseteq Int /\ NULL \notin Addr
    /\ None \notin Threads
  BY MemoryAssumption DEF Units, Addr

\* gFree's range test passes for the pointer behind every header.
LEMMA HeaderPointer ==
    ASSUME NEW a \in Units
    PROVE  InHeap(a + 1)
<1> DEFINE N == HeapUnits
<1>1. N \in Nat /\ HeaderSize \in Nat \ {0} /\ N * HeaderSize < SIZE_ALLOC
  BY MemoryAssumption
<1>2. a \in Nat /\ a + 1 <= N
  BY <1>1 DEF Units
<1> HIDE DEF N
<1>3. (a + 1) * HeaderSize <= N * HeaderSize
  BY <1>1, <1>2
<1>4. (a + 1) * HeaderSize \in Int /\ N * HeaderSize \in Int /\ SIZE_ALLOC \in Int
  BY <1>1, <1>2, MemoryAssumption
<1>5. (a + 1) * HeaderSize < SIZE_ALLOC
  BY <1>1, <1>3, <1>4
<1>6. a + 1 # NULL
  BY <1>2, MemoryAssumption
<1> QED
  BY <1>2, <1>5, <1>6 DEF InHeap

\* What is left of the heap behind the last unit is less than a Header.
LEMMA DivisionRest == (HeapUnits + 1) * HeaderSize > SIZE_ALLOC
<1>1. HeaderSize \in Nat \ {0} /\ SIZE_ALLOC \in Nat
  BY MemoryAssumption
<1> QED
  BY <1>1 DEF HeapUnits

-----------------------------------------------------------------------------
(* Lemmas about circles: sets of addresses linked in ascending order.       *)

\* The links of S are the same in f and g.
SameLinks(S, f, g) == \A a \in S : g[a] = f[a]

\* b lies between q and its successor on the circle.
Between(F, next, q, b) ==
    \/ q < b /\ b < next[q] /\ \A c \in F : c <= q \/ next[q] <= c
    \/ q < b /\ next[q] <= q /\ \A c \in F : next[q] <= c /\ c <= q
    \/ b < next[q] /\ next[q] <= q /\ \A c \in F : next[q] <= c /\ c <= q

\* Inserting a chunk behind its predecessor keeps the free list one sorted circle.
LEMMA InsertCircle ==
    ASSUME NEW F, F \subseteq Int, NEW f, NEW g, Circle(F, f),
           NEW q \in F, NEW b \in Int, b \notin F, Between(F, f, q, b),
           g[b] = f[q], g[q] = b, SameLinks(F \ {q}, f, g)
    PROVE  Circle(F \cup {b}, g)
<1> DEFINE G == F \cup {b}
           nx == f[q]
<1>1. \A a \in F : /\ f[a] \in F /\ f[a] \in Int /\ a \in Int
                   /\ \/ a < f[a] /\ \A c \in F : c <= a \/ f[a] <= c
                      \/ f[a] <= a /\ \A c \in F : f[a] <= c /\ c <= a
  BY DEF Circle
<1>2. nx \in F /\ nx \in Int /\ q \in Int
  BY <1>1
<1>3. \/ q < b /\ b < nx /\ \A c \in F : c <= q \/ nx <= c
      \/ q < b /\ nx <= q /\ \A c \in F : nx <= c /\ c <= q
      \/ b < nx /\ nx <= q /\ \A c \in F : nx <= c /\ c <= q
  BY DEF Between
<1> SUFFICES ASSUME NEW a \in G
             PROVE  /\ g[a] \in G
                    /\ \/ a < g[a] /\ \A c \in G : c <= a \/ g[a] <= c
                       \/ g[a] <= a /\ \A c \in G : g[a] <= c /\ c <= a
  BY DEF Circle
<1>4. CASE a = b
  <2>1. g[a] = nx
    BY <1>4
  <2> HIDE DEF nx
  <2> QED
    BY <1>2, <1>3, <1>4, <2>1
<1>5. CASE a = q
  <2>1. g[a] = b
    BY <1>5
  <2> HIDE DEF nx
  <2> QED
    BY <1>2, <1>3, <1>5, <2>1
<1>6. CASE a \in F \ {q}
  <2>1. g[a] = f[a] /\ f[a] \in F /\ f[a] \in Int /\ a \in Int /\ a # q
    BY <1>1, <1>6 DEF SameLinks
  <2>2. \/ a < f[a] /\ \A c \in F : c <= a \/ f[a] <= c
        \/ f[a] <= a /\ \A c \in F : f[a] <= c /\ c <= a
    BY <1>1, <1>6
  <2> HIDE DEF nx
  <2> QED
    BY <1>2, <1>3, <1>6, <2>1, <2>2
<1> QED
  BY <1>4, <1>5, <1>6

\* Unlinking a chunk from a circle leaves a sorted circle of the others.
LEMMA RemoveCircle ==
    ASSUME NEW F, F \subseteq Int, NEW f, NEW g, Circle(F, f),
           NEW q \in F, NEW x, x = f[q], x # q,
           g[q] = f[x], SameLinks(F \ {q, x}, f, g)
    PROVE  Circle(F \ {x}, g)
<1> DEFINE G == F \ {x}
           nx == f[x]
<1>1. \A a \in F : /\ f[a] \in F /\ f[a] \in Int /\ a \in Int
                   /\ \/ a < f[a] /\ \A c \in F : c <= a \/ f[a] <= c
                      \/ f[a] <= a /\ \A c \in F : f[a] <= c /\ c <= a
  BY DEF Circle
<1>2. x \in F /\ x \in Int /\ nx \in F /\ nx \in Int /\ q \in Int
  BY <1>1
<1>3. /\ \/ q < x /\ \A c \in F : c <= q \/ x <= c
         \/ x <= q /\ \A c \in F : x <= c /\ c <= q
      /\ \/ x < nx /\ \A c \in F : c <= x \/ nx <= c
         \/ nx <= x /\ \A c \in F : nx <= c /\ c <= x
  BY <1>1, <1>2
<1>4. nx # x
  BY <1>1, <1>2, <1>3
<1> SUFFICES ASSUME NEW a \in G
             PROVE  /\ g[a] \in G
                    /\ \/ a < g[a] /\ \A c \in G : c <= a \/ g[a] <= c
                       \/ g[a] <= a /\ \A c \in G : g[a] <= c /\ c <= a
  BY DEF Circle
<1>5. CASE a = q
  <2>1. g[a] = nx
    BY <1>5
  <2> HIDE DEF nx
  <2> QED
    BY <1>1, <1>2, <1>3, <1>4, <1>5, <2>1
<1>6. CASE a # q
  <2>1. g[a] = f[a] /\ f[a] \in F /\ f[a] \in Int /\ a \in Int /\ a \in F
    BY <1>1, <1>6 DEF SameLinks
  <2>2. \/ a < f[a] /\ \A c \in F : c <= a \/ f[a] <= c
        \/ f[a] <= a /\ \A c \in F : f[a] <= c /\ c <= a
    BY <1>1, <1>6
  <2>3. f[a] # x
    BY <1>2, <1>3, <1>6, <2>1, <2>2
  <2> QED
    BY <2>1, <2>2, <2>3
<1> QED
  BY <1>5, <1>6

-----------------------------------------------------------------------------
\* The state before initMemory satisfies the inductive invariant.
LEMMA InitInv == Init => IInv
<1> SUFFICES ASSUME Init PROVE IInv
  OBVIOUS
<1>1. TypeOK
  BY Constants, MemoryAssumption DEF Init, TypeOK, Block
<1>2. NoOverlap /\ HeadersIntact
  BY DEF Init, NoOverlap, HeadersIntact
<1>3. LockInv
  BY Constants DEF Init, LockInv
<1>4. FreeInv
  BY DEF Init, FreeInv
<1>5. ListInv
  BY DEF Init, ListInv
<1> QED
  BY <1>1, <1>2, <1>3, <1>4, <1>5 DEF IInv

\* initMemory: the whole heap becomes one free chunk.
LEMMA InitMemoryInv ==
    ASSUME IInv, InitMemory
    PROVE  IInv'
<1> DEFINE F == {Base, 0}
<1>0. /\ TypeOK /\ live = {} /\ live' = {} /\ freep' = Base /\ freep' # NULL
      /\ UNCHANGED <<myLock, pc, prevp, p, nunits, ap, sum>>
      /\ \A t \in Threads : pc[t] = "idle"
  BY Constants DEF IInv, InitMemory, locals
<1>1. TypeOK'
  <2>1. ptr' \in [Addr -> Addr \cup {NULL}] /\ size' \in [Addr -> Nat]
    BY <1>0, Constants DEF TypeOK, InitMemory
  <2>2. sCode' \in [Addr -> 0 .. 255]
    BY <1>0, Constants DEF TypeOK, InitMemory, SECRET_CODE
  <2> QED
    BY <1>0, <2>1, <2>2, Constants DEF TypeOK
<1>2. NoOverlap' /\ HeadersIntact'
  BY <1>0 DEF NoOverlap, HeadersIntact
<1>3. LockInv'
  BY <1>0, Constants DEF IInv, LockInv
<1>4. FreeInv'
  BY <1>0 DEF IInv, FreeInv
<1>5. ListInv'
  <2>1. /\ ptr'[Base] = 0 /\ ptr'[0] = Base
        /\ size'[Base] = 0 /\ size'[0] = HeapUnits /\ sCode'[0] = SECRET_CODE
    BY <1>0, Constants DEF TypeOK, InitMemory
  <2>2. Linked(F)'
    BY <1>0, <2>1, Constants DEF Linked, Circle
  <2>3. Chunks(F)' /\ Coalesced(F)' /\ ApartFromLive(F)'
    BY <1>0, <2>1, Constants DEF Chunks, Coalesced, ApartFromLive
  <2>4. Covers(F)'
    BY <2>1, Constants DEF Covers, Units
  <2>5. F \in SUBSET Addr /\ WalkInv(F)'
    BY <1>0, Constants DEF WalkInv
  <2> QED
    BY <2>2, <2>3, <2>4, <2>5 DEF ListInv, IsFreeList
<1> QED
  BY <1>1, <1>2, <1>3, <1>4, <1>5 DEF IInv

\* destroyMemory changes nothing that the invariant speaks of.
LEMMA DestroyMemoryInv ==
    ASSUME IInv, DestroyMemory
    PROVE  IInv'
  BY DEF IInv, DestroyMemory, locals, TypeOK, NoOverlap, HeadersIntact,
     LockInv, FreeInv, ListInv

-----------------------------------------------------------------------------
(* Steps that change no shared state but the mutex.                         *)

\* The list does not depend on the mutex and on the locals.
LEMMA SameList ==
    ASSUME UNCHANGED <<freep, ptr, size, sCode, live>>, NEW F, IsFreeList(F)
    PROVE  IsFreeList(F)'
  BY DEF IsFreeList, Linked, Circle, Chunks, Coalesced, ApartFromLive, Covers

\* A step that touches no header and no grant keeps the facts about blocks.
LEMMA SameBlocks ==
    ASSUME UNCHANGED <<size, sCode, live>>, NoOverlap, HeadersIntact
    PROVE  NoOverlap' /\ HeadersIntact'
  BY DEF NoOverlap, HeadersIntact

\* A walk that is on the list at its start and after each of its steps.
LEMMA WalkStep ==
    ASSUME IInv, UNCHANGED <<freep, ptr, size, sCode, live>>,
           \A F \in SUBSET Addr :
                freep # NULL /\ IsFreeList(F) /\ WalkInv(F) => WalkInv(F)'
    PROVE  ListInv'
  BY SameList DEF IInv, ListInv

\* gMalloc up to the read of freep.
LEMMA MallocEnterInv ==
    ASSUME IInv, NEW t \in Threads, NEW nbytes \in Requests,
           MallocEnter(t, nbytes), Undisturbed(t), myLock = None
    PROVE  IInv'
<1>0. /\ UNCHANGED <<freep, ptr, size, sCode, myLock, live, p, ap, sum>>
      /\ pc[t] = "idle" /\ freep # NULL
      /\ pc' = [pc EXCEPT ![t] = "mlock"]
      /\ prevp' = [prevp EXCEPT ![t] = freep]
      /\ nunits' = [nunits EXCEPT ![t] = NUnits(nbytes)]
      /\ NUnits(nbytes) \in Nat /\ NUnits(nbytes) >= 1
  BY MemoryAssumption DEF MallocEnter, shared
<1>1. TypeOK'
  BY <1>0 DEF IInv, TypeOK
<1>2. NoOverlap' /\ HeadersIntact'
  BY <1>0, SameBlocks DEF IInv
<1>3. LockInv'
  BY <1>0, Constants DEF IInv, TypeOK, LockInv, Undisturbed
<1>4. FreeInv'
  BY <1>0 DEF IInv, TypeOK, FreeInv
<1>5. ListInv'
  BY <1>0, WalkStep DEF IInv, TypeOK, WalkInv
<1> QED
  BY <1>1, <1>2, <1>3, <1>4, <1>5 DEF IInv

\* gMalloc takes the mutex while nobody has moved since that read.
LEMMA MallocLockInv ==
    ASSUME IInv, NEW t \in Threads, MallocLock(t), Undisturbed(t)
    PROVE  IInv'
<1>0. /\ UNCHANGED <<freep, ptr, size, sCode, live, prevp, nunits, ap, sum>>
      /\ pc[t] = "mlock" /\ myLock = None /\ myLock' = t
      /\ pc' = [pc EXCEPT ![t] = "mscan"]
      /\ p' = [p EXCEPT ![t] = ptr[prevp[t]]]
  BY DEF MallocLock, Lock
<1>a. freep # NULL /\ prevp[t] = freep
  BY <1>0 DEF IInv, LockInv
<1>b. PICK F \in SUBSET Addr : IsFreeList(F) /\ WalkInv(F)
  BY <1>a DEF IInv, ListInv
<1>c. freep \in F /\ ptr[freep] \in F
  BY <1>b DEF IsFreeList, Linked, Circle
<1>1. TypeOK'
  BY <1>0, <1>a, <1>b, <1>c DEF IInv, TypeOK
<1>2. NoOverlap' /\ HeadersIntact'
  BY <1>0, SameBlocks DEF IInv
<1>3. LockInv'
  BY <1>0, Constants DEF IInv, TypeOK, LockInv, Undisturbed
<1>4. FreeInv'
  BY <1>0 DEF IInv, TypeOK, FreeInv
<1>5. ListInv'
  <2>1. WalkInv(F)'
    BY <1>0, <1>a, <1>b, <1>c DEF WalkInv, IInv, TypeOK
  <2> QED
    BY <1>0, <1>b, <2>1, SameList DEF ListInv
<1> QED
  BY <1>1, <1>2, <1>3, <1>4, <1>5 DEF IInv

\* gMalloc's walk goes on to the next chunk.
LEMMA MallocNextInv ==
    ASSUME IInv, NEW t \in Threads, MallocNext(t)
    PROVE  IInv'
<1>0. /\ UNCHANGED <<freep, ptr, size, sCode, myLock, live, pc, nunits, ap, sum>>
      /\ pc[t] = "mscan"
      /\ prevp' = [prevp EXCEPT ![t] = p[t]]
      /\ p' = [p EXCEPT ![t] = ptr[p[t]]]
  BY DEF MallocNext, shared
<1>a. freep # NULL
  BY <1>0 DEF IInv, LockInv
<1>b. PICK F \in SUBSET Addr : IsFreeList(F) /\ WalkInv(F)
  BY <1>a DEF IInv, ListInv
<1>c. prevp[t] \in F /\ p[t] = ptr[prevp[t]] /\ p[t] \in F /\ ptr[p[t]] \in F
  BY <1>0, <1>b DEF IsFreeList, Linked, Circle, WalkInv
<1>1. TypeOK'
  BY <1>0, <1>b, <1>c DEF IInv, TypeOK
<1>2. NoOverlap' /\ HeadersIntact'
  BY <1>0, SameBlocks DEF IInv
<1>3. LockInv'
  BY <1>0 DEF IInv, TypeOK, LockInv
<1>4. FreeInv'
  BY <1>0 DEF IInv, FreeInv
<1>5. ListInv'
  <2>1. WalkInv(F)'
    BY <1>0, <1>b, <1>c DEF WalkInv, IInv, TypeOK
  <2> QED
    BY <1>0, <1>b, <2>1, SameList DEF ListInv
<1> QED
  BY <1>1, <1>2, <1>3, <1>4, <1>5 DEF IInv

\* A call that returns: its locals are reset and the mutex is free.
LEMMA ReturnInv ==
    ASSUME IInv, NEW t \in Threads, Return(t),
           \/ myLock = t /\ myLock' = None
           \/ myLock = None /\ myLock' = None /\ \A u \in Threads \ {t} : pc[u] # "mlock",
           freep' = freep \/ freep' \in Addr
    PROVE  LockInv'
<1>1. /\ pc' = [pc EXCEPT ![t] = "idle"] /\ nunits' = [nunits EXCEPT ![t] = 0]
      /\ prevp' = [prevp EXCEPT ![t] = Base]
  BY DEF Return
<1>2. \A u \in Threads \ {t} : pc'[u] = pc[u] /\ pc'[u] \notin {"mlock", "mscan", "fscan", "sum"}
  BY <1>1, Constants DEF IInv, TypeOK, LockInv
<1>3. pc'[t] = "idle"
  BY <1>1 DEF IInv, TypeOK
<1> QED
  BY <1>2, <1>3, Constants DEF IInv, TypeOK, LockInv

\* A call that returns keeps the types.
LEMMA ReturnType ==
    ASSUME TypeOK, NEW t \in Threads, Return(t)
    PROVE  /\ pc' \in [Threads -> {"idle", "mlock", "mscan", "flock", "fscan", "slock", "sum"}]
           /\ prevp' \in [Threads -> Addr] /\ p' \in [Threads -> Addr]
           /\ nunits' \in [Threads -> Nat] /\ ap' \in [Threads -> Int \cup {NULL}]
           /\ sum' \in [Threads -> Nat]
  BY Constants DEF TypeOK, Return

\* When t returns nobody is left walking the list.
LEMMA ReturnWalk ==
    ASSUME IInv, NEW t \in Threads, Return(t), myLock \in {t, None}, NEW F
    PROVE  WalkInv(F)'
<1>1. \A u \in Threads : pc'[u] \notin {"mscan", "fscan", "sum"}
  BY Constants DEF IInv, TypeOK, LockInv, Return
<1> QED
  BY <1>1 DEF WalkInv

\* A call of gMalloc that returns, with or without a block.
LEMMA ReturnFree ==
    ASSUME IInv, NEW t \in Threads, Return(t), ap[t] = NULL, live \subseteq live',
           live' \subseteq Block, \A c \in live' \ live, b \in live : c.at # b.at,
           \A c, d \in live' \ live : c = d
    PROVE  FreeInv'
<1>1. ap' = ap /\ pc' = [pc EXCEPT ![t] = "idle"]
  BY DEF IInv, TypeOK, Return
<1>2. \A c \in live' \ live, u \in Threads : ap[u] # c.at + 1
  <2> SUFFICES ASSUME NEW c \in live' \ live, NEW u \in Threads, ap[u] = c.at + 1
               PROVE  FALSE
    OBVIOUS
  <2>1. c.at \in Nat /\ c.at < HeapUnits
    BY Constants DEF Block, Units
  <2>2. ap[u] # NULL /\ ap[u] \notin Foreign
    BY <2>1, Constants, MemoryAssumption
  <2>3. PICK b \in live : ap[u] = b.at + 1
    BY <2>2 DEF IInv, TypeOK, FreeInv
  <2>4. b.at \in Nat
    BY Constants DEF IInv, TypeOK, Block, Units
  <2> QED
    BY <2>1, <2>3, <2>4
<1> QED
  BY <1>1, <1>2 DEF IInv, TypeOK, FreeInv

-----------------------------------------------------------------------------
(* gMalloc takes a chunk.                                                   *)

\* A call of gMalloc whose walk is at a chunk that is big enough.
LEMMA ChunkAtHand ==
    ASSUME IInv, NEW t \in Threads, pc[t] = "mscan", Fits(p[t], nunits[t]),
           NEW F \in SUBSET Addr, IsFreeList(F), WalkInv(F)
    PROVE  /\ freep # NULL /\ myLock = t /\ ap[t] = NULL
           /\ nunits[t] \in Nat /\ nunits[t] >= 1
           /\ prevp[t] \in F /\ p[t] \in F \ {Base} /\ prevp[t] # p[t]
           /\ p[t] = ptr[prevp[t]] /\ p[t] \in Units /\ size[p[t]] \in Nat
           /\ size[p[t]] >= nunits[t] /\ p[t] + size[p[t]] <= HeapUnits
<1>1. freep # NULL /\ myLock = t /\ ap[t] = NULL
  BY DEF IInv, LockInv, FreeInv
<1>2. nunits[t] \in Nat /\ nunits[t] >= 1
  BY DEF IInv, TypeOK, LockInv
<1>3. prevp[t] \in F /\ p[t] = ptr[prevp[t]] /\ p[t] \in F
  BY DEF WalkInv, IsFreeList, Linked, Circle
<1>4. size[p[t]] \in Nat /\ size[p[t]] >= nunits[t]
  BY <1>2, <1>3 DEF IInv, TypeOK, Fits
<1>5. p[t] # Base
  BY <1>2, <1>4 DEF IsFreeList, Chunks
<1>6. p[t] \in Units /\ p[t] + size[p[t]] <= HeapUnits
  BY <1>3, <1>5 DEF IsFreeList, Chunks, Addr
<1>7. prevp[t] # p[t]
  <2>1. Base \in F /\ prevp[t] \in Int /\ Base \in Int
    BY <1>3, Constants DEF IsFreeList, Linked, Circle
  <2> QED
    BY <1>3, <1>5, <2>1 DEF IsFreeList, Linked, Circle
<1> QED
  BY <1>1, <1>2, <1>3, <1>4, <1>5, <1>6, <1>7

\* gMalloc takes a chunk that fits exactly.
LEMMA MallocExactInv ==
    ASSUME IInv, NEW t \in Threads, MallocExact(t)
    PROVE  IInv'
<1>0. /\ pc[t] = "mscan" /\ Fits(p[t], nunits[t]) /\ size[p[t]] = nunits[t]
      /\ ptr' = [ptr EXCEPT ![prevp[t]] = ptr[p[t]]]
      /\ freep' = prevp[t] /\ live' = live \cup {[at |-> p[t], n |-> nunits[t]]}
      /\ myLock' = None /\ Return(t) /\ UNCHANGED <<size, sCode>>
  BY DEF MallocExact, Grant, Unlock
<1>a. freep # NULL
  BY <1>0 DEF IInv, LockInv
<1>b. PICK F \in SUBSET Addr : IsFreeList(F) /\ WalkInv(F)
  BY <1>a DEF IInv, ListInv
<1>q. PICK q, n, r : q = p[t] /\ n = nunits[t] /\ r = prevp[t]
  OBVIOUS
<1> DEFINE new == [at |-> q, n |-> n]
           G == F \ {q}
<1>c. /\ myLock = t /\ ap[t] = NULL /\ n \in Nat /\ n >= 1
      /\ r \in F /\ q \in F \ {Base} /\ r # q /\ q = ptr[r] /\ q \in Units
      /\ size[q] = n /\ q + n <= HeapUnits /\ q \in Int
  BY <1>0, <1>b, <1>q, ChunkAtHand, Constants
<1>d. /\ live' = live \cup {new} /\ new.at = q /\ new.n = n /\ new \in Block
      /\ live \subseteq Block
  BY <1>0, <1>c, <1>q DEF Block, IInv, TypeOK
<1> HIDE DEF new
<1>e. \A b \in live : /\ b.at \in Units /\ b.at \in Int /\ b.n \in Nat /\ b.n >= 1
                      /\ q + n <= b.at \/ b.at + b.n <= q
  BY <1>b, <1>c, <1>d, Constants DEF IsFreeList, ApartFromLive, Block, IInv, NoOverlap
<1>1. TypeOK'
  <2>1. ptr' \in [Addr -> Addr \cup {NULL}]
    BY <1>0, <1>b, <1>c, <1>q DEF IInv, TypeOK, IsFreeList, Linked, Circle
  <2>2. freep' \in Addr /\ live' \subseteq Block /\ myLock' \in Threads \cup {None}
    BY <1>0, <1>b, <1>c, <1>d, <1>q
  <2> QED
    BY <1>0, <2>1, <2>2, ReturnType DEF IInv, TypeOK
<1>2. NoOverlap' /\ HeadersIntact'
  <2>1. NoOverlap'
    BY <1>c, <1>d, <1>e DEF IInv, NoOverlap, Disjoint
  <2>2. HeadersIntact'
    BY <1>0, <1>b, <1>c, <1>d, HeaderPointer DEF IInv, HeadersIntact, IsFreeList, Chunks
  <2> QED
    BY <2>1, <2>2
<1>3. LockInv'
  BY <1>0, <1>b, <1>c, <1>q, ReturnInv
<1>4. FreeInv'
  <2>1. \A b \in live : b.at # q
    BY <1>c, <1>e
  <2>2. \A c \in live' \ live : c = new
    BY <1>d
  <2> QED
    BY <1>0, <1>c, <1>d, <2>1, <2>2, ReturnFree
<1>5. IsFreeList(G)'
  <2>0. /\ G \subseteq Addr /\ F \subseteq Int /\ Base \in G /\ r \in G /\ freep' = r
        /\ \A a \in F : ptr[a] \in F
        /\ ptr'[r] = ptr[q] /\ \A a \in F \ {r} : ptr'[a] = ptr[a]
    BY <1>0, <1>b, <1>c, <1>q, Constants DEF IsFreeList, Linked, Circle, IInv, TypeOK
  <2>1. Linked(G)'
    <3>1. Circle(G, ptr')
      <4>1. PICK f, g : f = ptr /\ g = ptr'
        OBVIOUS
      <4>2. F \subseteq Int /\ Circle(F, f) /\ r \in F /\ q = f[r] /\ q # r
        BY <1>b, <1>c, <2>0, <4>1 DEF IsFreeList, Linked
      <4>3. g[r] = f[q] /\ SameLinks(F \ {r, q}, f, g)
        BY <2>0, <4>1 DEF SameLinks
      <4>4. Circle(F \ {q}, g)
        BY <4>2, <4>3, RemoveCircle
      <4> QED
        BY <4>1, <4>4
    <3> QED
      BY <2>0, <3>1 DEF Linked
  <2>2. Chunks(G)' /\ Coalesced(G)'
    BY <1>0, <1>b DEF IsFreeList, Chunks, Coalesced
  <2>3. ApartFromLive(G)'
    <3>1. \A a \in G \ {Base} : a + size[a] <= q \/ q + n <= a
      BY <1>b, <1>c, <2>0, Constants DEF IsFreeList, Coalesced, IInv, TypeOK
    <3> QED
      BY <1>0, <1>b, <1>d, <3>1 DEF IsFreeList, ApartFromLive
  <2>4. Covers(G)'
    BY <1>0, <1>b, <1>c, <1>d DEF IsFreeList, Covers
  <2> QED
    BY <2>1, <2>2, <2>3, <2>4 DEF IsFreeList
<1>6. ListInv'
  BY <1>0, <1>b, <1>c, <1>5, ReturnWalk DEF ListInv
<1> QED
  BY <1>1, <1>2, <1>3, <1>4, <1>6 DEF IInv

\* gMalloc takes the tail of a larger chunk.
LEMMA MallocCutInv ==
    ASSUME IInv, NEW t \in Threads, MallocCut(t)
    PROVE  IInv'
<1>a. freep # NULL
  BY DEF IInv, LockInv, MallocCut
<1>b. PICK F \in SUBSET Addr : IsFreeList(F) /\ WalkInv(F)
  BY <1>a DEF IInv, ListInv
<1>q. PICK c0, n, q : c0 = p[t] /\ n = nunits[t] /\ q = c0 + size[c0] - n
  OBVIOUS
<1> DEFINE new == [at |-> q, n |-> n]
<1>0. /\ pc[t] = "mscan" /\ Fits(p[t], nunits[t]) /\ size[c0] # n
      /\ size' = [size EXCEPT ![c0] = @ - n, ![q] = n]
      /\ sCode' = [sCode EXCEPT ![q] = SECRET_CODE]
      /\ freep' = prevp[t] /\ live' = live \cup {new}
      /\ myLock' = None /\ Return(t) /\ ptr' = ptr
  BY <1>q DEF MallocCut, Grant, Unlock
<1>c. /\ myLock = t /\ ap[t] = NULL /\ n \in Nat /\ n >= 1 /\ prevp[t] \in F
      /\ c0 \in F \ {Base} /\ c0 \in Units /\ size[c0] \in Nat /\ size[c0] > n
      /\ c0 + size[c0] <= HeapUnits
  BY <1>0, <1>b, <1>q, ChunkAtHand
<1>d. c0 \in Nat /\ q \in Nat /\ c0 < q /\ q + n = c0 + size[c0] /\ q \in Units
  BY <1>c, <1>q, Constants DEF Units
<1>e. new \in Block /\ new.at = q /\ new.n = n /\ live \subseteq Block
  BY <1>c, <1>d DEF Block, IInv, TypeOK
<1>f. \A b \in live : /\ b.at \in Units /\ b.at \in Int /\ b.n \in Nat /\ b.n >= 1
                      /\ q + n <= b.at \/ b.at + b.n <= c0
  BY <1>b, <1>c, <1>d, <1>e, Constants
  DEF IsFreeList, ApartFromLive, Block, IInv, NoOverlap
<1> HIDE DEF new
<1>g. \A b \in live : b.at # q /\ b.at # c0
  BY <1>c, <1>d, <1>f
<1>h. F \subseteq Int /\ size \in [Addr -> Nat] /\ c0 \in Addr /\ q \in Addr
  BY <1>b, <1>c, <1>d, Constants DEF IInv, TypeOK
<1>i. q \notin F
  <2>1. q # Base
    BY <1>d, Constants
  <2> QED
    BY <1>b, <1>c, <1>d, <1>h, <2>1 DEF IsFreeList, Coalesced
<1>j. /\ size'[c0] = size[c0] - n /\ size'[q] = n /\ sCode'[q] = SECRET_CODE
      /\ \A a \in Addr \ {c0, q} : size'[a] = size[a]
      /\ \A a \in Addr \ {q} : sCode'[a] = sCode[a]
  BY <1>0, <1>c, <1>d, <1>h DEF IInv, TypeOK
<1>1. TypeOK'
  <2>1. size' \in [Addr -> Nat]
    BY <1>0, <1>c, <1>d, <1>h
  <2>2. sCode' \in [Addr -> 0 .. 255]
    <3>1. SECRET_CODE \in 0 .. 255
      BY DEF SECRET_CODE
    <3>2. sCode \in [Addr -> 0 .. 255] /\ sCode' = [sCode EXCEPT ![q] = SECRET_CODE]
      BY <1>0 DEF IInv, TypeOK
    <3> QED
      BY <3>1, <3>2
  <2>3. freep' \in Addr /\ live' \subseteq Block /\ myLock' \in Threads \cup {None}
    BY <1>0, <1>b, <1>c, <1>e
  <2> QED
    BY <1>0, <2>1, <2>2, <2>3, ReturnType DEF IInv, TypeOK
<1>2. NoOverlap' /\ HeadersIntact'
  <2>1. NoOverlap'
    BY <1>0, <1>c, <1>d, <1>e, <1>f DEF IInv, NoOverlap, Disjoint
  <2>2. HeadersIntact'
    BY <1>0, <1>d, <1>e, <1>f, <1>g, <1>j, HeaderPointer, Constants DEF IInv, HeadersIntact
  <2> QED
    BY <2>1, <2>2
<1>3. LockInv'
  BY <1>0, <1>b, <1>c, ReturnInv
<1>4. FreeInv'
  <2>1. \A c \in live' \ live : c = new
    BY <1>0
  <2>2. live' \subseteq Block /\ live \subseteq live'
    BY <1>0, <1>e
  <2> QED
    BY <1>0, <1>c, <1>e, <1>g, <2>1, <2>2, ReturnFree
<1>5. IsFreeList(F)'
  <2>1. Linked(F)'
    BY <1>0, <1>b, <1>c DEF IsFreeList, Linked, Circle
  <2>2. Chunks(F)'
    <3>1. size'[Base] = 0
      BY <1>b, <1>c, <1>d, <1>j, Constants DEF IsFreeList, Chunks
    <3>2. size'[c0] >= 1 /\ c0 + size'[c0] <= HeapUnits
      BY <1>c, <1>d, <1>j, Constants
    <3>3. \A a \in F \ {Base} : a # q /\ sCode'[a] = SECRET_CODE
      BY <1>b, <1>h, <1>i, <1>j DEF IsFreeList, Chunks
    <3>4. \A a \in F \ {Base, c0} : size'[a] >= 1 /\ a + size'[a] <= HeapUnits
      BY <1>b, <1>h, <1>i, <1>j DEF IsFreeList, Chunks
    <3> QED
      BY <3>1, <3>2, <3>3, <3>4 DEF Chunks
  <2>3. Coalesced(F)'
    BY <1>b, <1>c, <1>d, <1>h, <1>i, <1>j DEF IsFreeList, Coalesced
  <2>4. ApartFromLive(F)'
    <3>1. ASSUME NEW a \in F \ {Base} PROVE a + size'[a] <= q \/ q + n <= a
      <4>1. CASE a = c0
        BY <1>c, <1>d, <1>j, <4>1
      <4>2. CASE a # c0
        BY <1>b, <1>c, <1>d, <1>h, <1>i, <1>j, <4>2 DEF IsFreeList, Coalesced
      <4> QED
        BY <4>1, <4>2
    <3>2. ASSUME NEW a \in F \ {Base}, NEW b \in live
          PROVE  a + size'[a] <= b.at \/ b.at + b.n <= a
      <4>1. CASE a = c0
        BY <1>c, <1>d, <1>f, <1>j, <4>1
      <4>2. CASE a # c0
        BY <1>b, <1>h, <1>i, <1>j, <4>2 DEF IsFreeList, ApartFromLive
      <4> QED
        BY <4>1, <4>2
    <3> QED
      BY <1>0, <1>e, <3>1, <3>2 DEF ApartFromLive
  <2>5. Covers(F)'
    <3> SUFFICES ASSUME NEW u \in Units
                 PROVE  \/ \E a \in F \ {Base} : a <= u /\ u < a + size'[a]
                        \/ \E b \in live' : b.at <= u /\ u < b.at + b.n
      BY DEF Covers
    <3>1. CASE \E b \in live : b.at <= u /\ u < b.at + b.n
      BY <1>0, <3>1
    <3>2. CASE \E a \in F \ {Base} : a <= u /\ u < a + size[a]
      <4>1. PICK a \in F \ {Base} : a <= u /\ u < a + size[a]
        BY <3>2
      <4>2. CASE a # c0
        BY <1>h, <1>i, <1>j, <4>1, <4>2
      <4>3. CASE a = c0 /\ u < q
        BY <1>c, <1>d, <1>j, <4>1, <4>3, Constants
      <4>4. CASE a = c0 /\ q <= u
        BY <1>0, <1>d, <1>e, <4>1, <4>4
      <4> QED
        BY <1>d, <4>2, <4>3, <4>4, Constants
    <3> QED
      BY <1>b, <3>1, <3>2 DEF IsFreeList, Covers
  <2> QED
    BY <2>1, <2>2, <2>3, <2>4, <2>5 DEF IsFreeList
<1>6. ListInv'
  BY <1>0, <1>b, <1>c, <1>5, ReturnWalk DEF ListInv
<1> QED
  BY <1>1, <1>2, <1>3, <1>4, <1>6 DEF IInv

\* gMalloc has come round the circle and returns NULL.
LEMMA MallocFailInv ==
    ASSUME IInv, NEW t \in Threads, MallocFail(t)
    PROVE  IInv'
<1>0. /\ pc[t] = "mscan" /\ myLock = t /\ ap[t] = NULL /\ myLock' = None /\ Return(t)
      /\ UNCHANGED <<freep, ptr, size, sCode, live>>
  BY DEF MallocFail, Unlock, IInv, LockInv, FreeInv
<1>1. TypeOK'
  BY <1>0, ReturnType DEF IInv, TypeOK
<1>2. NoOverlap' /\ HeadersIntact'
  BY <1>0, SameBlocks DEF IInv
<1>3. LockInv'
  BY <1>0, ReturnInv
<1>4. FreeInv'
  BY <1>0, ReturnFree DEF IInv, TypeOK
<1>5. ListInv'
  BY <1>0, ReturnWalk, WalkStep
<1> QED
  BY <1>1, <1>2, <1>3, <1>4, <1>5 DEF IInv

-----------------------------------------------------------------------------
(* gFree and getGMemFree up to the insertion.                               *)

\* A call of gFree begins, with a block that is held or a foreign pointer.
LEMMA FreeEnterInv ==
    ASSUME IInv, NEW t \in Threads, NEW a, FreeEnter(t, a), Undisturbed(t),
           \/ a \in Foreign
           \/ \E b \in live : a = b.at + 1 /\ ~Freeing(b.at)
    PROVE  IInv'
<1>0. /\ UNCHANGED <<freep, ptr, size, sCode, myLock, live, prevp, p, nunits, sum>>
      /\ pc[t] = "idle" /\ freep # NULL
      /\ pc' = [pc EXCEPT ![t] = "flock"]
      /\ ap' = [ap EXCEPT ![t] = a]
  BY DEF FreeEnter, shared
<1>a. \A b \in live : b.at \in Nat /\ b.at < HeapUnits
  BY Constants DEF IInv, TypeOK, Block, Units
<1>b. a \in Int \cup {NULL}
  <2>1. CASE a \in Foreign
    <3>1. Foreign \subseteq (Int \ (0 .. HeapUnits)) \cup {NULL}
      BY MemoryAssumption
    <3> QED
      BY <2>1, <3>1
  <2>2. CASE \E b \in live : a = b.at + 1
    BY <1>a, <2>2
  <2> QED
    BY <2>1, <2>2
<1>1. TypeOK'
  BY <1>0, <1>b DEF IInv, TypeOK
<1>2. NoOverlap' /\ HeadersIntact'
  BY <1>0, SameBlocks DEF IInv
<1>3. LockInv'
  BY <1>0, Constants DEF IInv, TypeOK, LockInv
<1>4. FreeInv'
  <2>1. ASSUME NEW u \in Threads, NEW b \in live, a = b.at + 1, ap[u] = b.at + 1
        PROVE  FALSE
    <3>1. a \notin Foreign /\ ap[u] # NULL
      BY <1>a, <2>1, MemoryAssumption
    <3>2. PICK c \in live : a = c.at + 1 /\ ~Freeing(c.at)
      BY <3>1
    <3>3. pc[u] \in {"flock", "fscan"}
      BY <3>1 DEF IInv, TypeOK, FreeInv
    <3> QED
      BY <2>1, <3>2, <3>3 DEF Freeing
  <2>2. /\ ap'[t] = a /\ pc'[t] = "flock"
        /\ \A u \in Threads \ {t} : ap'[u] = ap[u] /\ pc'[u] = pc[u]
    BY <1>0 DEF IInv, TypeOK
  <2> QED
    BY <1>0, <2>1, <2>2 DEF IInv, FreeInv
<1>5. ListInv'
  BY <1>0, WalkStep DEF IInv, TypeOK, WalkInv
<1> QED
  BY <1>1, <1>2, <1>3, <1>4, <1>5 DEF IInv

\* gFree refuses a pointer that is not a block's.
LEMMA FreeRejectInv ==
    ASSUME IInv, NEW t \in Threads, FreeReject(t), Undisturbed(t)
    PROVE  IInv'
<1>0. /\ pc[t] = "flock" /\ myLock = None /\ Return(t)
      /\ UNCHANGED <<freep, ptr, size, sCode, myLock, live>>
  BY DEF FreeReject, shared
<1>1. TypeOK'
  BY <1>0, ReturnType DEF IInv, TypeOK
<1>2. NoOverlap' /\ HeadersIntact'
  BY <1>0, SameBlocks DEF IInv
<1>3. LockInv'
  BY <1>0, ReturnInv DEF Undisturbed
<1>4. FreeInv'
  <2>1. /\ pc'[t] = "idle" /\ ap'[t] = NULL
        /\ \A u \in Threads \ {t} : ap'[u] = ap[u] /\ pc'[u] = pc[u]
    BY <1>0 DEF IInv, TypeOK, Return
  <2>2. \A b \in live : b.at + 1 # NULL
    BY Constants, MemoryAssumption DEF IInv, TypeOK, Block, Units
  <2> QED
    BY <1>0, <2>1, <2>2 DEF IInv, FreeInv
<1>5. ListInv'
  BY <1>0, ReturnWalk, WalkStep
<1> QED
  BY <1>1, <1>2, <1>3, <1>4, <1>5 DEF IInv

\* gFree takes the mutex and starts its search.
LEMMA FreeLockInv ==
    ASSUME IInv, NEW t \in Threads, FreeLock(t), Undisturbed(t)
    PROVE  IInv'
<1>0. /\ UNCHANGED <<freep, ptr, size, sCode, live, prevp, nunits, ap, sum>>
      /\ pc[t] = "flock" /\ myLock = None /\ myLock' = t /\ Valid(t)
      /\ pc' = [pc EXCEPT ![t] = "fscan"]
      /\ p' = [p EXCEPT ![t] = freep]
  BY DEF FreeLock, Lock
<1>a. freep # NULL
  BY <1>0 DEF IInv, LockInv
<1>b. PICK F \in SUBSET Addr : IsFreeList(F) /\ WalkInv(F)
  BY <1>a DEF IInv, ListInv
<1>1. TypeOK'
  BY <1>0, <1>a DEF IInv, TypeOK
<1>2. NoOverlap' /\ HeadersIntact'
  BY <1>0, SameBlocks DEF IInv
<1>3. LockInv'
  BY <1>0, Constants DEF IInv, TypeOK, LockInv, Undisturbed
<1>4. FreeInv'
  <2>1. \E b \in live : ap[t] = b.at + 1
    <3>1. ap[t] \notin Foreign
      <4> SUFFICES ASSUME ap[t] \in Foreign PROVE FALSE
        OBVIOUS
      <4>1. ap[t] # NULL /\ ap[t] >= 0 /\ ap[t] * HeaderSize < SIZE_ALLOC
        BY <1>0 DEF Valid, InHeap
      <4>2. ap[t] \in Int /\ ap[t] > HeapUnits
        <5>1. Foreign \subseteq (Int \ (0 .. HeapUnits)) \cup {NULL}
          BY MemoryAssumption
        <5>2. ap[t] \in Int /\ ap[t] \notin 0 .. HeapUnits
          BY <4>1, <5>1
        <5> QED
          BY <4>1, <5>2, Constants
      <4>3. ap[t] * HeaderSize >= (HeapUnits + 1) * HeaderSize
        BY <4>2, Constants, MemoryAssumption
      <4>4. (HeapUnits + 1) * HeaderSize > SIZE_ALLOC
        BY DivisionRest
      <4> QED
        BY <4>1, <4>2, <4>3, <4>4, Constants, MemoryAssumption
    <3> QED
      BY <1>0, <3>1 DEF IInv, FreeInv
  <2> QED
    BY <1>0, <2>1 DEF IInv, TypeOK, FreeInv
<1>5. ListInv'
  <2>1. WalkInv(F)'
    BY <1>0, <1>a, <1>b, Constants DEF WalkInv, IInv, TypeOK, LockInv, IsFreeList, Linked, Circle
  <2> QED
    BY <1>0, <1>b, <2>1, SameList DEF ListInv
<1> QED
  BY <1>1, <1>2, <1>3, <1>4, <1>5 DEF IInv

\* gFree's search goes on to the next chunk.
LEMMA FreeSearchInv ==
    ASSUME IInv, NEW t \in Threads, FreeSearch(t)
    PROVE  IInv'
<1>0. /\ UNCHANGED <<freep, ptr, size, sCode, myLock, live, pc, prevp, nunits, ap, sum>>
      /\ pc[t] = "fscan" /\ p' = [p EXCEPT ![t] = ptr[p[t]]]
  BY DEF FreeSearch, shared
<1>a. freep # NULL
  BY <1>0 DEF IInv, LockInv
<1>b. PICK F \in SUBSET Addr : IsFreeList(F) /\ WalkInv(F)
  BY <1>a DEF IInv, ListInv
<1>c. p[t] \in F /\ ptr[p[t]] \in F
  BY <1>0, <1>b DEF IsFreeList, Linked, Circle, WalkInv
<1>1. TypeOK'
  BY <1>0, <1>b, <1>c DEF IInv, TypeOK
<1>2. NoOverlap' /\ HeadersIntact'
  BY <1>0, SameBlocks DEF IInv
<1>3. LockInv' /\ FreeInv'
  BY <1>0 DEF IInv, TypeOK, LockInv, FreeInv
<1>5. ListInv'
  <2>1. WalkInv(F)'
    BY <1>0, <1>b, <1>c DEF WalkInv, IInv, TypeOK, LockInv
  <2> QED
    BY <1>0, <1>b, <2>1, SameList DEF ListInv
<1> QED
  BY <1>1, <1>2, <1>3, <1>5 DEF IInv

\* getGMemFree up to the read of freep.
LEMMA SumEnterInv ==
    ASSUME IInv, NEW t \in Threads, SumEnter(t)
    PROVE  IInv'
<1>0. /\ UNCHANGED <<freep, ptr, size, sCode, myLock, live, prevp, p, nunits, ap, sum>>
      /\ pc[t] = "idle" /\ freep # NULL /\ pc' = [pc EXCEPT ![t] = "slock"]
  BY DEF SumEnter, shared
<1>1. TypeOK'
  BY <1>0 DEF IInv, TypeOK
<1>2. NoOverlap' /\ HeadersIntact'
  BY <1>0, SameBlocks DEF IInv
<1>3. LockInv' /\ FreeInv'
  BY <1>0, Constants DEF IInv, TypeOK, LockInv, FreeInv
<1>5. ListInv'
  BY <1>0, WalkStep DEF IInv, TypeOK, WalkInv
<1> QED
  BY <1>1, <1>2, <1>3, <1>5 DEF IInv

\* getGMemFree takes the mutex.
LEMMA SumLockInv ==
    ASSUME IInv, NEW t \in Threads, SumLock(t), Undisturbed(t)
    PROVE  IInv'
<1>0. /\ UNCHANGED <<freep, ptr, size, sCode, live, prevp, nunits, ap, sum>>
      /\ pc[t] = "slock" /\ myLock = None /\ myLock' = t
      /\ pc' = [pc EXCEPT ![t] = "sum"]
      /\ p' = [p EXCEPT ![t] = ptr[freep]]
  BY DEF SumLock, Lock
<1>a. freep # NULL
  BY <1>0 DEF IInv, LockInv
<1>b. PICK F \in SUBSET Addr : IsFreeList(F) /\ WalkInv(F)
  BY <1>a DEF IInv, ListInv
<1>c. ptr[freep] \in F
  BY <1>b DEF IsFreeList, Linked, Circle
<1>1. TypeOK'
  BY <1>0, <1>b, <1>c DEF IInv, TypeOK
<1>2. NoOverlap' /\ HeadersIntact'
  BY <1>0, SameBlocks DEF IInv
<1>3. LockInv' /\ FreeInv'
  BY <1>0, Constants DEF IInv, TypeOK, LockInv, FreeInv, Undisturbed
<1>5. ListInv'
  <2>1. WalkInv(F)'
    BY <1>0, <1>b, <1>c, Constants DEF WalkInv, IInv, TypeOK, LockInv
  <2> QED
    BY <1>0, <1>b, <2>1, SameList DEF ListInv
<1> QED
  BY <1>1, <1>2, <1>3, <1>5 DEF IInv

\* getGMemFree adds one chunk.
LEMMA SumNextInv ==
    ASSUME IInv, NEW t \in Threads, SumNext(t)
    PROVE  IInv'
<1>0. /\ UNCHANGED <<freep, ptr, size, sCode, myLock, live, pc, prevp, nunits, ap>>
      /\ pc[t] = "sum" /\ p' = [p EXCEPT ![t] = ptr[p[t]]]
      /\ sum' = [sum EXCEPT ![t] = @ + size[p[t]]]
  BY DEF SumNext, shared
<1>a. freep # NULL
  BY <1>0 DEF IInv, LockInv
<1>b. PICK F \in SUBSET Addr : IsFreeList(F) /\ WalkInv(F)
  BY <1>a DEF IInv, ListInv
<1>c. p[t] \in F /\ ptr[p[t]] \in F
  BY <1>0, <1>b DEF IsFreeList, Linked, Circle, WalkInv
<1>1. TypeOK'
  BY <1>0, <1>b, <1>c DEF IInv, TypeOK
<1>2. NoOverlap' /\ HeadersIntact'
  BY <1>0, SameBlocks DEF IInv
<1>3. LockInv' /\ FreeInv'
  BY <1>0 DEF IInv, TypeOK, LockInv, FreeInv
<1>5. ListInv'
  <2>1. WalkInv(F)'
    BY <1>0, <1>b, <1>c DEF WalkInv, IInv, TypeOK, LockInv
  <2> QED
    BY <1>0, <1>b, <2>1, SameList DEF ListInv
<1> QED
  BY <1>1, <1>2, <1>3, <1>5 DEF IInv

\* getGMemFree has come round and returns its sum.
LEMMA SumDoneInv ==
    ASSUME IInv, NEW t \in Threads, SumDone(t)
    PROVE  IInv'
<1>0. /\ myLock = t /\ ap[t] = NULL /\ myLock' = None /\ Return(t)
      /\ UNCHANGED <<freep, ptr, size, sCode, live>>
  BY DEF SumDone, Unlock, IInv, LockInv, FreeInv
<1>1. TypeOK'
  BY <1>0, ReturnType DEF IInv, TypeOK
<1>2. NoOverlap' /\ HeadersIntact'
  BY <1>0, SameBlocks DEF IInv
<1>3. LockInv'
  BY <1>0, ReturnInv
<1>4. FreeInv'
  BY <1>0, ReturnFree DEF IInv, TypeOK
<1>5. ListInv'
  BY <1>0, ReturnWalk, WalkStep
<1> QED
  BY <1>1, <1>2, <1>3, <1>4, <1>5 DEF IInv

-----------------------------------------------------------------------------
(* gFree puts the block back.                                               *)

\* The search ends at the chunk that precedes the block in the list.
LEMMA SearchEnds ==
    ASSUME NEW F \in SUBSET Addr, Linked(F), NEW q \in F, NEW b \in Units, b \notin F,
           Found(q, b)
    PROVE  ptr[q] \in F /\ Between(F, ptr, q, b)
<1>1. F \subseteq Int /\ b \in Int /\ ptr[q] \in F
  BY Constants DEF Linked, Circle
<1>2. \/ q < ptr[q] /\ \A c \in F : c <= q \/ ptr[q] <= c
      \/ ptr[q] <= q /\ \A c \in F : ptr[q] <= c /\ c <= q
  BY DEF Linked, Circle
<1>3. q \in Int /\ ptr[q] \in Int
  BY <1>1
<1>4. CASE b > q /\ b < ptr[q]
  BY <1>1, <1>2, <1>3, <1>4 DEF Between
<1>5. CASE q >= ptr[q] /\ (b > q \/ b < ptr[q])
  BY <1>1, <1>2, <1>3, <1>5 DEF Between
<1> QED
  BY <1>4, <1>5 DEF Found

\* gFree links the block in and coalesces it with its neighbours.
LEMMA FreeInsertInv ==
    ASSUME IInv, NEW t \in Threads, FreeInsert(t)
    PROVE  IInv'
<1>a. freep # NULL /\ myLock = t
  BY DEF IInv, LockInv, FreeInsert
<1>b. PICK F \in SUBSET Addr : IsFreeList(F) /\ WalkInv(F)
  BY <1>a DEF IInv, ListInv
<1>q. PICK q, b, nx, n : q = p[t] /\ b = bp(t) /\ nx = ptr[q] /\ n = size[b]
  OBVIOUS
<1>0. /\ pc[t] = "fscan" /\ Found(q, b)
      /\ ptr' = InsertPtr(q, b) /\ size' = InsertSize(q, b)
      /\ freep' = q /\ live' = {c \in live : c.at # b}
      /\ myLock' = None /\ Return(t) /\ sCode' = sCode
  BY <1>q DEF FreeInsert, Unlock
<1>c. PICK blk \in live : ap[t] = blk.at + 1
  BY <1>0 DEF IInv, FreeInv
<1>d. /\ blk \in Block /\ b = blk.at /\ n = blk.n /\ b \in Units /\ b \in Nat
      /\ n \in Nat /\ n >= 1 /\ b + n <= HeapUnits /\ sCode[b] = SECRET_CODE
  BY <1>c, <1>q, Constants
  DEF IInv, TypeOK, Block, Units, NoOverlap, HeadersIntact, bp
<1>e. q \in F /\ F \subseteq Int /\ Linked(F) /\ Chunks(F) /\ Coalesced(F)
      /\ ApartFromLive(F) /\ Covers(F) /\ Base \in F /\ Base \in Int /\ Base # b
      /\ size \in [Addr -> Nat] /\ ptr \in [Addr -> Addr \cup {NULL}]
      /\ live \subseteq Block
  BY <1>0, <1>b, <1>d, <1>q, Constants DEF WalkInv, IsFreeList, Linked, Circle, IInv, TypeOK
\* The chunks of the list lie apart from the block, and base does not touch it.
<1>f. \A a \in F \ {Base} : size[a] \in Nat /\ size[a] >= 1 /\ a + size[a] <= HeapUnits
                            /\ a \in Units /\ (a + size[a] <= b \/ b + n <= a)
  BY <1>c, <1>d, <1>e DEF Chunks, ApartFromLive, Addr
<1>g. b \notin F /\ size[Base] = 0 /\ b + n # Base /\ Base # b
  BY <1>d, <1>e, <1>f, Constants DEF Chunks
<1>h. /\ nx \in F
      /\ \/ q < b /\ b < nx /\ \A c \in F : c <= q \/ nx <= c
         \/ q < b /\ nx <= q /\ \A c \in F : nx <= c /\ c <= q
         \/ b < nx /\ nx <= q /\ \A c \in F : nx <= c /\ c <= q
  BY <1>0, <1>b, <1>d, <1>e, <1>g, <1>q, SearchEnds DEF Between
<1>i. /\ b + n = nx => nx # Base /\ nx > b /\ nx # q /\ nx \in Units
      /\ q + size[q] = b => q # Base /\ q < b /\ q \in Units
  BY <1>d, <1>e, <1>f, <1>g, <1>h
<1>j. /\ \A c \in live' : /\ c \in live /\ c.at \in Nat /\ c.n \in Nat /\ c.n >= 1
                          /\ (c.at + c.n <= b \/ b + n <= c.at)
      /\ \A c \in live : c = blk \/ c \in live'
  BY <1>0, <1>c, <1>d, <1>e, Constants DEF IInv, NoOverlap, Disjoint, Block, Units
\* The new links and sizes.
<1>k. /\ b + n = nx => ptr'[b] = ptr[nx] /\ ptr[nx] \in F
      /\ b + n # nx => ptr'[b] = nx
      /\ q + size[q] = b => ptr'[q] = ptr'[b]
      /\ q + size[q] # b => ptr'[q] = b
      /\ \A a \in Addr \ {b, q} : ptr'[a] = ptr[a]
      /\ ptr' \in [Addr -> Addr \cup {NULL}]
  <2>1. b \in Addr /\ q \in Addr /\ b # q /\ ptr[nx] \in F /\ F \subseteq Addr
    BY <1>d, <1>e, <1>g, <1>h, Constants DEF Linked, Circle
  <2>2. MergedPtr(q, b) = IF b + n = nx THEN ptr[nx] ELSE nx
    BY <1>q DEF MergedPtr, JoinsNext
  <2>3. MergedPtr(q, b) \in Addr
    BY <1>h, <2>1, <2>2
  <2>4. ptr' = [ptr EXCEPT ![b] = MergedPtr(q, b),
                           ![q] = IF q + size[q] = b THEN MergedPtr(q, b) ELSE b]
    BY <1>0 DEF InsertPtr, JoinsPrevious
  <2> QED
    BY <1>e, <2>1, <2>2, <2>3, <2>4
<1>l. /\ b + n = nx => size'[b] = n + size[nx]
      /\ b + n # nx => size'[b] = n
      /\ q + size[q] = b => size'[q] = size[q] + size'[b]
      /\ q + size[q] # b => size'[q] = size[q]
      /\ \A a \in Addr \ {b, q} : size'[a] = size[a]
      /\ size' \in [Addr -> Nat]
  <2>1. b \in Addr /\ q \in Addr /\ nx \in Addr /\ b # q
    BY <1>d, <1>e, <1>g, <1>h, Constants DEF Linked, Circle
  <2>2. MergedSize(q, b) = IF b + n = nx THEN n + size[nx] ELSE n
    BY <1>d, <1>q DEF MergedSize, JoinsNext
  <2>3. MergedSize(q, b) \in Nat
    BY <1>d, <1>e, <2>1, <2>2
  <2>4. /\ q + size[q] = b => size' = [size EXCEPT ![b] = MergedSize(q, b),
                                                   ![q] = @ + MergedSize(q, b)]
        /\ q + size[q] # b => size' = [size EXCEPT ![b] = MergedSize(q, b)]
    BY <1>0 DEF InsertSize, JoinsPrevious
  <2> QED
    BY <1>e, <2>1, <2>2, <2>3, <2>4
<1>1. TypeOK'
  BY <1>0, <1>e, <1>k, <1>l, ReturnType DEF IInv, TypeOK, Linked
<1>2. NoOverlap' /\ HeadersIntact'
  <2>1. NoOverlap'
    BY <1>j DEF IInv, NoOverlap, Disjoint
  <2>2. ASSUME NEW c \in live' PROVE c.at \in Addr /\ c.at # b /\ c.at # q
    <3>1. c.at \in Addr /\ c.at # b
      BY <1>0, <1>d, <1>e, <1>j, Constants DEF Block
    <3>2. c.at # q
      BY <1>d, <1>e, <1>f, <1>j, Constants DEF Block, ApartFromLive
    <3> QED
      BY <3>1, <3>2
  <2>3. HeadersIntact'
    BY <1>0, <1>j, <1>l, <2>2 DEF IInv, HeadersIntact
  <2> QED
    BY <2>1, <2>3
<1>3. LockInv'
  BY <1>0, <1>a, <1>e, ReturnInv DEF Linked
<1>4. FreeInv'
  <2>1. /\ pc'[t] = "idle" /\ ap'[t] = NULL
        /\ \A u \in Threads \ {t} : ap'[u] = ap[u] /\ pc'[u] = pc[u]
    BY <1>0 DEF IInv, TypeOK, Return
  <2>2. \A u \in Threads \ {t} : ap[u] # blk.at + 1
    BY <1>c DEF IInv, FreeInv
  <2>3. \A c \in live : c.at + 1 # NULL
    BY Constants, MemoryAssumption DEF IInv, TypeOK, Block, Units
  <2> QED
    BY <1>j, <2>1, <2>2, <2>3 DEF IInv, FreeInv
<1>5. \E G \in SUBSET Addr : IsFreeList(G)'
  <2>0. /\ F \subseteq Addr /\ b \in Addr /\ q \in Addr /\ nx \in Addr /\ nx \in Int
        /\ q \in Int /\ b # q /\ freep' = q /\ b < HeapUnits /\ 0 <= b
    BY <1>0, <1>d, <1>e, <1>g, <1>h, Constants DEF Linked, Circle, Units
  <2>1. \A a \in F : \/ a < ptr[a] /\ \A c \in F : c <= a \/ ptr[a] <= c
                     \/ ptr[a] <= a /\ \A c \in F : ptr[a] <= c /\ c <= a
    BY <1>e DEF Linked, Circle
  <2>2. \A a \in F : ptr[a] \in F
    BY <1>e DEF Linked, Circle
  <2>3. \A a, c \in F \ {Base} : a < c => a + size[a] < c
    BY <1>e DEF Coalesced
  <2>4. \A a \in F \ {Base}, c \in live' : a + size[a] <= c.at \/ c.at + c.n <= a
    BY <1>e, <1>j DEF ApartFromLive
  <2>5. \A u \in Units :
          \/ \E a \in F \ {Base} : a <= u /\ u < a + size[a]
          \/ \E c \in live' : c.at <= u /\ u < c.at + c.n
          \/ b <= u /\ u < b + n
    BY <1>d, <1>e, <1>j DEF Covers
  <2>6. \A a \in F \ {Base} : sCode'[a] = SECRET_CODE
    BY <1>0, <1>e DEF Chunks
  <2>7. sCode'[b] = SECRET_CODE
    BY <1>0, <1>d
  <2>8. size'[Base] = 0
    <3>1. q = Base => q + size[q] # b
      BY <1>i
    <3> QED
      BY <1>g, <1>l, <3>1, Constants
  \* What stands behind the block, and what stands before it.
  <2>N. \A c \in F \ {Base} : b < c => b + n <= c /\ (b + n = c => c = nx)
    <3> SUFFICES ASSUME NEW c \in F \ {Base}, b < c
                 PROVE  b + n <= c /\ (b + n = c => c = nx)
      OBVIOUS
    <3>1. c \in Int /\ c < HeapUnits /\ b + n <= c
      BY <1>d, <1>e, <1>f, Constants DEF Units
    <3>2. nx <= c /\ b < nx
      BY <1>e, <1>h, <2>0, <3>1
    <3>3. nx # Base
      BY <2>0, <3>1, <3>2, Constants
    <3>4. b + n <= nx
      BY <1>d, <1>f, <1>h, <2>0, <3>2, <3>3
    <3> QED
      BY <1>d, <2>0, <3>1, <3>2, <3>4
  <2>P. \A a \in F \ {Base} : a < b => a + size[a] <= b /\ (a + size[a] = b => a = q)
    <3> SUFFICES ASSUME NEW a \in F \ {Base}, a < b
                 PROVE  a + size[a] <= b /\ (a + size[a] = b => a = q)
      OBVIOUS
    <3>1. a \in Int /\ 0 <= a /\ size[a] \in Nat /\ a + size[a] <= b
      BY <1>d, <1>e, <1>f, Constants DEF Units
    <3>2. a <= q /\ q < b
      BY <1>e, <1>h, <2>0, <3>1
    <3>3. q # Base
      BY <2>0, <3>1, <3>2, Constants
    <3>4. a < q => a + size[a] < q
      BY <1>h, <1>e, <2>3, <3>3
    <3> QED
      BY <1>d, <2>0, <3>1, <3>2, <3>4
  \* Every held block lies apart from the freed one and from its neighbours.
  <2>L. \A c \in live' : /\ c.at \in Nat /\ c.n \in Nat /\ c.n >= 1
                         /\ c.at + c.n <= b \/ b + n <= c.at
    BY <1>j
  <2>S. \A a \in F \ {Base} : /\ a \in Int /\ size[a] \in Nat /\ size[a] >= 1
                              /\ a + size[a] <= HeapUnits
    BY <1>e, <1>f
  <2>M. /\ b \in Int /\ n \in Nat /\ n >= 1 /\ b + n <= HeapUnits /\ HeapUnits \in Nat
        /\ b \notin F /\ b # Base
        /\ b + n = nx => nx \in F \ {Base} /\ nx # q
        /\ q + size[q] = b => q \in F \ {Base}
    BY <1>d, <1>e, <1>g, <1>h, <1>i, Constants
  <2>I. Circle(F, ptr) /\ Between(F, ptr, q, b) /\ F \subseteq Int /\ q \in F /\ Base \in F
    <3>1. Circle(F, ptr) /\ F \subseteq Int /\ q \in F /\ Base \in F
      BY <1>e DEF Linked
    <3>2. Between(F, ptr, q, b)
      BY <1>h, <1>q DEF Between
    <3> QED
      BY <3>1, <3>2
  \* Neither neighbour is merged.
  <2>A. CASE b + n # nx /\ q + size[q] # b
    <3> DEFINE G == F \cup {b}
    <3>1. /\ ptr'[b] = nx /\ ptr'[q] = b /\ \A a \in F \ {q} : ptr'[a] = ptr[a]
      BY <1>g, <1>k, <2>0, <2>A
    <3>2. /\ \A a \in F : size'[a] = size[a]
          /\ size'[b] = n
      BY <1>g, <1>l, <2>0, <2>A
    <3>3. Linked(G)'
      <4>1. Circle(G, ptr')
        <5>1. PICK f, g : f = ptr /\ g = ptr'
          OBVIOUS
        <5>2. /\ F \subseteq Int /\ Circle(F, f) /\ q \in F /\ b \in Int /\ b \notin F
              /\ Between(F, f, q, b)
          BY <2>I, <2>M, <5>1
        <5>3. g[b] = f[q] /\ g[q] = b /\ SameLinks(F \ {q}, f, g)
          BY <1>q, <3>1, <5>1 DEF SameLinks
        <5>4. Circle(F \cup {b}, g)
          BY <5>2, <5>3, InsertCircle
        <5> QED
          BY <5>1, <5>4
      <4> QED
        BY <2>0, <2>I, <4>1 DEF Linked
    <3>4. Chunks(G)'
      BY <2>S, <2>M, <2>6, <2>7, <2>8, <3>2 DEF Chunks
    <3>5. Coalesced(G)'
      BY <2>3, <2>A, <2>N, <2>P, <2>S, <2>M, <3>2 DEF Coalesced
    <3>6. ApartFromLive(G)'
      BY <2>4, <2>L, <2>M, <3>2 DEF ApartFromLive
    <3>7. Covers(G)'
      BY <2>5, <2>M, <3>2 DEF Covers
    <3> QED
      BY <2>0, <3>3, <3>4, <3>5, <3>6, <3>7 DEF IsFreeList
  \* The next chunk becomes part of the block.
  <2>B. CASE b + n = nx /\ q + size[q] # b
    <3> DEFINE G == (F \cup {b}) \ {nx}
    <3>1. /\ ptr'[b] = ptr[nx] /\ ptr'[q] = b /\ \A a \in F \ {q} : ptr'[a] = ptr[a]
      BY <1>g, <1>k, <2>0, <2>B
    <3>2. /\ \A a \in F : size'[a] = size[a]
          /\ size'[b] = n + size[nx]
      BY <1>g, <1>l, <2>0, <2>B
    <3>3. Linked(G)'
      <4>1. PICK f, g, mid : f = ptr /\ g = ptr'
                             /\ mid = [a \in F \cup {b} |-> IF a = b THEN nx ELSE g[a]]
        OBVIOUS
      <4>2. Circle(F \cup {b}, mid)
        <5>1. /\ F \subseteq Int /\ Circle(F, f) /\ q \in F /\ b \in Int /\ b \notin F
              /\ Between(F, f, q, b)
          BY <2>I, <2>M, <4>1
        <5>2. mid[b] = f[q] /\ mid[q] = b /\ SameLinks(F \ {q}, f, mid)
          BY <1>q, <2>I, <2>M, <3>1, <4>1 DEF SameLinks
        <5> QED
          BY <5>1, <5>2, InsertCircle
      <4>3. /\ b \in F \cup {b} /\ nx = mid[b] /\ nx # b /\ g[b] = mid[nx]
            /\ SameLinks((F \cup {b}) \ {b, nx}, mid, g)
            /\ F \cup {b} \subseteq Int
        BY <2>B, <2>I, <2>M, <2>0, <1>q, <3>1, <4>1 DEF SameLinks
      <4>4. Circle(G, ptr')
        <5>1. Circle((F \cup {b}) \ {nx}, g)
          BY <4>2, <4>3, RemoveCircle
        <5> QED
          BY <4>1, <5>1
      <4> QED
        BY <2>0, <2>B, <2>I, <2>M, <4>4 DEF Linked
    <3>4. Chunks(G)'
      BY <2>B, <2>S, <2>M, <2>6, <2>7, <2>8, <3>2 DEF Chunks
    <3>5. Coalesced(G)'
      <4>1. ASSUME NEW c \in F \ {Base, nx}, b < c PROVE nx + size[nx] < c
        BY <2>3, <2>B, <2>N, <2>S, <2>M, <4>1
      <4> QED
        BY <2>3, <2>B, <2>P, <2>S, <2>M, <3>2, <4>1 DEF Coalesced
    <3>6. ApartFromLive(G)'
      <4>1. \A c \in live' : b + (n + size[nx]) <= c.at \/ c.at + c.n <= b
        BY <2>4, <2>B, <2>L, <2>M, <2>S
      <4> QED
        BY <2>4, <2>L, <2>M, <3>2, <4>1 DEF ApartFromLive
    <3>7. Covers(G)'
      <4> SUFFICES ASSUME NEW u \in Units
                   PROVE  \/ \E a \in G \ {Base} : a <= u /\ u < a + size'[a]
                          \/ \E c \in live' : c.at <= u /\ u < c.at + c.n
        BY DEF Covers
      <4>1. u \in Int /\ b \in G \ {Base} /\ b + size'[b] = nx + size[nx]
        BY <2>B, <2>M, <2>S, <3>2, Constants DEF Units
      <4>2. CASE \E a \in F \ {Base} : a <= u /\ u < a + size[a]
        <5>1. PICK a \in F \ {Base} : a <= u /\ u < a + size[a]
          BY <4>2
        <5>2. CASE a = nx
          BY <2>B, <2>M, <2>S, <4>1, <5>1, <5>2
        <5>3. CASE a # nx
          BY <3>2, <5>1, <5>3
        <5> QED
          BY <5>2, <5>3
      <4>3. CASE b <= u /\ u < b + n
        BY <2>B, <2>M, <2>S, <4>1, <4>3
      <4> QED
        BY <2>5, <4>2, <4>3
    <3> QED
      BY <2>0, <3>3, <3>4, <3>5, <3>6, <3>7 DEF IsFreeList
  \* The block becomes part of the previous chunk.
  <2>C. CASE b + n # nx /\ q + size[q] = b
    <3>1. ptr'[q] = nx /\ \A a \in F \ {q} : ptr'[a] = ptr[a]
      BY <1>g, <1>k, <2>0, <2>C
    <3>2. /\ \A a \in F \ {q} : size'[a] = size[a]
          /\ size'[q] = size[q] + n
      BY <1>g, <1>l, <2>0, <2>C
    <3>3. Linked(F)'
      <4>1. \A a \in F : ptr'[a] = ptr[a]
        BY <1>q, <3>1
      <4>2. Circle(F, ptr')
        BY <2>I, <4>1 DEF Circle
      <4> QED
        BY <2>0, <2>I, <4>2 DEF Linked
    <3>4. Chunks(F)'
      BY <2>C, <2>S, <2>M, <2>6, <2>8, <3>2 DEF Chunks
    <3>5. Coalesced(F)'
      <4>1. \A c \in F \ {Base} : q < c => q + (size[q] + n) < c
        BY <2>C, <2>N, <2>S, <2>M, <2>3
      <4> QED
        BY <2>3, <2>C, <2>S, <2>M, <3>2, <4>1 DEF Coalesced
    <3>6. ApartFromLive(F)'
      <4>1. \A c \in live' : q + (size[q] + n) <= c.at \/ c.at + c.n <= q
        BY <2>4, <2>C, <2>L, <2>M, <2>S
      <4> QED
        BY <2>4, <2>C, <2>L, <2>M, <3>2, <4>1 DEF ApartFromLive
    <3>7. Covers(F)'
      <4> SUFFICES ASSUME NEW u \in Units
                   PROVE  \/ \E a \in F \ {Base} : a <= u /\ u < a + size'[a]
                          \/ \E c \in live' : c.at <= u /\ u < c.at + c.n
        BY DEF Covers
      <4>1. u \in Int /\ q \in F \ {Base} /\ q + size'[q] = b + n /\ q < b /\ q \in Int
        <5>1. u \in Int /\ q \in F \ {Base} /\ q \in Int /\ size[q] \in Nat /\ size[q] >= 1
          BY <2>C, <2>M, <2>S, Constants
        <5> QED
          BY <2>C, <2>M, <3>2, <5>1
      <4>2. CASE \E a \in F \ {Base} : a <= u /\ u < a + size[a]
        <5>1. PICK a \in F \ {Base} : a <= u /\ u < a + size[a]
          BY <4>2
        <5>2. CASE a = q
          BY <2>C, <2>M, <2>S, <4>1, <5>1, <5>2
        <5>3. CASE a # q
          BY <3>2, <5>1, <5>3
        <5> QED
          BY <5>2, <5>3
      <4>3. CASE b <= u /\ u < b + n
        BY <2>M, <4>1, <4>3
      <4> QED
        BY <2>5, <4>2, <4>3
    <3> QED
      BY <2>0, <3>3, <3>4, <3>5, <3>6, <3>7 DEF IsFreeList
  \* Both: three chunks become one.
  <2>D. CASE b + n = nx /\ q + size[q] = b
    <3> DEFINE G == F \ {nx}
    <3>1. ptr'[q] = ptr[nx] /\ \A a \in F \ {q} : ptr'[a] = ptr[a]
      BY <1>g, <1>k, <2>0, <2>D
    <3>2. /\ \A a \in F \ {q} : size'[a] = size[a]
          /\ size'[q] = size[q] + (n + size[nx])
      BY <1>g, <1>l, <2>0, <2>D
    <3>3. Linked(G)'
      <4>1. Circle(G, ptr')
        <5>1. PICK f, g : f = ptr /\ g = ptr'
          OBVIOUS
        <5>2. F \subseteq Int /\ Circle(F, f) /\ q \in F /\ nx = f[q] /\ nx # q
          BY <1>q, <2>D, <2>I, <2>M, <5>1
        <5>3. g[q] = f[nx] /\ SameLinks(F \ {q, nx}, f, g)
          BY <3>1, <5>1 DEF SameLinks
        <5>4. Circle(F \ {nx}, g)
          BY <5>2, <5>3, RemoveCircle
        <5> QED
          BY <5>1, <5>4
      <4> QED
        BY <2>0, <2>D, <2>I, <2>M, <4>1 DEF Linked
    <3>4. Chunks(G)'
      BY <2>D, <2>S, <2>M, <2>6, <2>8, <3>2 DEF Chunks
    <3>N. q + (size[q] + (n + size[nx])) = nx + size[nx] /\ q < nx /\ q < b
      BY <2>D, <2>M, <2>S
    <3>5. Coalesced(G)'
      <4>1. \A c \in F \ {Base, nx} : q < c => nx + size[nx] < c
        BY <2>3, <2>D, <2>N, <2>S, <2>M
      <4> QED
        BY <2>3, <2>D, <2>S, <2>M, <3>2, <3>N, <4>1 DEF Coalesced
    <3>6. ApartFromLive(G)'
      <4>1. \A c \in live' : nx + size[nx] <= c.at \/ c.at + c.n <= q
        BY <2>4, <2>D, <2>L, <2>M, <2>S
      <4> QED
        BY <2>4, <2>D, <2>L, <2>M, <3>2, <3>N, <4>1 DEF ApartFromLive
    <3>7. Covers(G)'
      <4> SUFFICES ASSUME NEW u \in Units
                   PROVE  \/ \E a \in G \ {Base} : a <= u /\ u < a + size'[a]
                          \/ \E c \in live' : c.at <= u /\ u < c.at + c.n
        BY DEF Covers
      <4>1. u \in Int /\ q \in G \ {Base} /\ q + size'[q] = nx + size[nx] /\ q \in Int
        BY <2>D, <2>M, <2>S, <3>2, <3>N, Constants DEF Units
      <4>2. CASE \E a \in F \ {Base} : a <= u /\ u < a + size[a]
        <5>1. PICK a \in F \ {Base} : a <= u /\ u < a + size[a]
          BY <4>2
        <5>2. CASE a \in {q, nx}
          BY <2>D, <2>M, <2>S, <3>N, <4>1, <5>1, <5>2
        <5>3. CASE a \notin {q, nx}
          BY <3>2, <5>1, <5>3
        <5> QED
          BY <5>2, <5>3
      <4>3. CASE b <= u /\ u < b + n
        BY <2>D, <2>M, <2>S, <3>N, <4>1, <4>3
      <4> QED
        BY <2>5, <4>2, <4>3
    <3> QED
      BY <2>0, <3>3, <3>4, <3>5, <3>6, <3>7 DEF IsFreeList
  <2> QED
    BY <2>A, <2>B, <2>C, <2>D
<1>6. ListInv'
  BY <1>0, <1>a, <1>5, ReturnWalk DEF ListInv
<1> QED
  BY <1>1, <1>2, <1>3, <1>4, <1>6 DEF IInv

-----------------------------------------------------------------------------
(* What a client writes into its block is no header of the list.            *)
LEMMA ClientWritesInv ==
    ASSUME IInv, NEW b \in live, NEW u \in Extent(b) \ {b.at}, NEW j \in Junk,
           ClientWrites(b, u, j)
    PROVE  IInv'
<1>0. /\ UNCHANGED <<freep, myLock, live, pc, prevp, p, nunits, ap, sum>>
      /\ ptr' = [ptr EXCEPT ![u] = j.ptr] /\ size' = [size EXCEPT ![u] = j.size]
      /\ sCode' = [sCode EXCEPT ![u] = j.sCode]
  BY DEF ClientWrites, locals
<1>a. j.ptr \in Addr /\ j.size \in Nat /\ j.sCode \in 0 .. 255
  BY MemoryAssumption
<1>b. /\ b \in Block /\ b.at \in Nat /\ b.n \in Nat /\ b.at + b.n <= HeapUnits
      /\ u \in Int /\ b.at < u /\ u < b.at + b.n /\ u \in Units /\ u \in Addr /\ u # Base
  BY Constants DEF IInv, TypeOK, NoOverlap, Block, Units, Extent
<1>c. /\ \A a \in Addr \ {u} : ptr'[a] = ptr[a] /\ size'[a] = size[a] /\ sCode'[a] = sCode[a]
      /\ ptr' \in [Addr -> Addr \cup {NULL}] /\ size' \in [Addr -> Nat]
      /\ sCode' \in [Addr -> 0 .. 255]
  BY <1>0, <1>a, <1>b DEF IInv, TypeOK
<1>1. TypeOK'
  BY <1>0, <1>c DEF IInv, TypeOK
<1>2. \A c \in live : c.at # u /\ c.at \in Addr
  <2> SUFFICES ASSUME NEW c \in live PROVE c.at # u /\ c.at \in Addr
    OBVIOUS
  <2>1. c.at \in Nat /\ c.n \in Nat /\ c.n >= 1 /\ c.at \in Addr
    BY Constants DEF IInv, TypeOK, NoOverlap, Block, Units
  <2>2. c = b \/ c.at + c.n <= b.at \/ b.at + b.n <= c.at
    BY DEF IInv, NoOverlap, Disjoint
  <2> QED
    BY <1>b, <2>1, <2>2
<1>3. NoOverlap' /\ HeadersIntact'
  BY <1>0, <1>c, <1>2 DEF IInv, NoOverlap, HeadersIntact
<1>4. LockInv' /\ FreeInv'
  BY <1>0 DEF IInv, LockInv, FreeInv
<1>5. ListInv'
  <2> SUFFICES ASSUME freep # NULL
               PROVE  \E F \in SUBSET Addr : IsFreeList(F)' /\ WalkInv(F)'
    BY <1>0 DEF ListInv
  <2>1. PICK F \in SUBSET Addr : IsFreeList(F) /\ WalkInv(F)
    BY DEF IInv, ListInv
  <2>2. ASSUME NEW a \in F \ {Base} PROVE a # u
    <3>1. size[a] >= 1 /\ (a + size[a] <= b.at \/ b.at + b.n <= a)
      BY <2>1 DEF IsFreeList, Chunks, ApartFromLive
    <3>2. a \in Int /\ size[a] \in Nat
      BY <2>1, Constants DEF IInv, TypeOK
    <3> QED
      BY <1>b, <3>1, <3>2
  <2>3. \A a \in F : ptr'[a] = ptr[a] /\ size'[a] = size[a] /\ sCode'[a] = sCode[a]
    BY <1>b, <1>c, <2>1, <2>2
  <2>4. Linked(F)'
    BY <1>0, <2>1, <2>3 DEF IsFreeList, Linked, Circle
  <2>5. Chunks(F)' /\ Coalesced(F)'
    BY <2>1, <2>3 DEF IsFreeList, Linked, Chunks, Coalesced
  <2>6. ApartFromLive(F)' /\ Covers(F)'
    BY <1>0, <2>1, <2>3 DEF IsFreeList, ApartFromLive, Covers
  <2>7. WalkInv(F)'
    BY <1>0, <2>1, <2>3 DEF WalkInv
  <2> QED
    BY <2>1, <2>4, <2>5, <2>6, <2>7 DEF IsFreeList
<1> QED
  BY <1>1, <1>3, <1>4, <1>5 DEF IInv

-----------------------------------------------------------------------------
(* The invariant is inductive.                                              *)
LEMMA NextInv == IInv /\ [OrderedNext]_vars => IInv'
<1> SUFFICES ASSUME IInv, [OrderedNext]_vars PROVE IInv'
  OBVIOUS
<1>1. CASE Environment
  <2>1. CASE InitMemory
    BY <2>1, InitMemoryInv
  <2>2. CASE DestroyMemory
    BY <2>2, DestroyMemoryInv
  <2>3. CASE \E b \in live, j \in Junk : \E u \in Extent(b) \ {b.at} : ClientWrites(b, u, j)
    BY <2>3, ClientWritesInv
  <2> QED
    BY <1>1, <2>1, <2>2, <2>3 DEF Environment
<1>2. ASSUME NEW t \in Threads, Undisturbed(t), OrderedEnter(t) PROVE IInv'
  <2>1. ASSUME NEW nbytes \in Requests, MallocEnter(t, nbytes) PROVE IInv'
    <3>1. pc'[t] = "mlock"
      BY <2>1 DEF MallocEnter, IInv, TypeOK
    <3>2. myLock = None
      BY <1>2, <3>1 DEF OrderedEnter
    <3> QED
      BY <1>2, <2>1, <3>2, MallocEnterInv
  <2>2. ASSUME NEW b \in live, ~Freeing(b.at), FreeEnter(t, b.at + 1) PROVE IInv'
    BY <1>2, <2>2, FreeEnterInv
  <2>3. ASSUME NEW a \in Foreign, FreeEnter(t, a) PROVE IInv'
    BY <1>2, <2>3, FreeEnterInv
  <2>4. CASE SumEnter(t)
    BY <2>4, SumEnterInv
  <2>5. CASE Declined(t)
    BY <2>5 DEF Declined, vars, IInv, TypeOK, NoOverlap, HeadersIntact, LockInv, FreeInv,
       ListInv, IsFreeList, Linked, Chunks, Coalesced, ApartFromLive, Covers, WalkInv
  <2> QED
    BY <1>2, <2>1, <2>2, <2>3, <2>4, <2>5 DEF OrderedEnter, Enter
<1>3. ASSUME NEW t \in Threads, Undisturbed(t), TakeLock(t) PROVE IInv'
  BY <1>3, MallocLockInv, FreeRejectInv, FreeLockInv, SumLockInv DEF TakeLock
<1>4. ASSUME NEW t \in Threads, Inside(t) PROVE IInv'
  BY <1>4, MallocExactInv, MallocCutInv, MallocFailInv, MallocNextInv,
     FreeSearchInv, FreeInsertInv, SumNextInv, SumDoneInv DEF Inside
<1>5. CASE UNCHANGED vars
  BY <1>5 DEF vars, IInv, TypeOK, NoOverlap, HeadersIntact, LockInv, FreeInv,
     ListInv, IsFreeList, Linked, Chunks, Coalesced, ApartFromLive, Covers, WalkInv
<1> QED
  BY <1>1, <1>2, <1>3, <1>4, <1>5 DEF OrderedNext

\* The inductive invariant holds in every run of OrderedSpec: what gMalloc, gFree
\* and getGMemFree (memory.c) leave behind, and what they hold in between.
THEOREM MemoryInvariant == OrderedSpec => []IInv
<1>1. Init => IInv
  BY InitInv
<1>2. IInv /\ [OrderedNext]_vars => IInv'
  BY NextInv
<1> QED
  BY <1>1, <1>2, PTL DEF OrderedSpec

\* Every variable keeps its type; the walks never leave the heap and base.
THEOREM MemoryTypeOK == OrderedSpec => []TypeOK
<1>1. IInv => TypeOK
  BY DEF IInv
<1> QED
  BY <1>1, MemoryInvariant, PTL

\* Blocks held at the same time are apart and within the heap (gMalloc,
\* memory.c:174-197), for every heap, set of callers and set of requests.
THEOREM MemoryNoOverlap == OrderedSpec => []NoOverlap
<1>1. IInv => NoOverlap
  BY DEF IInv
<1> QED
  BY <1>1, MemoryInvariant, PTL

\* A held block keeps the header that gFree tests and uses (memory.c:96-112),
\* whatever clients write into their blocks.
THEOREM MemoryHeadersIntact == OrderedSpec => []HeadersIntact
<1>1. IInv => HeadersIntact
  BY DEF IInv
<1> QED
  BY <1>1, MemoryInvariant, PTL

\* The free list stays one sorted circle of unmergeable chunks that holds
\* exactly what is not held by callers (memory.c:114-147, 173-195).
THEOREM MemoryFreeListOK == OrderedSpec => []FreeListOK
<1>1. IInv => FreeListOK
  BY DEF IInv, ListInv, FreeListOK
<1> QED
  BY <1>1, MemoryInvariant, PTL

-----------------------------------------------------------------------------
(* What a walk has seen, for what gMalloc and getGMemFree answer.           *)

\* a lies strictly between f and q on the way round, q = f being a whole round.
Passed(f, q, a) ==
    \/ f < a /\ a < q
    \/ q <= f /\ (f < a \/ a < q)

\* The units of the chunk at a, of the chunks of S, and of those of F that a
\* walk has passed.
ChunkUnits(a) == {u \in Units : a <= u /\ u < a + size[a]}
UnitsOf(S) == UNION {ChunkUnits(a) : a \in S}
PassedUnits(F, q) == UnitsOf({a \in F : Passed(freep, q, a)})

\* Who does not ask waits for no units, who does not sum has no sum.
IdleInv ==
    \A t \in Threads :
        /\ pc[t] \notin {"mlock", "mscan"} => nunits[t] = 0
        /\ pc[t] # "sum" => sum[t] = 0

\* gMalloc's walk found every chunk that it passed too small; getGMemFree's
\* has added up those that it passed.
Refused(F, t) ==
    p[t] \in F /\ \A a \in F : Passed(freep, p[t], a) => size[a] < nunits[t]
Summed(F, t) ==
    p[t] \in F /\ sum[t] = Cardinality(PassedUnits(F, p[t]))
SeenInv ==
    \A F \in SUBSET Addr : IsFreeList(F) =>
        \A t \in Threads :
            /\ pc[t] = "mscan" => Refused(F, t)
            /\ pc[t] = "sum" => Summed(F, t)

\* A walk that starts behind f has passed nothing.
LEMMA NothingPassed ==
    ASSUME NEW F, F \subseteq Int, NEW next, Circle(F, next), NEW f \in F
    PROVE  \A a \in F : ~Passed(f, next[f], a)
<1> SUFFICES ASSUME NEW a \in F PROVE ~Passed(f, next[f], a)
  OBVIOUS
<1> DEFINE n == next[f]
<1>1. /\ n \in Int /\ f \in Int /\ a \in Int
      /\ \/ f < n /\ (a <= f \/ n <= a)
         \/ n <= f /\ n <= a /\ a <= f
  BY DEF Circle
<1> HIDE DEF n
<1>2. ~Passed(f, n, a)
  BY <1>1 DEF Passed
<1> QED
  BY <1>2 DEF n

\* One step of a walk passes one chunk more.
LEMMA OneFurther ==
    ASSUME NEW F, F \subseteq Int, NEW next, Circle(F, next),
           NEW f \in F, NEW q \in F, q # f
    PROVE  \A a \in F : Passed(f, next[q], a) <=> Passed(f, q, a) \/ a = q
<1> SUFFICES ASSUME NEW a \in F
             PROVE  Passed(f, next[q], a) <=> Passed(f, q, a) \/ a = q
  OBVIOUS
<1>1. /\ next[q] \in F /\ next[q] \in Int
      /\ \/ q < next[q] /\ (a <= q \/ next[q] <= a) /\ (f <= q \/ next[q] <= f)
         \/ next[q] <= q /\ next[q] <= a /\ a <= q /\ next[q] <= f /\ f <= q
  BY DEF Circle
<1> DEFINE n == next[q]
<1> HIDE DEF n
<1>2. /\ n \in Int /\ q \in Int /\ f \in Int /\ a \in Int
      /\ \/ q < n /\ (a <= q \/ n <= a) /\ (f <= q \/ n <= f)
         \/ n <= q /\ n <= a /\ a <= q /\ n <= f /\ f <= q
  BY <1>1 DEF n
<1>3. Passed(f, n, a) <=> Passed(f, q, a) \/ a = q
  BY <1>2 DEF Passed
<1> QED
  BY <1>3 DEF n

\* A walk that is back has passed all but the chunk where it began.
LEMMA AllPassed ==
    ASSUME NEW F, F \subseteq Int, NEW f \in F
    PROVE  \A a \in F : Passed(f, f, a) <=> a # f
  BY DEF Passed

\* A list after a step that leaves the shared state alone was the list before it.
LEMMA SameListBefore ==
    ASSUME UNCHANGED <<freep, ptr, size, sCode, live>>, NEW F, IsFreeList(F)'
    PROVE  IsFreeList(F)
  BY DEF IsFreeList, Linked, Circle, Chunks, Coalesced, ApartFromLive, Covers

\* Nobody is inside a walk when the mutex is free.
LEMMA NobodyInside ==
    ASSUME IInv', myLock' = None
    PROVE  SeenInv'
<1>1. \A t \in Threads : pc'[t] \notin {"mscan", "sum"}
  BY Constants DEF IInv, LockInv
<1> QED
  BY <1>1 DEF SeenInv

\* Steps of callers that are not inside a walk.
LEMMA NotWalking ==
    ASSUME SeenInv, UNCHANGED <<freep, ptr, size, sCode, live>>,
           \A t \in Threads :
              pc'[t] \in {"mscan", "sum"} =>
                pc'[t] = pc[t] /\ p'[t] = p[t] /\ nunits'[t] = nunits[t] /\ sum'[t] = sum[t]
    PROVE  SeenInv'
<1> SUFFICES ASSUME NEW F \in SUBSET Addr, IsFreeList(F)', NEW t \in Threads
             PROVE  /\ pc'[t] = "mscan" => Refused(F, t)'
                    /\ pc'[t] = "sum" => Summed(F, t)'
  BY DEF SeenInv
<1>1. IsFreeList(F)
  BY SameListBefore
<1>3. CASE pc'[t] = "mscan"
  <2>1. Refused(F, t)
    BY <1>1, <1>3 DEF SeenInv
  <2> QED
    BY <1>3, <2>1 DEF Refused
<1>4. CASE pc'[t] = "sum"
  <2>1. Summed(F, t)
    BY <1>1, <1>4 DEF SeenInv
  <2> QED
    BY SMTT(30), <1>4, <2>1 DEF Summed, PassedUnits, UnitsOf, ChunkUnits
<1> QED
  BY <1>3, <1>4

\* gMalloc's walk begins behind freep: no chunk was passed.
LEMMA MallocLockSeen ==
    ASSUME IInv, SeenInv, NEW t \in Threads, MallocLock(t)
    PROVE  SeenInv'
<1>0. /\ UNCHANGED <<freep, ptr, size, sCode, live, prevp, nunits, ap, sum>>
      /\ pc[t] = "mlock" /\ myLock = None
      /\ pc' = [pc EXCEPT ![t] = "mscan"]
      /\ p' = [p EXCEPT ![t] = ptr[prevp[t]]]
  BY DEF MallocLock, Lock
<1>1. /\ prevp[t] = freep /\ p'[t] = ptr[freep] /\ pc'[t] = "mscan"
      /\ \A u \in Threads \ {t} : pc'[u] = pc[u] /\ pc[u] \notin {"mscan", "sum"}
  BY <1>0, Constants DEF IInv, LockInv, TypeOK
<1>2. ASSUME NEW F \in SUBSET Addr, IsFreeList(F)' PROVE Refused(F, t)'
  <2>1. IsFreeList(F)
    BY <1>0, <1>2, SameListBefore
  <2>2. F \subseteq Int /\ Circle(F, ptr) /\ freep \in F /\ ptr[freep] \in F
    BY <2>1, Constants DEF IsFreeList, Linked, Circle
  <2>3. \A a \in F : ~Passed(freep, ptr[freep], a)
    BY <2>2, NothingPassed
  <2> QED
    BY <1>0, <1>1, <2>2, <2>3 DEF Refused
<1> QED
  BY <1>1, <1>2 DEF SeenInv

\* getGMemFree's walk begins there too, with no sum.
LEMMA SumLockSeen ==
    ASSUME IInv, IdleInv, SeenInv, NEW t \in Threads, SumLock(t)
    PROVE  SeenInv'
<1>0. /\ UNCHANGED <<freep, ptr, size, sCode, live, prevp, nunits, ap, sum>>
      /\ pc[t] = "slock" /\ myLock = None
      /\ pc' = [pc EXCEPT ![t] = "sum"]
      /\ p' = [p EXCEPT ![t] = ptr[freep]]
  BY DEF SumLock, Lock
<1>1. /\ p'[t] = ptr[freep] /\ pc'[t] = "sum" /\ sum'[t] = 0
      /\ \A u \in Threads \ {t} : pc'[u] = pc[u] /\ pc[u] \notin {"mscan", "sum"}
  BY <1>0, Constants DEF IInv, LockInv, TypeOK, IdleInv
<1>2. ASSUME NEW F \in SUBSET Addr, IsFreeList(F)' PROVE Summed(F, t)'
  <2>1. IsFreeList(F)
    BY <1>0, <1>2, SameListBefore
  <2>2. F \subseteq Int /\ Circle(F, ptr) /\ freep \in F /\ ptr[freep] \in F
    BY <2>1, Constants DEF IsFreeList, Linked, Circle
  <2>3. \A a \in F : ~Passed(freep, ptr[freep], a)
    BY <2>2, NothingPassed
  <2>4. PassedUnits(F, p[t])' = {}
    BY <1>0, <1>1, <2>3 DEF PassedUnits, UnitsOf
  <2> QED
    BY <1>1, <2>2, <2>4, FS_EmptySet DEF Summed
<1> QED
  BY <1>1, <1>2 DEF SeenInv

\* gMalloc goes on from a chunk that is too small.
LEMMA MallocNextSeen ==
    ASSUME IInv, SeenInv, NEW t \in Threads, MallocNext(t)
    PROVE  SeenInv'
<1>0. /\ UNCHANGED <<freep, ptr, size, sCode, myLock, live, pc, nunits, ap, sum>>
      /\ pc[t] = "mscan" /\ ~Fits(p[t], nunits[t]) /\ p[t] # freep
      /\ p' = [p EXCEPT ![t] = ptr[p[t]]]
  BY DEF MallocNext, shared
<1>1. /\ p'[t] = ptr[p[t]]
      /\ \A u \in Threads \ {t} : pc[u] \notin {"mscan", "sum"}
  BY <1>0 DEF IInv, LockInv, TypeOK
<1>2. ASSUME NEW F \in SUBSET Addr, IsFreeList(F)' PROVE Refused(F, t)'
  <2>1. IsFreeList(F)
    BY <1>0, <1>2, SameListBefore
  <2>2. Refused(F, t)
    BY <1>0, <2>1 DEF SeenInv
  <2>3. /\ F \subseteq Int /\ Circle(F, ptr) /\ freep \in F
        /\ p[t] \in F /\ p[t] \in Addr /\ ptr[p[t]] \in F
    BY <2>1, <2>2, Constants DEF IsFreeList, Linked, Circle, Refused
  <2>4. \A a \in F : Passed(freep, ptr[p[t]], a) <=> Passed(freep, p[t], a) \/ a = p[t]
    BY <1>0, <2>3, OneFurther
  <2>5. size[p[t]] < nunits[t]
    <3>1. size[p[t]] \in Nat /\ nunits[t] \in Nat
      BY <2>3 DEF IInv, TypeOK
    <3> QED
      BY <1>0, <3>1 DEF Fits
  <2> QED
    BY <1>0, <1>1, <2>2, <2>3, <2>4, <2>5 DEF Refused
<1> QED
  BY <1>0, <1>1, <1>2 DEF SeenInv

\* Two free chunks share no unit.
LEMMA ChunkUnitsApart ==
    ASSUME IInv, NEW F \in SUBSET Addr, IsFreeList(F), NEW a \in F, NEW c \in F, a # c
    PROVE  ChunkUnits(a) \cap ChunkUnits(c) = {}
<1> SUFFICES ASSUME NEW u \in ChunkUnits(a) \cap ChunkUnits(c) PROVE FALSE
  OBVIOUS
<1>1. /\ u \in Int /\ a \in Int /\ c \in Int /\ size[a] \in Nat /\ size[c] \in Nat
      /\ a <= u /\ u < a + size[a] /\ c <= u /\ u < c + size[c]
  BY Constants DEF ChunkUnits, IInv, TypeOK, Units
<1>2. a # Base /\ c # Base
  BY <1>1 DEF IsFreeList, Chunks
<1>3. a < c \/ c < a
  BY <1>1
<1>4. a + size[a] < c \/ c + size[c] < a
  BY <1>2, <1>3 DEF IsFreeList, Coalesced
<1> QED
  BY <1>1, <1>4

\* A free chunk has as many units as its header says; base has none.
LEMMA ChunkUnitsCount ==
    ASSUME IInv, NEW F \in SUBSET Addr, IsFreeList(F), NEW a \in F
    PROVE  IsFiniteSet(ChunkUnits(a)) /\ Cardinality(ChunkUnits(a)) = size[a]
<1>1. a \in Int /\ size[a] \in Nat
  BY Constants DEF IInv, TypeOK
<1>2. ChunkUnits(a) = a .. a + size[a] - 1
  <2>1. CASE a = Base
    <3>1. size[a] = 0
      BY <2>1 DEF IsFreeList, Chunks
    <3> QED
      BY <1>1, <3>1, Constants DEF ChunkUnits, Units
  <2>2. CASE a # Base
    <3>1. a \in Units /\ a + size[a] <= HeapUnits
      BY <2>2 DEF IsFreeList, Chunks, Addr
    <3> QED
      BY <1>1, <3>1, Constants DEF ChunkUnits, Units
  <2> QED
    BY <2>1, <2>2
<1>3. a + size[a] - 1 \in Int
  BY <1>1
<1>4. /\ IsFiniteSet(a .. a + size[a] - 1)
      /\ Cardinality(a .. a + size[a] - 1)
           = IF a > a + size[a] - 1 THEN 0 ELSE (a + size[a] - 1) - a + 1
  BY <1>1, <1>3, FS_Interval
<1>5. (IF a > a + size[a] - 1 THEN 0 ELSE (a + size[a] - 1) - a + 1) = size[a]
  BY <1>1
<1> QED
  BY <1>2, <1>4, <1>5

\* One chunk more in the sum: its units are new, and as many as its size.
LEMMA OneChunkMore ==
    ASSUME IInv, NEW F \in SUBSET Addr, IsFreeList(F), NEW S \in SUBSET F, NEW a \in F \ S
    PROVE  Cardinality(UnitsOf(S) \cup ChunkUnits(a)) = Cardinality(UnitsOf(S)) + size[a]
<1> DEFINE U == UnitsOf(S)
<1>1. IsFiniteSet(U)
  <2>1. IsFiniteSet(0 .. HeapUnits - 1) /\ U \in SUBSET (0 .. HeapUnits - 1)
    BY Constants, FS_Interval DEF UnitsOf, ChunkUnits, Units
  <2> QED
    BY <2>1, FS_Subset
<1>2. U \cap ChunkUnits(a) = {}
  BY ChunkUnitsApart DEF UnitsOf
<1>3. IsFiniteSet(ChunkUnits(a)) /\ Cardinality(ChunkUnits(a)) = size[a]
  BY ChunkUnitsCount
<1>4. size[a] \in Nat
  BY DEF IInv, TypeOK
<1> HIDE DEF U
<1>5. Cardinality(U) \in Nat
  BY <1>1, FS_CardinalityType
<1>6. Cardinality(U \cup ChunkUnits(a))
        = Cardinality(U) + Cardinality(ChunkUnits(a)) - Cardinality(U \cap ChunkUnits(a))
  BY <1>1, <1>3, FS_Union
<1>7. Cardinality(U \cap ChunkUnits(a)) = 0
  BY <1>2, FS_EmptySet
<1>8. Cardinality(U \cup ChunkUnits(a)) = Cardinality(U) + size[a]
  BY <1>3, <1>4, <1>5, <1>6, <1>7
<1> QED
  BY <1>8 DEF U

\* getGMemFree adds one chunk and goes on.
LEMMA SumNextSeen ==
    ASSUME IInv, SeenInv, NEW t \in Threads, SumNext(t)
    PROVE  SeenInv'
<1>0. /\ UNCHANGED <<freep, ptr, size, sCode, myLock, live, pc, nunits, ap>>
      /\ pc[t] = "sum" /\ p[t] # freep
      /\ p' = [p EXCEPT ![t] = ptr[p[t]]]
      /\ sum' = [sum EXCEPT ![t] = @ + size[p[t]]]
  BY DEF SumNext, shared
<1>1. /\ p'[t] = ptr[p[t]] /\ sum'[t] = sum[t] + size[p[t]]
      /\ \A u \in Threads \ {t} : pc[u] \notin {"mscan", "sum"}
  BY <1>0 DEF IInv, LockInv, TypeOK
<1>2. ASSUME NEW F \in SUBSET Addr, IsFreeList(F)' PROVE Summed(F, t)'
  <2>1. IsFreeList(F)
    BY <1>0, <1>2, SameListBefore
  <2>2. p[t] \in F /\ sum[t] = Cardinality(PassedUnits(F, p[t]))
    BY <1>0, <2>1 DEF SeenInv, Summed
  <2>3. /\ F \subseteq Int /\ Circle(F, ptr) /\ freep \in F
        /\ p[t] \in Addr /\ ptr[p[t]] \in F
    BY <2>1, <2>2, Constants DEF IsFreeList, Linked, Circle
  <2>4. \A a \in F : Passed(freep, ptr[p[t]], a) <=> Passed(freep, p[t], a) \/ a = p[t]
    BY <1>0, <2>2, <2>3, OneFurther
  <2> DEFINE S == {c \in F : Passed(freep, p[t], c)}
  <2>5. p[t] \in F \ S /\ S \in SUBSET F
    <3>1. freep \in Int /\ p[t] \in Int
      BY <2>2, <2>3
    <3>2. ~Passed(freep, p[t], p[t])
      BY <3>1 DEF Passed
    <3> QED
      BY <2>2, <3>2
  <2>6. PassedUnits(F, ptr[p[t]]) = PassedUnits(F, p[t]) \cup ChunkUnits(p[t])
    BY <2>2, <2>4 DEF PassedUnits, UnitsOf
  <2>7. Cardinality(UnitsOf(S) \cup ChunkUnits(p[t])) = Cardinality(UnitsOf(S)) + size[p[t]]
    <3> HIDE DEF S
    <3> QED
      BY <2>1, <2>5, OneChunkMore
  <2>8. Cardinality(PassedUnits(F, ptr[p[t]])) = sum[t] + size[p[t]]
    BY <2>2, <2>6, <2>7 DEF PassedUnits
  <2>9. PassedUnits(F, p[t])' = PassedUnits(F, ptr[p[t]])
    BY <1>0, <1>1 DEF PassedUnits, UnitsOf, ChunkUnits
  <2> QED
    BY <1>1, <2>3, <2>8, <2>9 DEF Summed
<1> QED
  BY <1>0, <1>1, <1>2 DEF SeenInv

\* A client's write touches no header of the list, and the list before the
\* write was the list after it.
LEMMA ClientWritesSeen ==
    ASSUME IInv, IInv', SeenInv, NEW b \in live, NEW u \in Extent(b) \ {b.at}, NEW j \in Junk,
           ClientWrites(b, u, j)
    PROVE  SeenInv'
<1>0. /\ UNCHANGED <<freep, myLock, live, pc, prevp, p, nunits, ap, sum>>
      /\ ptr' = [ptr EXCEPT ![u] = j.ptr] /\ size' = [size EXCEPT ![u] = j.size]
      /\ sCode' = [sCode EXCEPT ![u] = j.sCode]
  BY DEF ClientWrites, locals
<1>1. /\ b.at \in Nat /\ b.n \in Nat /\ u \in Int /\ b.at < u /\ u < b.at + b.n /\ u # Base
  <2>1. b \in Block /\ b.at + b.n <= HeapUnits
    BY DEF IInv, TypeOK, NoOverlap
  <2>2. b.at \in Nat /\ b.n \in Nat
    BY <2>1, Constants DEF Block, Units
  <2> QED
    BY <2>1, <2>2, Constants DEF Extent
<1>2. \A a \in Addr \ {u} : ptr'[a] = ptr[a] /\ size'[a] = size[a] /\ sCode'[a] = sCode[a]
  BY <1>0 DEF IInv, TypeOK
<1> SUFFICES ASSUME NEW F \in SUBSET Addr, IsFreeList(F)', NEW t \in Threads
             PROVE  /\ pc'[t] = "mscan" => Refused(F, t)'
                    /\ pc'[t] = "sum" => Summed(F, t)'
  BY DEF SeenInv
<1>3. ASSUME NEW a \in F \ {Base} PROVE a # u
  <2>1. size'[a] >= 1 /\ (a + size'[a] <= b.at \/ b.at + b.n <= a)
    BY <1>0 DEF IsFreeList, Chunks, ApartFromLive
  <2>2. a \in Int /\ size'[a] \in Nat
    BY Constants DEF IInv, TypeOK
  <2> QED
    BY <1>1, <2>1, <2>2
<1>4. \A a \in F : ptr'[a] = ptr[a] /\ size'[a] = size[a] /\ sCode'[a] = sCode[a]
  BY <1>1, <1>2, <1>3
<1>5. IsFreeList(F)
  <2>1. Linked(F)
    BY <1>0, <1>4 DEF IsFreeList, Linked, Circle
  <2>2. Chunks(F) /\ Coalesced(F)
    BY <2>1, <1>4 DEF IsFreeList, Linked, Chunks, Coalesced
  <2>3. ApartFromLive(F) /\ Covers(F)
    BY <1>0, <1>4 DEF IsFreeList, ApartFromLive, Covers
  <2> QED
    BY <2>1, <2>2, <2>3 DEF IsFreeList
<1>c. /\ freep' = freep /\ pc'[t] = pc[t] /\ p'[t] = p[t]
      /\ nunits'[t] = nunits[t] /\ sum'[t] = sum[t]
  BY <1>0
<1>d. \A a \in F : size'[a] = size[a]
  BY <1>4
<1>6. CASE pc'[t] = "mscan"
  <2>1. Refused(F, t)
    BY <1>5, <1>6, <1>c DEF SeenInv
  <2> QED
    BY <1>6, <1>c, <1>d, <2>1 DEF Refused
<1>7. CASE pc'[t] = "sum"
  <2>1. Summed(F, t)
    BY <1>5, <1>7, <1>c DEF SeenInv
  <2>2. \A a \in F : ChunkUnits(a)' = ChunkUnits(a)
    BY <1>d DEF ChunkUnits
  <2>3. PassedUnits(F, p[t])' = PassedUnits(F, p[t])
    <3>1. {a \in F : Passed(freep', p'[t], a)} = {a \in F : Passed(freep, p[t], a)}
      BY <1>c
    <3> DEFINE S == {a \in F : Passed(freep, p[t], a)}
    <3>2. S \subseteq F
      OBVIOUS
    <3>3. PassedUnits(F, p[t])' = UNION {ChunkUnits(a)' : a \in S}
      BY <3>1 DEF PassedUnits, UnitsOf
    <3> HIDE DEF S
    <3>4. UNION {ChunkUnits(a)' : a \in S} = UNION {ChunkUnits(a) : a \in S}
      BY <2>2, <3>2
    <3> QED
      BY <3>3, <3>4 DEF PassedUnits, UnitsOf, S
  <2> QED
    BY <1>7, <1>c, <2>1, <2>3 DEF Summed
<1> QED
  BY <1>6, <1>7

\* The invariant of the walks, on top of IInv.
WInv == IInv /\ IdleInv /\ SeenInv

\* A call that returns leaves nothing in its locals.
LEMMA ReturnIdle ==
    ASSUME IInv, IdleInv, NEW t \in Threads, Return(t)
    PROVE  IdleInv'
  BY DEF IInv, TypeOK, IdleInv, Return

\* Every step keeps the locals of those who do not walk at zero.
LEMMA NextIdle == IInv /\ IdleInv /\ [OrderedNext]_vars => IdleInv'
<1> SUFFICES ASSUME IInv, IdleInv, [OrderedNext]_vars PROVE IdleInv'
  OBVIOUS
<1>1. CASE Environment
  BY <1>1 DEF Environment, InitMemory, DestroyMemory, ClientWrites, locals, IdleInv
<1>2. ASSUME NEW t \in Threads, Enter(t) PROVE IdleInv'
  BY <1>2 DEF Enter, MallocEnter, FreeEnter, SumEnter, Declined, vars, IdleInv, IInv, TypeOK
<1>3. ASSUME NEW t \in Threads, TakeLock(t) PROVE IdleInv'
  <2>1. CASE FreeReject(t)
    BY <2>1, ReturnIdle DEF FreeReject
  <2>2. CASE MallocLock(t) \/ FreeLock(t) \/ SumLock(t)
    BY <2>2 DEF MallocLock, FreeLock, SumLock, IdleInv, IInv, TypeOK
  <2> QED
    BY <1>3, <2>1, <2>2 DEF TakeLock
<1>4. ASSUME NEW t \in Threads, Inside(t) PROVE IdleInv'
  <2>1. CASE MallocExact(t) \/ MallocCut(t) \/ MallocFail(t) \/ FreeInsert(t) \/ SumDone(t)
    BY <2>1, ReturnIdle DEF MallocExact, MallocCut, MallocFail, FreeInsert, SumDone
  <2>2. CASE MallocNext(t) \/ FreeSearch(t) \/ SumNext(t)
    BY <2>2 DEF MallocNext, FreeSearch, SumNext, IdleInv, IInv, TypeOK
  <2> QED
    BY <1>4, <2>1, <2>2 DEF Inside
<1>5. CASE UNCHANGED vars
  BY <1>5 DEF vars, IdleInv
<1> QED
  BY <1>1, <1>2, <1>3, <1>4, <1>5 DEF OrderedNext, OrderedEnter

\* Every step keeps what the walks have seen: outside the mutex nothing of the
\* list changes, and whoever changes it is alone with it.
LEMMA NextSeen == WInv /\ IInv' /\ [OrderedNext]_vars => SeenInv'
<1> SUFFICES ASSUME IInv, IdleInv, SeenInv, IInv', [OrderedNext]_vars PROVE SeenInv'
  BY DEF WInv
<1>1. CASE Environment
  <2>1. CASE InitMemory \/ DestroyMemory
    <3>1. \A t \in Threads : pc'[t] = "idle"
      BY <2>1 DEF InitMemory, DestroyMemory, locals
    <3> QED
      BY <3>1 DEF SeenInv
  <2>2. CASE \E b \in live, j \in Junk : \E u \in Extent(b) \ {b.at} : ClientWrites(b, u, j)
    BY <2>2, ClientWritesSeen
  <2> QED
    BY <1>1, <2>1, <2>2 DEF Environment
<1>2. ASSUME NEW t \in Threads, Enter(t) PROVE SeenInv'
  <2>1. UNCHANGED <<freep, ptr, size, sCode, live>>
    BY <1>2 DEF Enter, MallocEnter, FreeEnter, SumEnter, Declined, vars, shared
  <2>2. \A u \in Threads :
          pc'[u] \in {"mscan", "sum"} =>
            pc'[u] = pc[u] /\ p'[u] = p[u] /\ nunits'[u] = nunits[u] /\ sum'[u] = sum[u]
    BY <1>2 DEF Enter, MallocEnter, FreeEnter, SumEnter, Declined, vars, IInv, TypeOK
  <2> QED
    BY <2>1, <2>2, NotWalking
<1>3. ASSUME NEW t \in Threads, TakeLock(t) PROVE SeenInv'
  <2>1. CASE FreeReject(t) \/ FreeLock(t)
    <3>1. UNCHANGED <<freep, ptr, size, sCode, live>>
      BY <2>1 DEF FreeReject, FreeLock, shared
    <3>2. \A u \in Threads :
            pc'[u] \in {"mscan", "sum"} =>
              pc'[u] = pc[u] /\ p'[u] = p[u] /\ nunits'[u] = nunits[u] /\ sum'[u] = sum[u]
      BY <2>1 DEF FreeReject, FreeLock, Return, IInv, TypeOK
    <3> QED
      BY <3>1, <3>2, NotWalking
  <2> QED
    BY <1>3, <2>1, MallocLockSeen, SumLockSeen DEF TakeLock
<1>4. ASSUME NEW t \in Threads, Inside(t) PROVE SeenInv'
  <2>1. CASE MallocExact(t) \/ MallocCut(t) \/ MallocFail(t) \/ FreeInsert(t) \/ SumDone(t)
    BY <2>1, NobodyInside DEF MallocExact, MallocCut, MallocFail, FreeInsert, SumDone, Unlock
  <2>2. CASE FreeSearch(t)
    <3>1. UNCHANGED <<freep, ptr, size, sCode, live>>
      BY <2>2 DEF FreeSearch, shared
    <3>2. \A u \in Threads :
            pc'[u] \in {"mscan", "sum"} =>
              pc'[u] = pc[u] /\ p'[u] = p[u] /\ nunits'[u] = nunits[u] /\ sum'[u] = sum[u]
      BY <2>2 DEF FreeSearch, IInv, TypeOK
    <3> QED
      BY <3>1, <3>2, NotWalking
  <2> QED
    BY <1>4, <2>1, <2>2, MallocNextSeen, SumNextSeen DEF Inside
<1>5. CASE UNCHANGED vars
  <2>1. UNCHANGED <<freep, ptr, size, sCode, live, pc, p, nunits, sum>>
    BY <1>5 DEF vars
  <2> QED
    BY <2>1, NotWalking
<1> QED
  BY <1>1, <1>2, <1>3, <1>4, <1>5 DEF OrderedNext, OrderedEnter

\* The invariant of the walks holds in every run of OrderedSpec.
LEMMA WalksKept == OrderedSpec => []WInv
<1>1. Init => WInv
  <2>1. Init => IdleInv /\ SeenInv
    BY DEF Init, IdleInv, SeenInv
  <2> QED
    BY <2>1, InitInv DEF WInv
<1>2. WInv /\ [OrderedNext]_vars => WInv'
  BY NextInv, NextIdle, NextSeen DEF WInv
<1> QED
  BY <1>1, <1>2, PTL DEF OrderedSpec

-----------------------------------------------------------------------------
(* What getGMemFree answers.                                                *)

\* The free chunks and the blocks share the heap out between them.
LEMMA FreeUnitsInList ==
    ASSUME IInv, NEW F \in SUBSET Addr, IsFreeList(F)
    PROVE  UnitsOf(F) = FreeUnits
<1>1. \A b \in live : b.at \in Nat /\ b.n \in Nat
  BY Constants DEF IInv, TypeOK, Block, Units
<1>2. ASSUME NEW u \in UnitsOf(F) PROVE u \in FreeUnits
  <2>1. PICK a \in F : u \in ChunkUnits(a)
    BY <1>2 DEF UnitsOf
  <2>2. /\ u \in Units /\ u \in Int /\ a \in Int /\ size[a] \in Nat
        /\ a <= u /\ u < a + size[a]
    BY <2>1, Constants DEF ChunkUnits, IInv, TypeOK
  <2>3. a # Base
    BY <2>2 DEF IsFreeList, Chunks
  <2>4. \A b \in live : a + size[a] <= b.at \/ b.at + b.n <= a
    BY <2>1, <2>3 DEF IsFreeList, ApartFromLive
  <2>5. ASSUME NEW b \in live, u \in Extent(b) PROVE FALSE
    <3>1. b.at <= u /\ u < b.at + b.n
      BY <1>1, <2>2, <2>5 DEF Extent
    <3> QED
      BY <1>1, <2>2, <2>4, <3>1
  <2> QED
    BY <2>2, <2>5 DEF FreeUnits
<1>3. ASSUME NEW u \in FreeUnits PROVE u \in UnitsOf(F)
  <2>1. u \in Units /\ u \in Int /\ \A b \in live : u \notin Extent(b)
    BY Constants DEF FreeUnits
  <2>2. \A b \in live : ~(b.at <= u /\ u < b.at + b.n)
    BY <1>1, <2>1 DEF Extent
  <2>3. PICK a \in F \ {Base} : a <= u /\ u < a + size[a]
    BY <2>1, <2>2 DEF IsFreeList, Covers
  <2> QED
    BY <2>1, <2>3 DEF UnitsOf, ChunkUnits
<1> QED
  BY <1>2, <1>3

\* getGMemFree is back at freep: its sum and the chunk there are all of the list.
LEMMA SumIsExact ==
    ASSUME WInv, NEW t \in Threads, SumDone(t)
    PROVE  SumResult(t) = Cardinality(FreeUnits)
<1>0. pc[t] = "sum" /\ p[t] = freep /\ IInv /\ SeenInv
  BY DEF SumDone, WInv
<1>1. freep # NULL
  BY <1>0 DEF IInv, LockInv
<1>2. PICK F \in SUBSET Addr : IsFreeList(F)
  BY <1>0, <1>1 DEF IInv, ListInv
<1>3. sum[t] = Cardinality(PassedUnits(F, freep))
  BY <1>0, <1>2 DEF SeenInv, Summed
<1>4. F \subseteq Int /\ freep \in F
  BY <1>2, Constants DEF IsFreeList, Linked
<1>5. \A a \in F : Passed(freep, freep, a) <=> a # freep
  BY <1>4, AllPassed
<1>6. {a \in F : Passed(freep, freep, a)} = F \ {freep}
  BY <1>5
<1>7. PassedUnits(F, freep) = UnitsOf(F \ {freep})
  BY <1>6 DEF PassedUnits
<1>8. UnitsOf(F \ {freep}) \cup ChunkUnits(freep) = UnitsOf(F)
  BY <1>4 DEF UnitsOf
<1>9. Cardinality(UnitsOf(F \ {freep}) \cup ChunkUnits(freep))
        = Cardinality(UnitsOf(F \ {freep})) + size[freep]
  <2> DEFINE S == F \ {freep}
  <2>1. S \in SUBSET F /\ freep \in F \ S
    BY <1>4
  <2> HIDE DEF S
  <2>2. Cardinality(UnitsOf(S) \cup ChunkUnits(freep)) = Cardinality(UnitsOf(S)) + size[freep]
    BY <1>0, <1>2, <2>1, OneChunkMore
  <2> QED
    BY <2>2 DEF S
<1>10. SumResult(t) = Cardinality(UnitsOf(F))
  BY <1>0, <1>3, <1>7, <1>8, <1>9 DEF SumResult
<1> QED
  BY <1>0, <1>2, <1>10, FreeUnitsInList

\* getGMemFree (memory.c:239-251) answers exactly the memory that no caller
\* holds, for every heap and every sequence of calls before it.
THEOREM MemorySumExact == OrderedSpec => SumExact
<1> DEFINE Answers ==
      \A t \in Threads :
          pc[t] = "sum" /\ pc'[t] = "idle" => SumResult(t) = Cardinality(FreeUnits)
<1>1. WInv /\ [OrderedNext]_vars => [Answers]_vars
  <2> SUFFICES ASSUME WInv, OrderedNext, NEW t \in Threads, pc[t] = "sum", pc'[t] = "idle"
               PROVE  SumResult(t) = Cardinality(FreeUnits)
    BY DEF Answers
  <2>1. ASSUME Environment PROVE FALSE
    BY <2>1 DEF Environment, InitMemory, DestroyMemory, ClientWrites, locals
  <2>2. ASSUME NEW u \in Threads, Enter(u) PROVE FALSE
    BY <2>2 DEF WInv, IInv, TypeOK, Enter, MallocEnter, FreeEnter, SumEnter, Declined, vars
  <2>3. ASSUME NEW u \in Threads, TakeLock(u) PROVE FALSE
    BY <2>3 DEF WInv, IInv, TypeOK, TakeLock, MallocLock, FreeReject, FreeLock, SumLock, Return
  <2>4. ASSUME NEW u \in Threads, Inside(u) PROVE SumDone(t)
    <3>1. pc' = [pc EXCEPT ![u] = "idle"] \/ pc' = pc
      BY <2>4 DEF Inside, MallocExact, MallocCut, MallocFail, MallocNext,
         FreeSearch, FreeInsert, SumNext, SumDone, Return, shared
    <3>2. u = t
      BY <3>1 DEF WInv, IInv, TypeOK
    <3>3. pc' # pc /\ pc[u] = "sum"
      BY <3>2
    <3>4. ~SumNext(u)
      BY <3>3 DEF SumNext
    <3>5. /\ ~MallocExact(u) /\ ~MallocCut(u) /\ ~MallocFail(u) /\ ~MallocNext(u)
          /\ ~FreeSearch(u) /\ ~FreeInsert(u)
      BY <3>3 DEF MallocExact, MallocCut, MallocFail, MallocNext, FreeSearch, FreeInsert
    <3>6. SumDone(u)
      BY <2>4, <3>4, <3>5 DEF Inside
    <3> QED
      BY <3>2, <3>6
  <2>5. SumDone(t)
    BY <2>1, <2>2, <2>3, <2>4 DEF OrderedNext, OrderedEnter
  <2> QED
    BY <2>5, SumIsExact
<1> QED
  BY <1>1, WalksKept, PTL DEF OrderedSpec, SumExact

-----------------------------------------------------------------------------
(* The refinement of Allocator.                                             *)

\* gMalloc's walk has come round: there is no room for the request anywhere.
LEMMA NoRoom ==
    ASSUME WInv, NEW t \in Threads, MallocFail(t)
    PROVE  \A at \in 0 .. HeapUnits - 1 : ~Abstract!Gap(at, nunits[t])
<1>0. /\ pc[t] = "mscan" /\ ~Fits(p[t], nunits[t]) /\ p[t] = freep /\ IInv /\ SeenInv
  BY DEF MallocFail, WInv
<1>1. freep # NULL /\ nunits[t] \in Nat /\ nunits[t] >= 1
  BY <1>0 DEF IInv, TypeOK, LockInv
<1>2. PICK F \in SUBSET Addr : IsFreeList(F)
  BY <1>0, <1>1 DEF IInv, ListInv
<1>3. /\ freep \in F /\ F \subseteq Int /\ \A a \in F : a \in Int /\ size[a] \in Nat
  BY <1>0, <1>2, Constants DEF IsFreeList, Linked, IInv, TypeOK
<1>4. \A a \in F : Passed(freep, freep, a) <=> a # freep
  BY <1>3, AllPassed
<1>5. \A a \in F : size[a] < nunits[t]
  <2>1. \A a \in F : a # freep => size[a] < nunits[t]
    BY <1>0, <1>2, <1>4 DEF SeenInv, Refused
  <2>2. size[freep] < nunits[t]
    BY <1>0, <1>1, <1>3 DEF Fits
  <2> QED
    BY <2>1, <2>2
<1>6. \A b \in live : b.at \in Nat /\ b.n \in Nat
  BY <1>0, Constants DEF IInv, TypeOK, Block, Units
<1> SUFFICES ASSUME NEW at \in 0 .. HeapUnits - 1, Abstract!Gap(at, nunits[t])
             PROVE  FALSE
  OBVIOUS
<1>7. PICK n : n = nunits[t]
  OBVIOUS
<1>8. /\ n \in Nat /\ n >= 1 /\ at \in Int /\ at \in Units /\ HeapUnits \in Nat
      /\ at + n <= HeapUnits
      /\ \A b \in live : at + n <= b.at \/ b.at + b.n <= at
  BY <1>1, <1>7, Constants DEF Abstract!Gap, Units
\* The unit at lies in a free chunk, which ends within the gap.
<1>9. PICK a \in F \ {Base} : a <= at /\ at < a + size[a]
  <2>1. ASSUME NEW b \in live, b.at <= at, at < b.at + b.n PROVE FALSE
    BY <1>6, <1>8, <2>1
  <2> QED
    BY <1>2, <1>8, <2>1 DEF IsFreeList, Covers
<1>10. PICK e : e = a + size[a]
  OBVIOUS
<1>11. e \in Int /\ a \in Int /\ a < e /\ at < e /\ e < at + n /\ e \in Units
  <2>1. a \in Int /\ size[a] \in Nat /\ size[a] < n
    BY <1>3, <1>5, <1>7
  <2>2. e \in Int /\ a < e /\ at < e /\ e < at + n
    BY <1>8, <1>9, <1>10, <2>1
  <2>3. 0 <= e /\ e < HeapUnits
    BY <1>8, <2>2 DEF Units
  <2> QED
    BY <2>1, <2>2, <2>3, Constants DEF Units
\* The unit behind that chunk lies in another one: the two were not merged.
<1>12. PICK c \in F \ {Base} : c <= e /\ e < c + size[c]
  <2>1. ASSUME NEW b \in live, b.at <= e, e < b.at + b.n PROVE FALSE
    BY <1>6, <1>8, <1>11, <2>1
  <2> QED
    BY <1>2, <1>11, <2>1 DEF IsFreeList, Covers
<1>13. c \in Int /\ size[c] \in Nat /\ size[a] \in Nat
  BY <1>3
<1>14. (a < c => a + size[a] < c) /\ (c < a => c + size[c] < a)
  BY <1>2 DEF IsFreeList, Coalesced
<1> QED
  BY <1>10, <1>11, <1>12, <1>13, <1>14

\* A chunk that gMalloc takes, whole or its tail, was in nobody's hands.
LEMMA TakenIsFree ==
    ASSUME WInv, NEW t \in Threads, pc[t] = "mscan", Fits(p[t], nunits[t]),
           NEW at \in Int, p[t] <= at, at + nunits[t] = p[t] + size[p[t]]
    PROVE  /\ at \in 0 .. HeapUnits - 1 /\ Abstract!Gap(at, nunits[t]) /\ nunits[t] > 0
<1>0. IInv
  BY DEF WInv
<1>1. freep # NULL
  BY <1>0 DEF IInv, LockInv
<1>2. PICK F \in SUBSET Addr : IsFreeList(F) /\ WalkInv(F)
  BY <1>0, <1>1 DEF IInv, ListInv
<1>3. PICK q, n : q = p[t] /\ n = nunits[t]
  OBVIOUS
<1>4. /\ n \in Nat /\ n >= 1 /\ q \in F \ {Base} /\ q \in Units /\ size[q] \in Nat
      /\ q + size[q] <= HeapUnits
  BY <1>0, <1>2, <1>3, ChunkAtHand
<1>5. q \in Int /\ 0 <= q /\ q <= at /\ at + n = q + size[q] /\ HeapUnits \in Int
  BY <1>3, <1>4, Constants DEF Units
<1>6. \A b \in live : b.at \in Nat /\ b.n \in Nat
  BY <1>0, Constants DEF IInv, TypeOK, Block, Units
<1>7. \A b \in live : q + size[q] <= b.at \/ b.at + b.n <= q
  BY <1>2, <1>4 DEF IsFreeList, ApartFromLive
<1>8. \A b \in live : at + n <= b.at \/ b.at + b.n <= at
  BY <1>4, <1>5, <1>6, <1>7
<1>9. at + n <= HeapUnits /\ at \in 0 .. HeapUnits - 1 /\ n > 0
  BY <1>4, <1>5
<1> QED
  BY <1>3, <1>8, <1>9 DEF Abstract!Gap

\* Only a caller that asks has a size.
LEMMA NotAsking ==
    ASSUME WInv, NEW t \in Threads, pc[t] \notin {"mlock", "mscan"}
    PROVE  nunits[t] = 0 /\ [nunits EXCEPT ![t] = 0] = nunits
<1>1. nunits[t] = 0 /\ nunits \in [Threads -> Nat]
  BY DEF WInv, IInv, TypeOK, IdleInv
<1> QED
  BY <1>1

\* Every step is one of Allocator's or invisible to it.
LEMMA MemoryStepSimulates ==
    ASSUME WInv, [OrderedNext]_vars
    PROVE  [Abstract!Next]_(Abstract!vars)
<1> USE DEF Abstract!vars
<1>0. IInv /\ freep \in Addr \cup {NULL}
  BY DEF WInv, IInv, TypeOK
<1>1. CASE Environment
  <2>1. CASE InitMemory
    <3>1. Abstract!Start
      BY <2>1, Constants DEF InitMemory, locals, Abstract!Start
    <3> QED
      BY <3>1 DEF Abstract!Next
  <2>2. CASE DestroyMemory
    <3>1. Abstract!Stop
      BY <2>2 DEF DestroyMemory, locals, Abstract!Stop
    <3> QED
      BY <3>1 DEF Abstract!Next
  <2>3. CASE \E b \in live, j \in Junk : \E u \in Extent(b) \ {b.at} : ClientWrites(b, u, j)
    BY <2>3 DEF ClientWrites, locals
  <2> QED
    BY <1>1, <2>1, <2>2, <2>3 DEF Environment
<1>2. ASSUME NEW t \in Threads, Enter(t) PROVE [Abstract!Next]_(Abstract!vars)
  <2>1. ASSUME NEW nbytes \in Requests, MallocEnter(t, nbytes)
        PROVE  Abstract!Next
    <3>1. nunits[t] = 0
      BY <2>1, NotAsking DEF MallocEnter
    <3>2. Abstract!Ask(t, NUnits(nbytes))
      BY <2>1, <3>1 DEF MallocEnter, shared, Abstract!Ask
    <3> QED
      BY <3>2 DEF Abstract!Next
  <2>2. CASE SumEnter(t) \/ Declined(t) \/ \E a : FreeEnter(t, a)
    BY <2>2 DEF SumEnter, Declined, FreeEnter, shared, vars
  <2> QED
    BY <1>2, <2>1, <2>2 DEF Enter
<1>3. ASSUME NEW t \in Threads, TakeLock(t) PROVE [Abstract!Next]_(Abstract!vars)
  <2>1. CASE FreeReject(t)
    <3>1. [nunits EXCEPT ![t] = 0] = nunits
      BY <2>1, NotAsking DEF FreeReject
    <3> QED
      BY <2>1, <3>1 DEF FreeReject, Return, shared
  <2>2. CASE MallocLock(t) \/ FreeLock(t) \/ SumLock(t)
    BY <2>2 DEF MallocLock, FreeLock, SumLock
  <2> QED
    BY <1>3, <2>1, <2>2 DEF TakeLock
<1>4. ASSUME NEW t \in Threads, Inside(t) PROVE [Abstract!Next]_(Abstract!vars)
  <2>1. CASE MallocExact(t)
    <3>1. /\ p[t] \in Int /\ nunits[t] \in Nat /\ size[p[t]] = nunits[t]
          /\ prevp[t] \in Addr /\ freep # NULL
      BY <1>0, <2>1, Constants DEF MallocExact, IInv, TypeOK, LockInv
    <3>2. /\ p[t] \in 0 .. HeapUnits - 1 /\ Abstract!Gap(p[t], nunits[t]) /\ nunits[t] > 0
      BY <2>1, <3>1, TakenIsFree DEF MallocExact
    <3>3. Abstract!Grant(t, p[t])
      BY <2>1, <3>1, <3>2, Constants DEF MallocExact, Grant, Return, Abstract!Grant
    <3> QED
      BY <3>2, <3>3 DEF Abstract!Next
  <2>2. CASE MallocCut(t)
    <3> DEFINE q == p[t] + size[p[t]] - nunits[t]
    <3>1. /\ p[t] \in Addr /\ p[t] \in Int /\ nunits[t] \in Nat /\ size[p[t]] \in Nat
          /\ size[p[t]] >= nunits[t] /\ prevp[t] \in Addr /\ freep # NULL
      BY <1>0, <2>2, Constants DEF MallocCut, Fits, IInv, TypeOK, LockInv
    <3>2. q \in Int /\ p[t] <= q /\ q + nunits[t] = p[t] + size[p[t]]
      BY <3>1
    <3>3. /\ pc[t] = "mscan" /\ Fits(p[t], nunits[t]) /\ freep' = prevp[t]
          /\ live' = live \cup {[at |-> q, n |-> nunits[t]]}
          /\ nunits' = [nunits EXCEPT ![t] = 0]
      BY <2>2 DEF MallocCut, Grant, Return
    <3> HIDE DEF q
    <3>4. /\ q \in 0 .. HeapUnits - 1 /\ Abstract!Gap(q, nunits[t]) /\ nunits[t] > 0
      BY <3>2, <3>3, TakenIsFree
    <3>5. Abstract!Grant(t, q)
      BY <3>1, <3>3, <3>4, Constants DEF Abstract!Grant
    <3> QED
      BY <3>4, <3>5 DEF Abstract!Next
  <2>3. CASE MallocFail(t)
    <3>1. nunits[t] > 0
      BY <1>0, <2>3 DEF MallocFail, IInv, TypeOK, LockInv
    <3>2. Abstract!Refuse(t)
      BY <2>3, <3>1, NoRoom DEF MallocFail, Return, Abstract!Refuse
    <3> QED
      BY <3>2 DEF Abstract!Next
  <2>4. CASE FreeInsert(t)
    <3>1. /\ pc[t] = "fscan" /\ live' = {c \in live : c.at # bp(t)} /\ freep' = p[t]
          /\ nunits' = [nunits EXCEPT ![t] = 0]
      BY <2>4 DEF FreeInsert, Return
    <3>2. [nunits EXCEPT ![t] = 0] = nunits
      BY <3>1, NotAsking
    <3>3. freep # NULL /\ p[t] \in Addr
      BY <1>0, <3>1 DEF IInv, TypeOK, LockInv
    <3>4. \A c \in live : c.at \in Nat /\ c.n \in Nat /\ c.n >= 1
      BY <1>0, Constants DEF IInv, TypeOK, NoOverlap, Block, Units
    <3>5. PICK b \in live : ap[t] = b.at + 1
      BY <1>0, <3>1 DEF IInv, FreeInv
    <3>6. bp(t) = b.at
      BY <3>4, <3>5 DEF bp
    <3>7. \A c \in live : c = b \/ c.at + c.n <= b.at \/ b.at + b.n <= c.at
      BY <1>0 DEF IInv, NoOverlap, Disjoint
    <3>8. \A c \in live : c.at = b.at => c = b
      BY <3>4, <3>7
    <3>9. live' = live \ {b}
      BY <3>1, <3>6, <3>8
    <3>10. Abstract!Release(b)
      BY <3>1, <3>2, <3>3, <3>9, Constants DEF Abstract!Release
    <3> QED
      BY <3>10 DEF Abstract!Next
  <2>5. CASE SumDone(t)
    <3>1. [nunits EXCEPT ![t] = 0] = nunits
      BY <2>5, NotAsking DEF SumDone
    <3> QED
      BY <2>5, <3>1 DEF SumDone, Return
  <2>6. CASE MallocNext(t) \/ FreeSearch(t) \/ SumNext(t)
    BY <2>6 DEF MallocNext, FreeSearch, SumNext, shared
  <2> QED
    BY <1>4, <2>1, <2>2, <2>3, <2>4, <2>5, <2>6 DEF Inside
<1>5. CASE UNCHANGED vars
  BY <1>5 DEF vars
<1> QED
  BY <1>1, <1>2, <1>3, <1>4, <1>5 DEF OrderedNext, OrderedEnter

\* The free list does what memory.h promises: gMalloc hands out memory that
\* nobody has and answers NULL only when no gap of the heap is large enough.
THEOREM MemoryImplementsAllocator == OrderedSpec => ImplementsAllocator
<1>1. Init => Abstract!Init
  BY DEF Init, Abstract!Init
<1>2. WInv /\ [OrderedNext]_vars => [Abstract!Next]_(Abstract!vars)
  BY MemoryStepSimulates
<1> QED
  BY <1>1, <1>2, WalksKept, PTL DEF OrderedSpec, ImplementsAllocator, Abstract!Spec
=============================================================================
