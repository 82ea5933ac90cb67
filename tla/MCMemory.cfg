SPECIFICATION FairOrderedSpec
CONSTANTS
    Threads = {t1, t2}
    SIZE_ALLOC = 13
    HeaderSize = 3
    Base <- MCBaseAbove
    Requests = {0, 3, 6, 14}
    Foreign <- MCForeign
    Junk <- MCJunk
    NULL = NULL
    None = None
INVARIANTS
    TypeOK
    NoOverlap
    HeadersIntact
    FreeListOK
PROPERTIES
    SumExact
    ImplementsAllocator
    SectionsEnd
