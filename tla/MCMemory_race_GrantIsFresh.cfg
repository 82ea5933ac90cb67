SPECIFICATION Spec
CONSTANTS
    Threads = {t1, t2}
    SIZE_ALLOC = 16
    HeaderSize = 3
    Base <- MCBaseBelow
    Requests = {0, 3, 6, 17}
    Foreign <- MCForeign
    Junk = {}
    NULL = NULL
    None = None
PROPERTIES
    GrantIsFresh
