SPECIFICATION Spec
CONSTANTS
    a = a
    b = b
    r1 = r1
    r2 = r2
    None = None
    Puzzles <- TwoPuzzles
    Requests <- TwoRequests
    Hours = 2
    Timeout = 1
    LastDay = 3
    WeakReads = FALSE
SYMMETRY AllAlike
PROPERTIES
    GeneratedOnce
