SPECIFICATION Spec
CONSTANTS
    a = a
    b = b
    c = c
    easy = easy
    r1 = r1
    r2 = r2
    d1 = d1
    d2 = d2
    d3 = d3
    d4 = d4
    None = None
    Levels <- OneLevel
    Seeds <- ThreeSeeds
    SeedsOf <- SeedsOfEasy
    DISTRIBUTION <- TwoOfEach
    Requests <- TwoRequests
    LastMonth = 2
    Days <- ShortMonths
    CronDay = 2
    WeakReads = TRUE
    BoxSize = 2
    Digits <- FourDigits
    Blank = Blank
SYMMETRY AllAlike
INVARIANTS
    TypeOK
    LivesItsMonth
    ReadyForTheMonth
    BooksAreWhole
