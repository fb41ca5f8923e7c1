SPECIFICATION Spec
CONSTANTS
    Instruments <- MCInstruments
    c1 = c1
    c2 = c2
    s1 = s1
    s2 = s2
    Clients = {c1, c2}
    Syncs = {s1, s2}
    Qty = 2
    MaxDay = 1
    MaxMoves = 3
INVARIANTS
    ClosedIsSoldOut
    BooksAgree
    OneOpenRowPerPosition
PROPERTIES
    VanishedIsNoticed
CHECK_DEADLOCK FALSE
