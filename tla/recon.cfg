\* Six readings of one order, every answer of one or two entries.
SPECIFICATION Spec
CONSTANTS
    Words = {"cable", "freight"}
    Orders <- MCOrders
    Answers <- MCAnswers
INVARIANTS
    TypeOK
    EachLineOnce
    CleanHidesNothing
    NoFreeRelease
    TakenCoversPO
    DiscrepancyIsNamed
