SPECIFICATION Spec
CONSTANTS
    c1 = c1
    c2 = c2
    Clients = {c1, c2}
    Scenarios = 2
    Cycles = 2
    Unreadable = Unreadable
    NoCriteria <- MCNoCriteria
    Proposals <- MCProposals
INVARIANTS
    ResultsDisjoint
    NoBetterLeftOut
PROPERTY TicketSpec
\* After the last scenario and evaluation everybody waits.
CHECK_DEADLOCK FALSE
