SPECIFICATION FairSpec
CONSTANTS
    t1 = t1
    t2 = t2
    f1 = f1
    f2 = f2
    modeA = modeA
    modeB = modeB
    modeC = modeC
    Tickets = {t1, t2}
    Rosters <- MCRosters
    Fleets = {f1}
    FleetRequests <- MCFleetRequests
    Backfills = {b1}
    FleetCount = 5
    NoHash = NoHash
    NoBackfill = NoBackfill
    MaxCycles = 2
    MaxMatches = 2
    ChanCap = 1
PROPERTY BackfillOffered
