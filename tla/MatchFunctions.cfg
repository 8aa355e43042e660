SPECIFICATION Spec
CONSTANTS
    r1 = r1
    r2 = r2
    d1 = d1
    t1 = t1
    t2 = t2
    t3 = t3
    t4 = t4
    t5 = t5
    Runs = {r1, r2, d1}
    DebugRuns = {d1}
    Chunks <- MCChunks
    Profiles <- MCProfiles
    Unset = Unset
    NoExtensions = NoExtensions
INVARIANTS
    TypeOK
    WholeRequestOrNone
    TicketsUsedOnce
    PanicCauses
    MatchesAsConfigured
    FewLeftOver
PROPERTY RunsEnd
