SPECIFICATION Spec
CONSTANTS
    i1 = i1
    i2 = i2
    i3 = i3
    m1 = m1
    m2 = m2
    m3 = m3
    m4 = m4
    Invocations = {i1, i2, i3}
    MatchesOf <- MCMatchesOf
    None = None
INVARIANTS
    TypeOK
    QuietAfterWait
    
    LostOnlyByOverlap
PROPERTY CollectionEnds
CHECK_DEADLOCK FALSE
