SPECIFICATION Spec
CONSTANTS
    director = director
    c1 = c1
    clients = clients
    root = root
    p1 = p1
    p2 = p2
    Components = {director, c1}
    Nested = {clients}
    Root = root
    Parent <- MCParent
    Pages = {p1, p2}
    NoValue = NoValue
    MaxUpdates = 2
INVARIANTS
    NoLostWakeup
PROPERTIES
    PagesNeverGoBack
    PageCatchesUp
    UpdatesReturn
\* When the components make no more updates all goroutines may wait.
CHECK_DEADLOCK FALSE
