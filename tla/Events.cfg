SPECIFICATION FairSpec
CONSTANTS
    a = a
    f = f
    Subs <- PlainAndFiltered
    Filtered <- OnlyFiltered
    Wanted = {2}
    MaxEvents = 2
    Capacity = 1
INVARIANTS
    EventsInOrder
    LeftIsSilent
    NoSubscriptionLeak
    EventSafety
PROPERTIES
    EventsDrain
    HandlesClose
CHECK_DEADLOCK FALSE
