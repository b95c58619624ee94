SPECIFICATION Spec
CONSTANTS
    Tours <- StaffTours
    MaxFlights = 3
    Catalog <- MCCatalog
    ExtraPrice <- MCExtraPrice
    Specials <- MCSpecials
    RewardValue = 100
    MaxQuantity = 2
    MaxMonth = 2
INVARIANTS
    CachedWritesRefetched
    ListsFollowQueries
    RolesConverge
PROPERTIES
    SpinnersEnd
CHECK_DEADLOCK FALSE
