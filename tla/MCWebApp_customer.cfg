SPECIFICATION Spec
CONSTANTS
    Tours <- CustomerTours
    MaxFlights = 3
    Catalog <- MCCatalog
    ExtraPrice <- MCExtraPrice
    Specials <- MCSpecials
    RewardValue = 100
    MaxQuantity = 2
    MaxMonth = 2
INVARIANTS
    TypeOK
    AwaitedOnce
    BillsTheOrder
    BookingConsistent
    ConfirmationEarned
    MembersOnly
PROPERTIES
    SpinnersEnd
CHECK_DEADLOCK FALSE
