SPECIFICATION FairSpec
CONSTANTS
    Projects <- MCProjects
    Entities <- MCEntities
    NoGid = "nogid"
    Listings <- MCListings
    PageSize = 2
    MaxListed = 3
INVARIANTS
    TypeOK
    NoSilentGaps
    TotalsAddUp
    TaskNamesItsProject
PROPERTIES
    WalksEnd
CHECK_DEADLOCK FALSE
