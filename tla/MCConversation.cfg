CONSTANTS
    None = None
    Accounts <- MCAccounts
    MaxRequests = 2
    MaxNews = 1
    MaxTexts = 1
SPECIFICATION FairSpec
INVARIANTS TypeOK KeyComesFirst AgreeAtRest
PROPERTIES RefusedWhenStale SeatingImplemented Agreement
CHECK_DEADLOCK FALSE
