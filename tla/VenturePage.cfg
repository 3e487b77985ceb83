SPECIFICATION PageSpec
CONSTANTS
    MaxTime <- MCMaxTime
    UTC = "UTC"
    Zones <- MCZones
    Calendar <- MCCalendar
    Users = {"ana", "bo"}
    Viewer = "ana"
    r1 = r1
    r2 = r2
    RowIds = {r1, r2}
    Amounts = {1, 2}
    SettingsChoices <- MCSettingsChoices
    Timezones = {"UTC"}
    OthersPay = {2}
    MaxMoves <- MCMaxMoves
    Opening = 3
    YearLength = 1
    Files <- MCFiles
    MaxProofBytes = 2
    SomeSlugs <- MCSlugs
    SomeEmails <- MCEmails
    SomeIds <- MCIds
    Modes = {"yearly"}
    Samples <- MCSamples
    MaxOpen = 1
    Error = Error
    None = None
SYMMETRY MCRowSymmetry
INVARIANTS
    PageTypeOK
    PoolAddsUp
    MineAddsUp
    OffersWhatFits
    ListShowsAcknowledged
    ReceiptTravels
    ReceiptsFindHome
    AuditShowsWhatWasPicked
    
