SPECIFICATION FairSpec
CONSTANTS
    Slugs <- MCSlugs
    Typed <- MCTyped
    People = {"ana", "bo"}
    Names <- MCNames
    Roles = {"owner"}
    Seeds = {"s1", "s2"}
    OnCalendar = {"s1"}
    SomeDates = {"s1", "s2", "malformed"}
    Releases = {"r1", "r2"}
    MaxStops = 1
    Requests = {"page", "api"}
    Forms = {"page"}
    Visitor <- MCVisitor
    Named <- MCNamed
    SomeNames <- MCSomeNames
    SomeMoney <- MCMoneyTexts
    SomeDues <- MCDues
    MinSlug = 2
    MaxSlug = 3
    None = None
INVARIANTS
    TypeOK
    ListedMeansComplete
    OneRegistrar
    ServingMeansMigrated
    PagesTellTheTruth
    NamesMakeSlugs
    MoneyReadsAsWritten
PROPERTIES
    KeepsTheRegistry
    ComesBack
    PagesAreAnswered
