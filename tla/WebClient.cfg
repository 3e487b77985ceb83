SPECIFICATION MCSpec
CONSTANTS
    a = a
    b = b
    Accounts = {"ana", "bo"}
    Ventures = {"v1", "v2"}
    Names = {"A"}
    Rhythms = {"monthly", "yearly"}
    Dues = {100, 150}
    CentsPerUnit = 100
    Invitees = {"cy"}
    Offers = {"member", "owner"}
    Sidebars = {"dashboard", "overview"}
    MaxInvites = 1
    MaxSessions = 1
    MaxMoves = 1
    Kids = {"k1"}
    Verifying = {a, b}
    TTL = 2
    Timeout = 1
    LastInstant = 3
    NoKeys = NoKeys
    None = None
SYMMETRY MCSymmetry
INVARIANTS
    WebTypeOK
    DashboardIsOfOneVenture
    InvitesAreAsTold
    KeysAreGooglesOfLate
PROPERTIES
    SavesAreExplained
CHECK_DEADLOCK FALSE
