SPECIFICATION FairSpec
CONSTANTS
    Emails = {"ana", "bo"}
    Normal = {"bo"}
    Slugs = {"fund", "club"}
    Roles = {"owner"}
    MaxInvites = 2
    SignIns = {s1}
    Desks = {d1}
    s1 = s1
    d1 = d1
    None = None
INVARIANTS
    SignedInMeansMember
    NobodyFromNowhere
PROPERTIES
    SignInsEnd
