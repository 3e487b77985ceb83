SPECIFICATION Spec
CONSTANTS
    Emails = {"ana", "bo"}
    Normal = {"bo"}
    Slugs = {"fund"}
    Roles = {"owner"}
    MaxInvites = 2
    SignIns = {s1, s2}
    Desks = {d1, d2}
    s1 = s1
    s2 = s2
    d1 = d1
    d2 = d2
    None = None
SYMMETRY MCSymmetry
INVARIANTS
    TypeOK
    AcceptedMeansMember
