SPECIFICATION Spec
CONSTANTS
    Emails = {"ana", "bo"}
    Normal = {"bo"}
    Slugs = {"fund"}
    Roles = {"owner", "member"}
    MaxInvites = 2
    SignIns = {s1}
    Desks = {d1, d2}
    s1 = s1
    d1 = d1
    d2 = d2
    None = None
PROPERTIES
    ActiveInviteKeepsRole
